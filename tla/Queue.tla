-------------------------------- MODULE Queue --------------------------------
(***************************************************************************)
(* The lock-free queue: src/queue.rs.                                      *)
(*                                                                         *)
(* The entries form a linked list from oldest on.  newest is where a push  *)
(* starts looking for the end of the list: it may lag behind, and be null  *)
(* in a queue that has entries.  A pop deletes the oldest entry with a tag *)
(* on its link and moves oldest past it.  A push that becomes the first    *)
(* entry, and a pop that takes the last one, set newest in a step of its   *)
(* own.                                                                    *)
(*                                                                         *)
(* next_ptr is atomic here: module LinkedList shows that it skips nothing  *)
(* but deleted entries, which stay deleted, and that it unlinks them.      *)
(* Entries are numbered in the order of their allocation; one that a       *)
(* thread has a pointer to is not used again (module Ebr).  An entry       *)
(* stands for its value.                                                   *)
(*                                                                         *)
(* A definition X_Mistake before X is X with the mistake it names.         *)
(***************************************************************************)
EXTENDS Naturals, Sequences, FiniteSets

CONSTANTS
  Threads,
  MaxEntries,   \* bound: values pushed in a behaviour
  Ops           \* the operations each thread uses

Operations == {"push", "push_if", "pop", "pop_if", "peek", "iter"}

ASSUME QueueAssumption ==
  MaxEntries \in Nat /\ Ops \in [Threads -> SUBSET Operations]

Null == 0
Entries == 1 .. MaxEntries

VARIABLES
  oldest,    \* the pointer to the first entry
  newest,    \* the pointer a push starts from
  next,      \* the link of each entry, the pointer
  deleted,   \* the entries whose link is tagged: popped
  alloc,     \* how many entries have been allocated
  pc,        \* where a thread is
  op,        \* its operation
  ptr,       \* newest_ptr of a push, current of the others
  found,     \* oldest_ptr of cleanup_oldest
  succ,      \* the entry cleanup_oldest puts in its place
  new        \* new_entry of a push

shared == <<oldest, newest, next, deleted>>
local == <<ptr, found, succ, new>>
vars == <<oldest, newest, next, deleted, alloc, pc, op, ptr, found, succ, new>>

Goto(t, l) == pc' = [pc EXCEPT ![t] = l]
SetPtr(t, e) == ptr' = [ptr EXCEPT ![t] = e]

\* The entries from e on that are not deleted, in the order of their links.
LiveFrom(e) ==
  LET C[x \in Entries \cup {Null}] ==
        IF x = Null THEN <<>>
        ELSE IF x \in deleted THEN C[next[x]] ELSE <<x>> \o C[next[x]]
  IN C[e]

\* next_ptr: the next entry that is not deleted.
NextPtr(e) ==
  LET s == LiveFrom(next[e]) IN IF s = <<>> THEN Null ELSE Head(s)

Init ==
  /\ oldest = Null /\ newest = Null
  /\ next = [e \in Entries |-> Null] /\ deleted = {} /\ alloc = 0
  /\ pc = [t \in Threads |-> "idle"]
  /\ op = [t \in Threads |-> "none"]
  /\ ptr = [t \in Threads |-> Null]
  /\ found = [t \in Threads |-> Null]
  /\ succ = [t \in Threads |-> Null]
  /\ new = [t \in Threads |-> Null]

\* The operation returns.
Done(t) ==
  /\ Goto(t, "idle")
  /\ op' = [op EXCEPT ![t] = "none"]
  /\ ptr' = [ptr EXCEPT ![t] = Null]
  /\ found' = [found EXCEPT ![t] = Null]
  /\ succ' = [succ EXCEPT ![t] = Null]
  /\ new' = [new EXCEPT ![t] = Null]

Begin(t, o, l) ==
  /\ pc[t] = "idle" /\ o \in Ops[t]
  /\ op' = [op EXCEPT ![t] = o]
  /\ Goto(t, l)
  /\ UNCHANGED <<shared, alloc, local>>

-----------------------------------------------------------------------------
(* push and push_if: push_if_internal *)

BeginPush(t) ==
  alloc < MaxEntries /\ \E o \in {"push", "push_if"} : Begin(t, o, "newest")

LoadNewest(t) ==
  /\ pc[t] = "newest"
  /\ SetPtr(t, newest)
  /\ Goto(t, IF newest = Null THEN "oldest" ELSE "traverse")
  /\ UNCHANGED <<shared, alloc, op, found, succ, new>>

LoadOldest(t) ==
  /\ pc[t] = "oldest"
  /\ SetPtr(t, oldest)
  /\ Goto(t, "traverse")
  /\ UNCHANGED <<shared, alloc, op, found, succ, new>>

\* traverse, an entry at a time, to the last one: the start, if there is no other.
Traverse(t) ==
  LET e == ptr[t]
      n == IF e = Null THEN Null ELSE NextPtr(e)
  IN
  /\ pc[t] = "traverse"
  /\ next' = IF e = Null THEN next ELSE [next EXCEPT ![e] = n]
  /\ IF n # Null
       THEN SetPtr(t, n) /\ UNCHANGED pc
       ELSE Goto(t, "cond") /\ UNCHANGED ptr
  /\ UNCHANGED <<oldest, newest, deleted, alloc, op, found, succ, new>>

\* The condition holds, and the entry is allocated the first time; or the value is
\* handed back.
Cond(t) ==
  /\ pc[t] = "cond"
  /\ \/ /\ new[t] # Null \/ alloc < MaxEntries
        /\ alloc' = IF new[t] = Null THEN alloc + 1 ELSE alloc
        /\ new' = [new EXCEPT ![t] = IF @ = Null THEN alloc' ELSE @]
        /\ Goto(t, "cas")
        /\ UNCHANGED <<op, ptr, found, succ>>
     \/ op[t] = "push_if" /\ Done(t) /\ UNCHANGED alloc
  /\ UNCHANGED shared

PushCas_OnDeleted(t) ==
  LET e == ptr[t] IN
  /\ pc[t] = "cas"
  /\ IF e # Null
       THEN IF next[e] = Null
              THEN /\ next' = [next EXCEPT ![e] = new[t]]
                   /\ Goto(t, "swap") /\ UNCHANGED <<oldest, ptr>>
              ELSE /\ SetPtr(t, next[e]) /\ Goto(t, "traverse")
                   /\ UNCHANGED <<oldest, next>>
       ELSE IF oldest = Null
              THEN oldest' = new[t] /\ Goto(t, "swap") /\ UNCHANGED <<next, ptr>>
              ELSE /\ SetPtr(t, oldest) /\ Goto(t, "traverse")
                   /\ UNCHANGED <<oldest, next>>
  /\ UNCHANGED <<newest, deleted, alloc, op, found, succ, new>>

\* The entry becomes the next one of the last entry, or the oldest if there is
\* none.  The link of a deleted entry is tagged: the exchange fails on it.  The tag
\* is Second, and the retry never takes the way through cleanup_oldest.
PushCas(t) ==
  LET e == ptr[t] IN
  /\ pc[t] = "cas"
  /\ IF e # Null
       THEN IF next[e] = Null /\ e \notin deleted
              THEN /\ next' = [next EXCEPT ![e] = new[t]]
                   /\ Goto(t, "swap") /\ UNCHANGED <<oldest, ptr>>
              ELSE /\ SetPtr(t, next[e])
                   /\ Goto(t, IF next[e] = Null THEN "oldest" ELSE "traverse")
                   /\ UNCHANGED <<oldest, next>>
       ELSE IF oldest = Null
              THEN oldest' = new[t] /\ Goto(t, "swap") /\ UNCHANGED <<next, ptr>>
              ELSE /\ SetPtr(t, oldest) /\ Goto(t, "traverse")
                   /\ UNCHANGED <<oldest, next>>
  /\ UNCHANGED <<newest, deleted, alloc, op, found, succ, new>>

SwapNewest(t) ==
  /\ pc[t] = "swap"
  /\ newest' = new[t]
  /\ Goto(t, "check")
  /\ UNCHANGED <<oldest, next, deleted, alloc, op, local>>

CheckOldest_Never(t) == pc[t] = "check" /\ Done(t) /\ UNCHANGED <<shared, alloc>>

\* The queue may have been emptied in the meantime.
CheckOldest(t) ==
  /\ pc[t] = "check"
  /\ IF oldest = Null THEN Goto(t, "reset") /\ UNCHANGED <<op, local>> ELSE Done(t)
  /\ UNCHANGED <<shared, alloc>>

ResetNewest(t) ==
  /\ pc[t] = "reset"
  /\ newest' = Null
  /\ Done(t)
  /\ UNCHANGED <<oldest, next, deleted, alloc>>

-----------------------------------------------------------------------------
(* pop, pop_if, peek and iter *)

BeginPop(t) == \E o \in {"pop", "pop_if", "peek"} : Begin(t, o, "current")

BeginIter(t) == Begin(t, "iter", "clean")

LoadCurrent(t) ==
  /\ pc[t] = "current"
  /\ IF oldest = Null
       THEN Done(t)
       ELSE /\ SetPtr(t, oldest)
            /\ Goto(t, IF op[t] = "peek" THEN "peek" ELSE "pop")
            /\ UNCHANGED <<op, found, succ, new>>
  /\ UNCHANGED <<shared, alloc>>

PopEntry_NoCleanup(t) ==
  LET e == ptr[t] IN
  /\ pc[t] = "pop"
  /\ \/ e \notin deleted /\ deleted' = deleted \cup {e} /\ Done(t)
     \/ e \in deleted /\ Goto(t, "clean") /\ UNCHANGED <<deleted, op, local>>
     \/ e \notin deleted /\ op[t] = "pop_if" /\ Done(t) /\ UNCHANGED deleted
  /\ UNCHANGED <<oldest, newest, next, alloc>>

\* delete_self: the entry is popped if no other thread has popped it, and then
\* ptr[t] is null; or the condition of pop_if does not hold of it.
PopEntry(t) ==
  LET e == ptr[t] IN
  /\ pc[t] = "pop"
  /\ \/ /\ e \notin deleted
        /\ deleted' = deleted \cup {e}
        /\ SetPtr(t, Null) /\ Goto(t, "clean")
        /\ UNCHANGED <<op, found, succ, new>>
     \/ e \in deleted /\ Goto(t, "clean") /\ UNCHANGED <<deleted, op, local>>
     \/ e \notin deleted /\ op[t] = "pop_if" /\ Done(t) /\ UNCHANGED deleted
  /\ UNCHANGED <<oldest, newest, next, alloc>>

PeekEntry(t) ==
  /\ pc[t] = "peek"
  /\ IF ptr[t] \in deleted
       THEN Goto(t, "clean") /\ UNCHANGED <<op, local>>
       ELSE Done(t)
  /\ UNCHANGED <<shared, alloc>>

\* The iterator moves on, or is dropped.
IterNext(t) ==
  LET e == ptr[t] IN
  /\ pc[t] = "iter"
  /\ \/ /\ e # Null
        /\ next' = [next EXCEPT ![e] = NextPtr(e)]
        /\ SetPtr(t, NextPtr(e))
        /\ UNCHANGED <<pc, op, found, succ, new>>
     \/ Done(t) /\ UNCHANGED next
  /\ UNCHANGED <<oldest, newest, deleted, alloc>>

-----------------------------------------------------------------------------
(* cleanup_oldest *)

\* cleanup_oldest returns e: to the end of a pop that has popped its entry, to the
\* next round of the others.
CleanReturns(t, e) ==
  LET more == IF op[t] = "iter" THEN "iter" ELSE IF op[t] = "peek" THEN "peek" ELSE "pop"
  IN IF (op[t] # "iter" /\ (ptr[t] = Null \/ e = Null))
       THEN Done(t)
       ELSE /\ SetPtr(t, e) /\ Goto(t, more)
            /\ found' = [found EXCEPT ![t] = Null]
            /\ succ' = [succ EXCEPT ![t] = Null]
            /\ UNCHANGED <<op, new>>

CleanLoad(t) ==
  /\ pc[t] = "clean"
  /\ IF oldest = Null
       THEN CleanReturns(t, Null)
       ELSE /\ found' = [found EXCEPT ![t] = oldest]
            /\ Goto(t, "clean_next") /\ UNCHANGED <<op, ptr, succ, new>>
  /\ UNCHANGED <<shared, alloc>>

CleanNext(t) ==
  LET e == found[t] IN
  /\ pc[t] = "clean_next"
  /\ IF e \in deleted
       THEN /\ next' = [next EXCEPT ![e] = NextPtr(e)]
            /\ succ' = [succ EXCEPT ![t] = NextPtr(e)]
            /\ Goto(t, "clean_cas") /\ UNCHANGED <<op, ptr, found, new>>
       ELSE CleanReturns(t, e) /\ UNCHANGED next
  /\ UNCHANGED <<oldest, newest, deleted, alloc>>

CleanCas(t) ==
  /\ pc[t] = "clean_cas"
  /\ IF oldest = found[t]
       THEN /\ oldest' = succ[t]
            /\ IF succ[t] = Null
                 THEN Goto(t, "clean_reset") /\ UNCHANGED <<op, local>>
                 ELSE CleanReturns(t, succ[t])
       ELSE CleanReturns(t, oldest) /\ UNCHANGED oldest
  /\ UNCHANGED <<newest, next, deleted, alloc>>

CleanReset(t) ==
  /\ pc[t] = "clean_reset"
  /\ newest' = Null
  /\ CleanReturns(t, Null)
  /\ UNCHANGED <<oldest, next, deleted, alloc>>

Step(t) ==
  \/ LoadNewest(t) \/ LoadOldest(t) \/ Traverse(t) \/ Cond(t)
  \/ PushCas(t) \/ SwapNewest(t) \/ CheckOldest(t) \/ ResetNewest(t)
  \/ LoadCurrent(t) \/ PopEntry(t) \/ PeekEntry(t) \/ IterNext(t)
  \/ CleanLoad(t) \/ CleanNext(t) \/ CleanCas(t) \/ CleanReset(t)

Next ==
  \E t \in Threads : BeginPush(t) \/ BeginPop(t) \/ BeginIter(t) \/ Step(t)

Spec == Init /\ [][Next]_vars

FairSpec == Spec /\ \A t \in Threads : WF_vars(Step(t))

-----------------------------------------------------------------------------
(* Properties *)

\* The entries of the queue, in their order.
Contents == LiveFrom(oldest)

\* The queue implements a FIFO queue: a push puts its value at the end when its
\* exchange succeeds, a pop takes the first one out when it tags it, and nothing
\* else changes what is in the queue, however oldest, newest and the links move.
RefinesFifo ==
  INSTANCE Fifo WITH Values <- Entries, queue <- Contents, popped <- deleted

IsFifo == RefinesFifo!Spec

Idle == \A t \in Threads : pc[t] = "idle"

\* When no operation is running, newest is null if the queue is empty: is_empty
\* tells that an empty queue is empty.
EmptyIsEmpty == Idle /\ Contents = <<>> => newest = Null

\* When no operation is running, newest is null only if the queue is empty: is_empty
\* does not tell that a queue with entries is empty.
NonEmptyIsNonEmpty == Idle /\ newest = Null => Contents = <<>>

\* A push ends, if the threads that are popping go on.
PushEnds == \A t \in Threads : pc[t] = "cas" ~> pc[t] = "idle"
=============================================================================
