----------------------------- MODULE LinkedList ------------------------------
(***************************************************************************)
(* The lock-free singly linked list under Queue, Stack and Bag:            *)
(* src/linked_list.rs, over the AtomicShared, Shared and Ptr of src/ebr.   *)
(*                                                                         *)
(* An entry is deleted by a tag on its own link, and unlinked later by     *)
(* whoever walks over it: next_ptr claims a run of deleted entries with    *)
(* Tag::Both, moves its own link past them, and makes every entry of the   *)
(* run point past the run.  A walk that loses the race for its own link    *)
(* gives the run back with Tag::Second.                                    *)
(*                                                                         *)
(* A thread holds a Guard from Enter to Leave and uses the list from Head: *)
(* it may move on with next_ptr, delete, mark or unmark the entry it is    *)
(* at, or push a new entry behind it.  An entry without owners belongs to  *)
(* the collector, which drops it once every Guard that was there when the  *)
(* last owner went is gone (module Ebr).  Entries are numbered in the      *)
(* order of their allocation and are not used again.                       *)
(*                                                                         *)
(* A definition X_Mistake before X is X with the mistake it names.         *)
(***************************************************************************)
EXTENDS Naturals, FiniteSets

CONSTANTS
  Threads,
  Initial,      \* entries in the list at first, the head included
  MaxEntries,   \* bound: entries allocated in a behaviour
  Uses,         \* what each thread does besides walking
  Markable,     \* the entries that are marked and unmarked
  Marks         \* the values of mark that push_back is given

ASSUME ListAssumption ==
  /\ IsFiniteSet(Threads)
  /\ Initial \in 1 .. MaxEntries /\ MaxEntries \in Nat
  /\ Uses \in [Threads -> SUBSET {"push", "delete", "mark"}]
  /\ Markable \subseteq 1 .. MaxEntries /\ Marks \subseteq BOOLEAN

Null == 0
Head == 1
Entries == 1 .. MaxEntries
Tags == {"None", "First", "Second", "Both"}
Links == [to : Entries \cup {Null}, tag : Tags]
NoLink == [to |-> Null, tag |-> "None"]

INSTANCE RefCount

VARIABLES
  link,    \* the link of each entry: AtomicShared, a pointer and its tag
  cnt,     \* the reference count of each entry
  alloc,   \* how many entries have been allocated
  pins,    \* the threads whose Guard keeps the collector off an entry
  freed,   \* the entries that have been dropped
  pc,      \* where a thread is
  cur,     \* self: the entry it works on
  seen,    \* current_state, or the link push_back has loaded
  ptr,     \* entry_ptr, next_valid_ptr in the end
  state,   \* entry_state
  first,   \* cleanup_target_range.0
  last,    \* cleanup_target_range.1
  ended,   \* cleanup_range_ended
  own,     \* the entries it holds a Shared of
  mark,    \* the mark push_back has been given
  behind   \* history: the entries that were in the list behind cur when the
           \* thread loaded its link, and have not been deleted since

local == <<seen, ptr, state, first, last, ended>>
vars == <<link, cnt, alloc, pins, freed, pc, cur, seen, ptr, state, first,
          last, ended, own, mark, behind>>

Deleted(e) == link[e].tag \in {"Second", "Both"}

Goto(t, l) == pc' = [pc EXCEPT ![t] = l]

\* The entries behind e, deleted or not.
Behind(e) ==
  LET R[n \in 0 .. MaxEntries] ==
        IF n = 0 THEN {link[e].to}
        ELSE R[n - 1] \cup {link[x].to : x \in R[n - 1] \ {Null}}
  IN R[MaxEntries] \ {Null}

From(e) == IF e = Null THEN {} ELSE {e} \cup Behind(e)

Live(S) == {e \in S : ~Deleted(e)}

Guarded == {t \in Threads : pc[t] # "idle"}

\* A step sets the counts to d; what loses its last owner goes to the collector,
\* and the Guards of this moment keep it from being dropped.
Count(d) ==
  /\ cnt' = d
  /\ pins' = [e \in Entries |->
                IF e \in Released(cnt, d) THEN Guarded ELSE pins[e]]

Forget(t) ==
  /\ seen' = [seen EXCEPT ![t] = NoLink]
  /\ ptr' = [ptr EXCEPT ![t] = NoLink]
  /\ state' = [state EXCEPT ![t] = NoLink]
  /\ first' = [first EXCEPT ![t] = Null]
  /\ last' = [last EXCEPT ![t] = Null]
  /\ ended' = [ended EXCEPT ![t] = FALSE]

Init ==
  /\ link = [e \in Entries |->
               [to |-> IF e < Initial THEN e + 1 ELSE Null, tag |-> "None"]]
  /\ cnt = [e \in Entries |-> IF e <= Initial THEN NewShared ELSE 0]
  /\ alloc = Initial
  /\ pins = [e \in Entries |-> {}]
  /\ freed = {}
  /\ pc = [t \in Threads |-> "idle"]
  /\ cur = [t \in Threads |-> Null]
  /\ seen = [t \in Threads |-> NoLink]
  /\ ptr = [t \in Threads |-> NoLink]
  /\ state = [t \in Threads |-> NoLink]
  /\ first = [t \in Threads |-> Null]
  /\ last = [t \in Threads |-> Null]
  /\ ended = [t \in Threads |-> FALSE]
  /\ own = [t \in Threads |-> {}]
  /\ mark = [t \in Threads |-> FALSE]
  /\ behind = [t \in Threads |-> {}]

-----------------------------------------------------------------------------
(* A thread's use of the list *)

Enter(t) ==
  /\ pc[t] = "idle"
  /\ cur' = [cur EXCEPT ![t] = Head]
  /\ Goto(t, "at")
  /\ UNCHANGED <<link, cnt, alloc, pins, freed, local, own, mark, behind>>

Leave(t) ==
  /\ pc[t] = "at"
  /\ pins' = [e \in Entries |-> pins[e] \ {t}]
  /\ cur' = [cur EXCEPT ![t] = Null]
  /\ Goto(t, "idle")
  /\ UNCHANGED <<link, cnt, alloc, freed, local, own, mark, behind>>

\* update_tag_if: one of mark, unmark and delete_self on the entry at hand.
SetTag(t, from, to) ==
  /\ pc[t] = "at" /\ link[cur[t]].tag \in from
  /\ link' = [link EXCEPT ![cur[t]].tag = to]
  /\ UNCHANGED <<cnt, alloc, pins, freed, pc, cur, local, own, mark>>

Mark(t) ==
  /\ "mark" \in Uses[t] /\ cur[t] \in Markable
  /\ SetTag(t, {"None"}, "First") /\ UNCHANGED behind

Unmark(t) ==
  /\ "mark" \in Uses[t] /\ cur[t] \in Markable
  /\ SetTag(t, {"First"}, "None") /\ UNCHANGED behind

DeleteSelf(t) ==
  /\ "delete" \in Uses[t] /\ cur[t] # Head /\ SetTag(t, {"None", "First"}, "Second")
  /\ behind' = [u \in Threads |-> behind[u] \ {cur[t]}]

-----------------------------------------------------------------------------
(* push_back *)

Push(t) ==
  /\ pc[t] = "at" /\ "push" \in Uses[t] /\ alloc < MaxEntries
  /\ alloc' = alloc + 1
  /\ Count([cnt EXCEPT ![alloc'] = NewShared])
  /\ own' = [own EXCEPT ![t] = @ \cup {alloc'}]
  /\ \E m \in Marks : mark' = [mark EXCEPT ![t] = m]
  /\ seen' = [seen EXCEPT ![t] = link[cur[t]]]
  /\ Goto(t, "push")
  /\ UNCHANGED <<link, freed, cur, ptr, state, first, last, ended, behind>>

New(t) == CHOOSE e \in own[t] : TRUE

\* The new entry takes a reference to the next one, or none if it has died.
PushLink(t) ==
  LET n == New(t)
      next == IF Alive(cnt, seen[t].to) THEN seen[t].to ELSE Null
  IN
  /\ pc[t] = "push" /\ seen[t].tag \notin {"Second", "Both"}
  /\ link' = [link EXCEPT ![n] = [to |-> next, tag |-> "None"]]
  /\ Count(DropRef(TryAddRef(cnt, seen[t].to), link[n].to))
  /\ Goto(t, "push_cas")
  /\ UNCHANGED <<alloc, freed, cur, local, own, mark, behind>>

\* The exchange gives the old owner of the next entry up, and the new entry
\* from the thread to the list.
PushCas(t) ==
  LET e == cur[t] IN
  /\ pc[t] = "push_cas"
  /\ IF link[e] = seen[t]
       THEN /\ link' = [link EXCEPT ![e] =
                          [to |-> New(t),
                           tag |-> IF mark[t] THEN "First" ELSE "None"]]
            /\ Count(DropRef(cnt, seen[t].to))
            /\ own' = [own EXCEPT ![t] = {}]
            /\ mark' = [mark EXCEPT ![t] = FALSE]
            /\ Forget(t) /\ Goto(t, "at")
       ELSE /\ seen' = [seen EXCEPT ![t] = link[e]]
            /\ Goto(t, "push")
            /\ UNCHANGED <<link, cnt, pins, own, mark, ptr, state, first, last,
                           ended>>
  /\ UNCHANGED <<alloc, freed, cur, behind>>

\* The entry at hand has been deleted: the new entry is handed back and dropped.
PushFail(t) ==
  /\ pc[t] = "push" /\ seen[t].tag \in {"Second", "Both"}
  /\ Count(DropRef(cnt, New(t)))
  /\ own' = [own EXCEPT ![t] = {}]
  /\ mark' = [mark EXCEPT ![t] = FALSE]
  /\ Forget(t) /\ Goto(t, "at")
  /\ UNCHANGED <<link, alloc, freed, cur, behind>>

-----------------------------------------------------------------------------
(* next_ptr *)

Load(t, e) ==
  /\ cur' = [cur EXCEPT ![t] = e]
  /\ seen' = [seen EXCEPT ![t] = link[e]]
  /\ ptr' = [ptr EXCEPT ![t] = link[e]]
  /\ ended' = [ended EXCEPT ![t] = link[e].tag = "Both"]
  /\ behind' = [behind EXCEPT ![t] = Live(Behind(e))]
  /\ Goto(t, "walk")
  /\ UNCHANGED <<link, cnt, alloc, pins, state, first, last, own, mark>>

NextPtr(t) == pc[t] = "at" /\ Load(t, cur[t]) /\ UNCHANGED freed

\* The walk has come to an entry that is not deleted, or to the end.
WalkEnds(t) ==
  /\ pc[t] = "walk" /\ (ptr[t].to # Null => ~Deleted(ptr[t].to))
  /\ Goto(t, IF seen[t].tag # "Both" /\ seen[t] # ptr[t] THEN "take" ELSE "done")
  /\ UNCHANGED <<link, cnt, alloc, pins, freed, cur, local, own, mark, behind>>

\* A deleted entry: claim it if the run has not ended, or go on.
Walk(t) ==
  LET e == ptr[t].to IN
  /\ pc[t] = "walk" /\ e # Null /\ Deleted(e)
  /\ IF link[e].tag = "Second" /\ ~ended[t]
       THEN /\ state' = [state EXCEPT ![t] = link[e]]
            /\ Goto(t, "claim")
            /\ UNCHANGED <<ptr, ended>>
       ELSE /\ ptr' = [ptr EXCEPT ![t] = link[e]]
            /\ ended' = [ended EXCEPT ![t] = TRUE]
            /\ UNCHANGED <<pc, state>>
  /\ UNCHANGED <<link, cnt, alloc, pins, freed, cur, seen, first, last, own, mark,
                 behind>>

Claim(t) ==
  LET e == ptr[t].to IN
  /\ pc[t] = "claim"
  /\ IF link[e] = state[t]
       THEN /\ link' = [link EXCEPT ![e].tag = "Both"]
            /\ first' = [first EXCEPT ![t] = IF @ = Null THEN e ELSE @]
            /\ last' = [last EXCEPT ![t] = e]
            /\ UNCHANGED ended
       ELSE /\ ended' = [ended EXCEPT ![t] = TRUE]
            /\ UNCHANGED <<link, first, last>>
  /\ ptr' = [ptr EXCEPT ![t] = state[t]]
  /\ state' = [state EXCEPT ![t] = NoLink]
  /\ Goto(t, "walk")
  /\ UNCHANGED <<cnt, alloc, pins, freed, cur, seen, own, mark, behind>>

\* next_valid_entry: a reference to the entry found, unless it has died.
Take(t) ==
  LET v == ptr[t].to IN
  /\ pc[t] = "take"
  /\ Count(TryAddRef(cnt, v))
  /\ own' = [own EXCEPT ![t] = IF Alive(cnt, v) THEN {v} ELSE {}]
  /\ Goto(t, IF v # Null /\ ~Alive(cnt, v) THEN "restore" ELSE "cas")
  /\ UNCHANGED <<link, alloc, freed, cur, local, mark, behind>>

Unlink_Blind(t) ==
  LET e == cur[t] IN
  /\ pc[t] = "cas"
  /\ link' = [link EXCEPT ![e] = [to |-> ptr[t].to, tag |-> seen[t].tag]]
  /\ Count(AddRef(cnt, ptr[t].to))
  /\ own' = [own EXCEPT ![t] = @ \cup {seen[t].to}]
  /\ Goto(t, "release")
  /\ UNCHANGED <<alloc, freed, cur, local, mark, behind>>

\* Move the own link past the deleted entries; the tag stays.
Unlink(t) ==
  LET e == cur[t] IN
  /\ pc[t] = "cas"
  /\ IF link[e] = seen[t]
       THEN /\ link' = [link EXCEPT ![e] =
                          [to |-> ptr[t].to, tag |-> seen[t].tag]]
            /\ Count(AddRef(cnt, ptr[t].to))
            /\ own' = [own EXCEPT ![t] = @ \cup {seen[t].to}]
            /\ Goto(t, "release")
       ELSE Goto(t, "restore") /\ UNCHANGED <<link, cnt, pins, own>>
  /\ UNCHANGED <<alloc, freed, cur, local, mark, behind>>

\* Give the references up that the last exchange or swap has returned.
Release(t) ==
  LET old == own[t] \ {ptr[t].to}
      d == IF old = {} THEN cnt ELSE DropRef(cnt, CHOOSE e \in old : TRUE)
  IN
  /\ pc[t] = "release"
  /\ Count(d)
  /\ own' = [own EXCEPT ![t] = @ \ old]
  /\ Goto(t, IF first[t] = Null THEN "done" ELSE "swap")
  /\ UNCHANGED <<link, alloc, freed, cur, local, mark, behind>>

Swap_Cut(t) ==
  LET e == first[t]
      old == link[e].to
  IN
  /\ pc[t] = "swap"
  /\ link' = [link EXCEPT ![e] = [to |-> Null, tag |-> "Second"]]
  /\ own' = [own EXCEPT ![t] = @ \cup ({old} \ {Null})]
  /\ first' = [first EXCEPT ![t] = IF e = last[t] THEN Null ELSE old]
  /\ Goto(t, "release")
  /\ UNCHANGED <<cnt, pins, alloc, freed, cur, seen, ptr, state, last, ended,
                 mark, behind>>

\* Make the first entry of the run point past it.
Swap(t) ==
  LET e == first[t]
      old == link[e].to
  IN
  /\ pc[t] = "swap"
  /\ link' = [link EXCEPT ![e] = [to |-> ptr[t].to, tag |-> "Second"]]
  /\ IF old = ptr[t].to
       THEN UNCHANGED <<cnt, pins, own>>   \* a clone taken, a Shared dropped
       ELSE /\ Count(AddRef(cnt, ptr[t].to))
            /\ own' = [own EXCEPT ![t] = @ \cup ({old} \ {Null})]
  /\ first' = [first EXCEPT ![t] = IF e = last[t] THEN Null ELSE old]
  /\ Goto(t, "release")
  /\ UNCHANGED <<alloc, freed, cur, seen, ptr, state, last, ended, mark, behind>>

Restore_Skip(t) ==
  /\ pc[t] = "restore"
  /\ first' = [first EXCEPT ![t] = Null] /\ Goto(t, "done")
  /\ UNCHANGED <<link, cnt, alloc, pins, freed, cur, seen, ptr, state, last,
                 ended, own, mark, behind>>

\* The own link has changed: give the run back, an entry at a time.
Restore(t) ==
  LET e == first[t] IN
  /\ pc[t] = "restore"
  /\ IF e = Null
       THEN Goto(t, "done") /\ UNCHANGED <<link, first>>
       ELSE /\ link' = [link EXCEPT ![e].tag = "Second"]
            /\ first' = [first EXCEPT ![t] =
                           IF e = last[t] THEN Null ELSE link[e].to]
            /\ UNCHANGED pc
  /\ UNCHANGED <<cnt, alloc, pins, freed, cur, seen, ptr, state, last, ended, own,
                 mark, behind>>

\* next_ptr returns, and drops its reference to the entry it returns.
Return(t) ==
  LET v == ptr[t].to
      drop == cur[t] \in freed
      c == IF v \in own[t] THEN DropRef(cnt, v) ELSE cnt
  IN
  /\ pc[t] = "done"
  /\ own' = [own EXCEPT ![t] = {}]
  /\ behind' = [behind EXCEPT ![t] = {}]
  /\ Forget(t)
  /\ IF drop THEN Goto(t, "drop") ELSE Goto(t, "at")
  /\ cur' = [cur EXCEPT ![t] = IF drop \/ v = Null THEN @ ELSE v]
  /\ Count(c)
  /\ UNCHANGED <<link, alloc, freed, mark>>

-----------------------------------------------------------------------------
(* The collector *)

\* Entry::drop: under a new Guard, next_ptr unlinks what is deleted behind it...
Collect(t) ==
  \E e \in Entries :
    /\ pc[t] = "idle" /\ e <= alloc /\ cnt[e] = 0 /\ pins[e] = {} /\ e \notin freed
    /\ freed' = freed \cup {e}
    /\ IF link[e].to # Null
         THEN Load(t, e)
         ELSE UNCHANGED <<link, cnt, alloc, pins, pc, cur, local, own, mark,
                          behind>>

\* ... and the link is dropped with the entry.
DropLink(t) ==
  LET e == cur[t] IN
  /\ pc[t] = "drop"
  /\ cnt' = DropRef(cnt, link[e].to)
  /\ pins' = [x \in Entries |->
                (IF x \in Released(cnt, cnt') THEN Guarded ELSE pins[x]) \ {t}]
  /\ link' = [link EXCEPT ![e] = [to |-> Null, tag |-> "Second"]]
  /\ cur' = [cur EXCEPT ![t] = Null]
  /\ Goto(t, "idle")
  /\ UNCHANGED <<alloc, freed, local, own, mark, behind>>

Next ==
  \E t \in Threads :
    \/ Enter(t) \/ Leave(t)
    \/ Mark(t) \/ Unmark(t) \/ DeleteSelf(t)
    \/ Push(t) \/ PushLink(t) \/ PushCas(t) \/ PushFail(t)
    \/ NextPtr(t) \/ WalkEnds(t) \/ Walk(t) \/ Claim(t) \/ Take(t)
    \/ Unlink(t) \/ Release(t) \/ Swap(t) \/ Restore(t) \/ Return(t)
    \/ Collect(t) \/ DropLink(t)

Spec == Init /\ [][Next]_vars

-----------------------------------------------------------------------------
(* Properties *)

\* Unlinking never takes an entry out of the list that has not been deleted: all
\* entries that were pushed and not deleted can be reached from the head, whatever
\* walks move links at the same time (next_ptr, push_back).
LiveIsReachable ==
  LET unlinked == UNION {own[t] : t \in {u \in Threads :
                                 pc[u] \in {"push", "push_cas"}}}
      failed == {e \in Entries : cnt[e] = 0}
  IN \A e \in (1 .. alloc) \ (unlinked \cup failed) :
       Deleted(e) \/ e \in From(Head)

\* next_ptr skips nothing: what was in the list behind an entry when its link was
\* loaded, and has not been deleted since, is still ahead of the walk.
WalkSkipsNothing ==
  \A t \in Threads :
    pc[t] \notin {"idle", "at", "drop"} => behind[t] \subseteq From(ptr[t].to)

Owners(e) ==
  Cardinality({x \in (1 .. alloc) : link[x].to = e})
    + Cardinality({t \in Threads : e \in own[t]}) + (IF e = Head THEN 1 ELSE 0)

\* The reference count of an entry agrees with its owners, the links and the
\* Shared handles, after every exchange, swap, clone and release: nothing is leaked
\* and no entry goes to the collector while it is owned.
CountsExact ==
  \A e \in 1 .. alloc :
    cnt[e] = IF Owners(e) = 0 THEN 0 ELSE 2 * Owners(e) - 1

\* No thread has a pointer in its hands to an entry the collector has dropped,
\* but for the entry whose drop it runs (Ptr::as_ref under a Guard).
HeldIsAllocated ==
  \A t \in Threads :
    ({cur[t], seen[t].to, ptr[t].to, state[t].to, first[t], last[t]} \cup own[t])
      \cap freed \subseteq {cur[t]}
    /\ (cur[t] \in freed => pc[t] \notin {"at", "push", "push_cas"})

\* Claimed entries have one claimant: a tag Both belongs to the run of exactly one
\* walk, which finds it there when it cleans the run up or gives it back (the
\* debug assertions of next_ptr).
Run(t) ==
  LET R[n \in 0 .. MaxEntries] ==
        IF n = 0 THEN {first[t]}
        ELSE R[n - 1] \cup {link[x].to : x \in R[n - 1] \ {Null, last[t]}}
  IN IF first[t] = Null THEN {} ELSE R[MaxEntries]

ClaimsAreOwned ==
  /\ \A e \in Entries :
       link[e].tag = "Both" <=> Cardinality({t \in Threads : e \in Run(t)}) = 1
  /\ \A t, u \in Threads : t # u => Run(t) \cap Run(u) = {}
=============================================================================
