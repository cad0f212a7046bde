------------------------------- MODULE Bucket --------------------------------
(***************************************************************************)
(* The entries of a bucket: src/hash_table/bucket.rs.                      *)
(*                                                                         *)
(* A bucket has a block of slots and a list of linked blocks.  A block     *)
(* keeps a bitmap of the slots that are occupied; in an OPTIMISTIC bucket, *)
(* which is read without a lock, an entry is not taken out but marked in a *)
(* second bitmap, and stays until the bucket is dropped.  A CACHE bucket   *)
(* tracks the order in which the slots of its own block were used (module  *)
(* LruList) and evicts from it; linked blocks it only gets when another    *)
(* bucket is relocated into it.                                            *)
(*                                                                         *)
(* One thread at a time holds the lock of the bucket (module BucketLock)   *)
(* and works on it through a Locker and an EntryPtr; its stores are        *)
(* separate steps.  A reader of an OPTIMISTIC bucket searches it           *)
(* meanwhile; the two bitmaps are plain fields, so it may load them in     *)
(* either order.  Block 0 is the bucket itself, the others are linked      *)
(* buckets; as a link, 0 is null.  A key stands for its entry and for its  *)
(* partial hash.  A linked block that is unlinked is not used again while  *)
(* there is a reader (module Ebr).                                         *)
(*                                                                         *)
(* A definition X_Mistake before X is X with the mistake it names.         *)
(***************************************************************************)
EXTENDS Naturals, Integers, FiniteSets, FiniteSetsExt, SequencesExt

CONSTANTS
  Keys,
  None,          \* no key
  BucketLen,     \* BUCKET_LEN
  LinkedLen,     \* LINKED_BUCKET_LEN
  MaxLinks,      \* bound: linked blocks at a time
  Types,         \* the kinds of bucket in the model, ...
  KeysOf         \* ... and the keys each is used with

ASSUME BucketAssumption ==
  /\ None \notin Keys
  /\ BucketLen \in Nat \ {0} /\ LinkedLen \in 1 .. BucketLen /\ MaxLinks \in Nat
  /\ Types \subseteq {"SEQUENTIAL", "OPTIMISTIC", "CACHE"}
  /\ KeysOf \in [Types -> SUBSET Keys]

Blocks == 0 .. MaxLinks
Linked == 1 .. MaxLinks
LenOf(b) == IF b = 0 THEN BucketLen ELSE LinkedLen
SlotsOf(b) == 0 .. LenOf(b) - 1

L == INSTANCE LruList WITH Len0 <- BucketLen

VARIABLES
  type,      \* TYPE
  occ, rem,  \* occupied_bitmap, and removed_bitmap of an OPTIMISTIC bucket
  data,      \* the entry in each slot, None if it is not initialised
  link,      \* metadata.link of each block
  prev,      \* prev_link of each linked block
  num,       \* num_entries
  killed,    \* KILLED
  dropped,   \* whether the bucket array has been dropped
  lru,       \* lru_list and the tail kept in the place of removed_bitmap
  pc,        \* where the owner of the lock is
  op,        \* its operation, the key it is about, and (history) the keys that
             \* a walk has still to meet
  ptr,       \* its EntryPtr
  new,       \* the slot insert_with has chosen
  peek,      \* the reader
  live,      \* history: the keys the bucket holds
  recent     \* history: the tracked slots, least recently used first

blockVars == <<occ, rem, data, link, prev>>
history == <<live, recent>>
vars == <<type, occ, rem, data, link, prev, num, killed, dropped, lru, pc, op, ptr, new,
          peek, live, recent>>
-----------------------------------------------------------------------------
(* The blocks from the bucket on.                                          *)
Chain ==
  LET f[n \in 0 .. MaxLinks] ==
        IF n = 0 THEN <<0>>
        ELSE LET s == f[n - 1] IN
             IF link[Last(s)] = 0 THEN s ELSE Append(s, link[Last(s)])
  IN f[MaxLinks]

(* The entries of a block that are occupied and reachable.                 *)
Valid(b) == IF type = "OPTIMISTIC" THEN occ[b] \ rem[b] ELSE occ[b]
Matching(b, k) == {i \in Valid(b) : data[b][i] = k}

Invalid == [b |-> 0, i |-> BucketLen]
Fused == [b |-> 0, i |-> BucketLen + 1]    \* usize::MAX

(* The first block from the bucket on that is in a set.                    *)
First(bs) == Chain[Min({j \in DOMAIN Chain : Chain[j] \in bs})]

(* Bucket::get by the owner of the lock.                                   *)
Get(k) ==
  LET bs == {b \in ToSet(Chain) : Matching(b, k) # {}}
  IN IF num = 0 \/ bs = {} THEN Invalid
     ELSE [b |-> First(bs), i |-> Min(Matching(First(bs), k))]

Unused == Linked \ ToSet(Chain)
Room == Unused # {} \/ \E b \in ToSet(Chain) : SlotsOf(b) \ occ[b] # {}

NoOp == [name |-> "none", key |-> None, left |-> {}]
NoPeek == [pc |-> "idle", key |-> None, b |-> 0, occ |-> {}, rem |-> {},
           sure |-> FALSE]

Init ==
  /\ type \in Types
  /\ occ = [b \in Blocks |-> {}] /\ rem = [b \in Blocks |-> {}]
  /\ data = [b \in Blocks |-> [i \in SlotsOf(b) |-> None]]
  /\ link = [b \in Blocks |-> 0] /\ prev = [b \in Blocks |-> 0]
  /\ num = 0 /\ killed = FALSE /\ dropped = FALSE /\ lru = L!NoLru
  /\ pc = "unlocked" /\ op = NoOp
  /\ ptr = Invalid /\ new = Invalid
  /\ peek = NoPeek
  /\ live = {} /\ recent = <<>>
-----------------------------------------------------------------------------
(***************************************************************************)
(* The owner of the lock: an operation on a key.                           *)
(***************************************************************************)
Unlock == pc' = "unlocked" /\ op' = NoOp
          /\ ptr' = Invalid /\ new' = Invalid
Start(name, k, where) ==
  /\ pc = "unlocked" /\ ~killed /\ ~dropped
  /\ op' = [NoOp EXCEPT !.name = name, !.key = k] /\ pc' = where /\ ptr' = Get(k)
  /\ UNCHANGED <<type, dropped, blockVars, num, killed, lru, new, peek, history>>

(* insert_entry, VacantEntry::insert_entry, and insert_with of an entry    *)
(* that is relocated here.                                                 *)
StartInsert(k) == Room /\ Get(k) = Invalid /\ Start("insert", k, "write")

(* HashCache::put and VacantEntry::put_entry.                              *)
StartPut(k) == type = "CACHE" /\ Get(k) = Invalid /\ Start("put", k, "evict")

(* HashCache::get and entry of a key that is there.                        *)
StartGet(k) == type = "CACHE" /\ Get(k) # Invalid /\ Start("get", k, "promote")

(* remove_entry and OccupiedEntry::remove_entry.                           *)
StartRemove(k) == Get(k) # Invalid /\ Start("remove", k, "uncount")

(* OccupiedEntry::update of HashIndex.                                     *)
StartUpdate(k) ==
  type = "OPTIMISTIC" /\ Room /\ Get(k) # Invalid /\ Start("update", k, "write")

(* evict_lru_head.                                                         *)
EvictLruHead ==
  /\ pc = "evict"
  /\ IF occ[0] = SlotsOf(0)
     THEN LET e == IF lru.tail = 0 THEN 0 ELSE L!Lru(lru) IN
          /\ num' = num - 1
          /\ lru' = IF lru.tail = 0 THEN lru ELSE L!Evict(lru)
          /\ occ' = [occ EXCEPT ![0] = @ \ {e}]
          /\ data' = [data EXCEPT ![0][e] = None]
          /\ live' = live \ {data[0][e]}
          /\ recent' = IF recent = <<>> THEN recent ELSE Tail(recent)
     ELSE UNCHANGED <<num, lru, occ, data, live, recent>>
  /\ pc' = "write"
  /\ UNCHANGED <<type, dropped, rem, link, prev, killed, op, ptr, new, peek>>

(* insert_with: the slot is chosen, and the entry is written into it.  A   *)
(* new linked bucket goes to the head of the list; it is ready before it   *)
(* is linked.                                                              *)
Free(b) == SlotsOf(b) \ occ[b]
NewLink_NoBack(b) ==
  /\ new' = [b |-> b, i |-> 0]
  /\ data' = [data EXCEPT ![b] = [i \in SlotsOf(b) |-> IF i = 0 THEN op.key ELSE None]]
  /\ occ' = [occ EXCEPT ![b] = {0}]
  /\ rem' = [rem EXCEPT ![b] = {}]
  /\ link' = [link EXCEPT ![b] = link[0]]
  /\ prev' = [prev EXCEPT ![b] = 0]
NewLink(b) ==
  /\ new' = [b |-> b, i |-> 0]
  /\ data' = [data EXCEPT ![b] = [i \in SlotsOf(b) |-> IF i = 0 THEN op.key ELSE None]]
  /\ occ' = [occ EXCEPT ![b] = {0}]
  /\ rem' = [rem EXCEPT ![b] = {}]
  /\ link' = [link EXCEPT ![b] = link[0]]
  /\ prev' = IF link[0] = 0 THEN [prev EXCEPT ![b] = 0]
             ELSE [prev EXCEPT ![b] = 0, ![link[0]] = b]
InsertWrite ==
  /\ pc = "write"
  /\ LET bs == {b \in ToSet(Chain) : Free(b) # {}} IN
     IF bs = {}
     THEN \E b \in Unused : /\ \A c \in Unused : b <= c
                            /\ NewLink(b)
     ELSE LET s == [b |-> First(bs), i |-> Min(Free(First(bs)))] IN
          /\ new' = s
          /\ data' = [data EXCEPT ![s.b][s.i] = op.key]
          /\ UNCHANGED <<occ, rem, link, prev>>
  /\ pc' = "publish"
  /\ UNCHANGED <<type, dropped, num, killed, lru, op, ptr, peek, history>>

(* The occupied bit is set, or the linked bucket is linked.                *)
InsertPublish ==
  /\ pc = "publish"
  /\ IF new.i \in occ[new.b]
     THEN link' = [link EXCEPT ![0] = new.b] /\ UNCHANGED occ
     ELSE occ' = [occ EXCEPT ![new.b] = @ \cup {new.i}] /\ UNCHANGED link
  /\ pc' = "count"
  /\ UNCHANGED <<type, dropped, rem, data, prev, num, killed, lru, op, ptr, new, peek,
                 history>>

InsertCount ==
  /\ pc = "count"
  /\ num' = num + 1
  /\ live' = live \cup {op.key}
  /\ CASE op.name = "put" -> pc' = "promote" /\ ptr' = new /\ UNCHANGED <<op, new>>
       [] op.name = "update" -> pc' = "uncount" /\ UNCHANGED <<op, ptr, new>>
       [] op.name = "insert" -> Unlock
  /\ UNCHANGED <<type, dropped, blockVars, killed, lru, peek, recent>>

(* History: a sequence without one of its elements.                        *)
Without(s, e) ==
  LET at == Min({j \in DOMAIN s : s[j] = e})
  IN IF e \notin ToSet(s) THEN s
     ELSE [j \in 1 .. Len(s) - 1 |-> IF j < at THEN s[j] ELSE s[j + 1]]

(* update_lru_tail.                                                        *)
UpdateLruTail ==
  /\ pc = "promote"
  /\ IF ptr.b = 0
     THEN /\ lru' = L!Promote(lru, ptr.i)
          /\ recent' = Append(Without(recent, ptr.i), ptr.i)
     ELSE UNCHANGED <<lru, recent>>
  /\ Unlock
  /\ UNCHANGED <<type, dropped, blockVars, num, killed, peek, live>>

(* erase: the count goes down before the bitmaps change.  A reader that    *)
(* looks for the key may miss it from here on.                             *)
Unsure(k) == IF peek.key = k THEN [peek EXCEPT !.sure = FALSE] ELSE peek
EraseCount ==
  /\ pc = "uncount"
  /\ num' = num - 1
  /\ peek' = Unsure(op.key)
  /\ pc' = "erase"
  /\ UNCHANGED <<type, dropped, blockVars, killed, lru, op, ptr, new, history>>

Erase ==
  IF type = "OPTIMISTIC"
  THEN rem' = [rem EXCEPT ![ptr.b] = @ \cup {ptr.i}] /\ UNCHANGED <<occ, data, lru, recent>>
  ELSE /\ occ' = [occ EXCEPT ![ptr.b] = @ \ {ptr.i}]
       /\ data' = [data EXCEPT ![ptr.b][ptr.i] = None]
       /\ IF type = "CACHE" /\ ptr.b = 0
          THEN /\ lru' = L!Remove(lru, ptr.i)
               /\ recent' = Without(recent, ptr.i)
          ELSE UNCHANGED <<lru, recent>>
       /\ UNCHANGED rem
EraseEntry ==
  /\ pc = "erase"
  /\ Erase
  /\ live' = IF op.name = "update" THEN live ELSE live \ {op.key}
  /\ IF op.name \in {"retain", "relocate"}
     THEN pc' = "walk" /\ UNCHANGED <<op, ptr, new>>
     ELSE Unlock
  /\ UNCHANGED <<type, dropped, link, prev, num, killed, peek>>
-----------------------------------------------------------------------------
(***************************************************************************)
(* The owner of the lock: a walk over the entries.  retain_entries erases  *)
(* some, prune_entries hands each one to a predicate, relocate_bucket      *)
(* moves them to another bucket and kills this one.                        *)
(***************************************************************************)
StartWalk(name) ==
  /\ pc = "unlocked" /\ ~killed /\ ~dropped
  /\ name = "prune" => type = "SEQUENTIAL"
  /\ op' = [NoOp EXCEPT !.name = name, !.left = live]
  /\ ptr' = Invalid
  /\ pc' = IF name = "relocate" /\ num = 0 THEN "kill" ELSE "walk"
  /\ UNCHANGED <<type, dropped, blockVars, num, killed, lru, new, peek, history>>

(* EntryPtr::next, a block at a time.                                      *)
NextIn(b, i) == {j \in Valid(b) : j >= (IF i = LenOf(b) THEN 0 ELSE i + 1)}
WalkNext ==
  /\ pc = "walk" /\ ptr # Fused
  /\ LET js == NextIn(ptr.b, ptr.i) IN
     IF js # {}
     THEN /\ ptr' = [ptr EXCEPT !.i = Min(js)]
          /\ op' = [op EXCEPT !.key = data[ptr.b][Min(js)], !.left = @ \ {data[ptr.b][Min(js)]}]
          /\ pc' = "at"
     ELSE /\ ptr' = IF link[ptr.b] = 0 THEN Fused ELSE [b |-> link[ptr.b], i |-> LinkedLen]
          /\ UNCHANGED <<op, pc>>
  /\ UNCHANGED <<type, dropped, blockVars, num, killed, lru, new, peek, history>>

(* The predicate of retain_entries: the entry is kept or erased.           *)
Retain ==
  /\ pc = "at" /\ op.name = "retain"
  /\ pc' \in {"walk", "uncount"}
  /\ UNCHANGED <<type, dropped, blockVars, num, killed, lru, op, ptr, new, peek, history>>

(* keep_or_consume: the entry is taken out first; it is consumed if the    *)
(* predicate returns nothing or panics, and a panic ends the walk.         *)
KeepOrConsume(outcome) ==
  /\ pc = "at" /\ op.name = "prune"
  /\ IF outcome = "keep"
     THEN UNCHANGED <<occ, data, num, live>>
     ELSE /\ num' = num - 1
          /\ occ' = [occ EXCEPT ![ptr.b] = @ \ {ptr.i}]
          /\ data' = [data EXCEPT ![ptr.b][ptr.i] = None]
          /\ live' = live \ {op.key}
  /\ IF outcome = "panic" THEN Unlock ELSE pc' = "walk" /\ UNCHANGED <<op, ptr, new>>
  /\ UNCHANGED <<type, dropped, rem, link, prev, killed, lru, peek, recent>>

(* EntryPtr::unlink of an empty linked bucket; its successor is next.      *)
Unlink_Stay(b) ==
  /\ link' = [link EXCEPT ![prev[b]] = link[b], ![b] = 0]
  /\ prev' = IF link[b] = 0 THEN prev ELSE [prev EXCEPT ![link[b]] = prev[b]]
  /\ ptr' = IF link[b] = 0 THEN Fused ELSE [b |-> link[b], i |-> 0]
Unlink(b) ==
  /\ link' = [link EXCEPT ![prev[b]] = link[b], ![b] = 0]
  /\ prev' = IF link[b] = 0 THEN prev ELSE [prev EXCEPT ![link[b]] = prev[b]]
  /\ ptr' = IF link[b] = 0 THEN Fused ELSE [b |-> link[b], i |-> LinkedLen]

(* relocate_bucket with the target locked: the entry is extracted, or a    *)
(* clone of it is inserted there and it is erased here.  A relocation that *)
(* cannot lock a target has not moved anything: buckets that are merged    *)
(* have one target, and the targets of one that is divided can only be     *)
(* entered by others after it has been killed (module HashTable).          *)
Relocate ==
  /\ pc = "at" /\ op.name = "relocate"
  /\ IF type = "OPTIMISTIC"
     THEN pc' = "uncount" /\ UNCHANGED <<blockVars, num, ptr, live>>
     ELSE /\ num' = num - 1
          /\ occ' = [occ EXCEPT ![ptr.b] = @ \ {ptr.i}]
          /\ data' = [data EXCEPT ![ptr.b][ptr.i] = None]
          /\ live' = live \ {op.key}
          /\ IF ptr.b # 0 /\ occ[ptr.b] = {ptr.i}
             THEN Unlink(ptr.b)
             ELSE UNCHANGED <<link, prev, ptr>>
          /\ pc' = "walk"
          /\ UNCHANGED rem
  /\ UNCHANGED <<type, dropped, killed, lru, op, new, peek, recent>>

WalkEnds ==
  /\ pc = "walk" /\ ptr = Fused
  /\ IF op.name = "relocate" THEN pc' = "kill" /\ UNCHANGED <<op, ptr, new>> ELSE Unlock
  /\ UNCHANGED <<type, dropped, blockVars, num, killed, lru, peek, history>>

Kill ==
  /\ pc = "kill"
  /\ rem' = IF type = "OPTIMISTIC" THEN [rem EXCEPT ![0] = occ[0]] ELSE rem
  /\ killed' = TRUE /\ num' = 0
  /\ pc' = "clear"
  /\ UNCHANGED <<type, dropped, occ, data, link, prev, lru, op, ptr, new, peek, history>>

(* clear_links; a linked bucket drops its entries when it is dropped, which *)
(* waits for the readers of an OPTIMISTIC bucket.                          *)
Dropped(bs) ==
  /\ occ' = [b \in Blocks |-> IF b \in bs THEN {} ELSE occ[b]]
  /\ data' = [b \in Blocks |-> [i \in SlotsOf(b) |->
                IF b \in bs /\ i \in occ[b] THEN None ELSE data[b][i]]]
ReleasedLater_No == FALSE
ReleasedLater == type = "OPTIMISTIC"
ClearLinks ==
  /\ pc = "clear"
  /\ link' = [b \in Blocks |-> 0]
  /\ IF ReleasedLater THEN UNCHANGED <<occ, data>> ELSE Dropped(ToSet(Chain) \ {0})
  /\ Unlock
  /\ UNCHANGED <<type, dropped, rem, prev, num, killed, lru, peek, history>>

DropLink(b) ==
  /\ ReleasedLater /\ killed /\ pc = "unlocked" /\ peek.pc = "idle" /\ occ[b] # {}
  /\ Dropped({b})
  /\ UNCHANGED <<type, dropped, rem, link, prev, num, killed, lru, pc, op, ptr, new, peek,
                 history>>

(* drop_entries, by BucketArray::drop: nobody else has the bucket.         *)
DropEntries ==
  /\ pc = "unlocked" /\ peek.pc = "idle" /\ ~dropped
  /\ dropped' = TRUE
  /\ link' = [b \in Blocks |-> 0]
  /\ Dropped(Blocks)
  /\ live' = {}
  /\ UNCHANGED <<type, rem, prev, num, killed, lru, pc, op, ptr, new, peek, recent>>
-----------------------------------------------------------------------------
(***************************************************************************)
(* A reader of an OPTIMISTIC bucket: search and search_entry.              *)
(***************************************************************************)
readerUnchanged ==
  UNCHANGED <<type, dropped, blockVars, num, killed, lru, pc, op, ptr, new, history>>

(* A key that another thread is about to erase is not looked for surely.   *)
Search(k) ==
  /\ type = "OPTIMISTIC" /\ peek.pc = "idle" /\ ~dropped
  /\ peek' = [NoPeek EXCEPT !.pc = "num", !.key = k,
                !.sure = k \in live /\ ~(pc = "erase" /\ op.key = k)]
  /\ readerUnchanged
SearchNum ==
  /\ peek.pc = "num"
  /\ peek' = [peek EXCEPT !.pc = IF num = 0 THEN "none" ELSE "bitmaps"]
  /\ readerUnchanged
SearchOcc ==
  /\ peek.pc \in {"bitmaps", "occ"}
  /\ peek' = [peek EXCEPT !.occ = occ[peek.b],
                          !.pc = IF peek.pc = "occ" THEN "match" ELSE "rem"]
  /\ readerUnchanged
SearchRem ==
  /\ peek.pc \in {"bitmaps", "rem"}
  /\ peek' = [peek EXCEPT !.rem = rem[peek.b],
                          !.pc = IF peek.pc = "rem" THEN "match" ELSE "occ"]
  /\ readerUnchanged
SearchMatch ==
  /\ peek.pc = "match"
  /\ peek' = [peek EXCEPT !.pc = IF \E i \in peek.occ \ peek.rem : data[peek.b][i] = peek.key
                                 THEN "found" ELSE "link"]
  /\ readerUnchanged
SearchLink ==
  /\ peek.pc = "link"
  /\ peek' = [peek EXCEPT !.pc = IF link[peek.b] = 0 THEN "none" ELSE "bitmaps",
                          !.b = link[peek.b]]
  /\ readerUnchanged
SearchEnds ==
  /\ peek.pc \in {"none", "found"}
  /\ peek' = NoPeek
  /\ readerUnchanged
-----------------------------------------------------------------------------
Next ==
  \/ \E k \in KeysOf[type] : \/ StartInsert(k) \/ StartPut(k) \/ StartGet(k)
                     \/ StartRemove(k) \/ StartUpdate(k) \/ Search(k)
  \/ EvictLruHead \/ InsertWrite \/ InsertPublish \/ InsertCount
  \/ UpdateLruTail \/ EraseCount \/ EraseEntry
  \/ \E name \in {"retain", "prune", "relocate"} : StartWalk(name)
  \/ WalkNext \/ Retain \/ Relocate \/ WalkEnds
  \/ \E outcome \in {"keep", "consume", "panic"} : KeepOrConsume(outcome)
  \/ Kill \/ ClearLinks \/ DropEntries
  \/ \E b \in Linked : DropLink(b)
  \/ SearchNum \/ SearchOcc \/ SearchRem \/ SearchMatch \/ SearchLink \/ SearchEnds

Spec == Init /\ [][Next]_vars
-----------------------------------------------------------------------------
(***************************************************************************)
(* When no thread holds the lock, the valid slots of the blocks that can   *)
(* be reached hold every live key exactly once and num_entries counts      *)
(* them; the back links of the linked blocks mirror the links; and a slot  *)
(* is occupied exactly if it holds an entry, in every block, so that each  *)
(* entry is dropped or taken out once: none is left in a block that was    *)
(* unlinked or in a bucket that was dropped (insert_with, erase,           *)
(* keep_or_consume, extract, unlink, kill, drop_entries).                  *)
(***************************************************************************)
EntriesExact ==
  LET Filled == {e \in Blocks \X SlotsOf(0) : e[1] \in ToSet(Chain) /\ e[2] \in Valid(e[1])}
  IN
  pc = "unlocked" =>
    /\ num = Cardinality(Filled) \/ dropped
    /\ \A k \in Keys :
         Cardinality({e \in Filled : data[e[1]][e[2]] = k}) = IF k \in live THEN 1 ELSE 0
    /\ \A j \in 2 .. Len(Chain) : prev[Chain[j]] = Chain[j - 1]
    /\ \A b \in Blocks : occ[b] = {i \in SlotsOf(b) : data[b][i] # None}
    /\ \A b \in Unused : type # "OPTIMISTIC" => occ[b] = {}

(***************************************************************************)
(* The list of a CACHE bucket always is the order of use: evict, remove    *)
(* and promote keep the tracked slots, and only those, in the order in     *)
(* which they were last used, and tracked slots are occupied.  A slot that *)
(* is taken for absent, or for present, because its pair is <<0, 0>>       *)
(* breaks the ring.                                                        *)
(***************************************************************************)
LruIsRecency ==
  /\ lru = L!Ring(recent)
  /\ pc = "unlocked" /\ ~dropped /\ ~killed => ToSet(recent) \subseteq occ[0]

(***************************************************************************)
(* A walk over the entries (retain_entries, prune_entries,                 *)
(* relocate_bucket) that comes to its end has met every entry that was     *)
(* there, although it erases entries and unlinks the linked buckets under  *)
(* the EntryPtr; so a bucket is killed only after all of its entries have  *)
(* been relocated.                                                         *)
(***************************************************************************)
WalkMeetsAll ==
  /\ pc = "walk" /\ ptr = Fused => op.left = {}
  /\ pc = "kill" => live = {}

(***************************************************************************)
(* A lock-free search (Bucket::search) only compares entries that are      *)
(* initialised, and it comes back with nothing only if the key was absent  *)
(* when it started or has since been removed, updated or relocated: the    *)
(* entries around it may come and go.                                      *)
(***************************************************************************)
PeekFindsUntouched ==
  /\ peek.pc = "match" => \A i \in peek.occ \ peek.rem : data[peek.b][i] # None
  /\ peek.pc = "none" => ~peek.sure
=============================================================================
