-------------------------------- MODULE Ebr --------------------------------
(***************************************************************************)
(* Epoch-based reclamation: src/ebr/collector.rs and src/ebr/guard.rs.     *)
(*                                                                         *)
(* Every thread has a Collector; all of them are linked at GLOBAL_ANCHOR.  *)
(* A Guard announces the global epoch in its thread's collector, retired   *)
(* instances go to the collector's current list, and every new epoch the   *)
(* collector announces moves its lists on: current, previous, next, freed. *)
(* The epoch (0, 1 or 2) moves when a thread that ends its last Guard has  *)
(* gone through all collectors and found none in another epoch.            *)
(*                                                                         *)
(* A collector is modelled from its allocation to its end; a thread that   *)
(* suspends itself goes on with a new collector, here another member of    *)
(* Collectors.  Guards of one thread nest, which only makes them last      *)
(* longer, so a collector has at most one.  The countdown                  *)
(* next_epoch_update is abstracted: the end of a Guard may or may not be   *)
(* due for a scan.  Memory is sequentially consistent.                     *)
(*                                                                         *)
(* A definition X_Mistake before X is X with the mistake it names: each    *)
(* breaks one of the properties at the end of the module.                  *)
(***************************************************************************)
EXTENDS Naturals, Sequences, SequencesExt, FiniteSets

CONSTANTS
  Collectors,
  Objects,         \* instances that can be retired
  Keepers          \* collectors whose threads do not end, as a main thread

ASSUME CollectorAssumption ==
  /\ IsFiniteSet(Collectors) /\ Keepers \subseteq Collectors
  /\ Collectors \cap Objects = {}

NextEpoch(e) == (e + 1) % 3

VARIABLES
  epoch,      \* EPOCH
  anchor,     \* the collectors linked at GLOBAL_ANCHOR, head first
  locked,     \* Tag::First of GLOBAL_ANCHOR: a thread is scanning
  enforced,   \* Tag::Second of GLOBAL_ANCHOR: an invalid collector is linked
  pc,         \* where the thread of each collector is
  flag,       \* INACTIVE and INVALID of Collector::state
  ann,        \* announcement, the epoch of Collector::state
  loaded,     \* what new_guard has loaded from EPOCH
  current,    \* current_instance_link
  previous,   \* previous_instance_link
  next,       \* next_instance_link
  todo,       \* the collectors the scanning thread has still to visit
  hasPrev,    \* whether prev_collector_ptr of the scan is set
  exiting,    \* collectors whose thread unlinked them to drop them itself
  freed,      \* instances and collectors that have been deallocated
  readers,    \* the Guards that were alive when an object was retired and
              \* still are: they may hold references to it
  exitScan,   \* history: an exiting thread has scanned
  overtaken   \* history: a new_guard has announced what was no longer EPOCH

anchorVars == <<anchor, locked, enforced>>
listVars == <<current, previous, next>>
scanVars == <<todo, hasPrev>>
histVars == <<exitScan, overtaken>>
vars == <<epoch, anchor, locked, enforced, pc, flag, ann, loaded, current,
          previous, next, todo, hasPrev, exiting, freed, readers, exitScan,
          overtaken>>

Goto(c, l) == pc' = [pc EXCEPT ![c] = l]

Init ==
  /\ epoch = 0
  /\ anchor = <<>> /\ locked = FALSE /\ enforced = FALSE
  /\ pc = [c \in Collectors |-> "unborn"]
  /\ flag = [c \in Collectors |-> "inactive"]
  /\ ann = [c \in Collectors |-> 0]
  /\ loaded = [c \in Collectors |-> 0]
  /\ current = [c \in Collectors |-> {}]
  /\ previous = [c \in Collectors |-> {}]
  /\ next = [c \in Collectors |-> {}]
  /\ todo = <<>> /\ hasPrev = FALSE
  /\ exiting = {}
  /\ freed = {}
  /\ readers = [o \in Objects |-> {}]
  /\ exitScan = FALSE /\ overtaken = FALSE

Garbage(c) == current[c] \cup previous[c] \cup next[c]
HasGarbage(c) == Garbage(c) # {}

Dropped_Shallow(S) == S

\* What a collector's lists may hold.
Instances == Collectors \cup Objects

\* Dropping a collector drops everything in its lists, the collectors among
\* it included (Drop for Collector): the least set that holds S and, with a
\* collector, all of its garbage.
Dropped(S) ==
  {x \in Instances :
     \A T \in SUBSET Instances :
       (S \subseteq T /\ \A d \in T \cap Collectors : Garbage(d) \subseteq T)
       => x \in T}

-----------------------------------------------------------------------------
(* Guards                                                                   *)

\* Collector::alloc: the first Guard of a thread links its collector.
Alloc(c) ==
  /\ pc[c] = "unborn"
  /\ anchor' = <<c>> \o anchor
  /\ Goto(c, "idle")
  /\ UNCHANGED <<epoch, locked, enforced, flag, ann, loaded, listVars,
                 scanVars, exiting, freed, readers, histVars>>

\* Collector::new_guard, first access: EPOCH is loaded.
PinLoad(c) ==
  /\ pc[c] = "idle"
  /\ loaded' = [loaded EXCEPT ![c] = epoch]
  /\ Goto(c, "pinning")
  /\ UNCHANGED <<epoch, anchorVars, flag, ann, listVars, scanVars, exiting,
                 freed, readers, histVars>>

Rotate_KeepsNext(c) ==
  /\ next' = [next EXCEPT ![c] = @ \cup previous[c]]
  /\ previous' = [previous EXCEPT ![c] = current[c]]
  /\ current' = [current EXCEPT ![c] = {}]
  /\ freed' = freed \cup Dropped(next[c])

Rotate_TwoLists(c) ==
  /\ previous' = [previous EXCEPT ![c] = current[c]]
  /\ current' = [current EXCEPT ![c] = {}]
  /\ freed' = freed \cup Dropped(previous[c])
  /\ UNCHANGED next

\* Collector::epoch_updated: the lists move on, what was in next is dropped.
Rotate(c) ==
  /\ next' = [next EXCEPT ![c] = previous[c]]
  /\ previous' = [previous EXCEPT ![c] = current[c]]
  /\ current' = [current EXCEPT ![c] = {}]
  /\ freed' = freed \cup Dropped(next[c])

\* Collector::new_guard, second access: the loaded epoch is stored in the
\* state, and a new announcement is followed by epoch_updated.  The Guard of
\* an exiting thread (Guard::new_for_drop) drops all of its garbage instead.
PinStore(c) ==
  /\ pc[c] = "pinning"
  /\ ann' = [ann EXCEPT ![c] = loaded[c]]
  /\ \/ /\ c \notin exiting /\ loaded[c] # ann[c]
        /\ Rotate(c)
     \/ /\ c \notin exiting /\ loaded[c] = ann[c]
        /\ UNCHANGED <<listVars, freed>>
     \/ /\ c \in exiting
        /\ current' = [current EXCEPT ![c] = {}]
        /\ previous' = [previous EXCEPT ![c] = {}]
        /\ next' = [next EXCEPT ![c] = {}]
        /\ freed' = freed \cup Dropped(Garbage(c))
  /\ overtaken' = (overtaken \/ loaded[c] # epoch)
  /\ loaded' = [loaded EXCEPT ![c] = 0]
  /\ flag' = [flag EXCEPT ![c] = "active"]
  /\ Goto(c, "pinned")
  /\ UNCHANGED <<epoch, anchorVars, scanVars, exiting, readers, exitScan>>

\* The threads that have a Guard of their own.
Guarded == {c \in Collectors : pc[c] = "pinned" /\ c \notin exiting}

\* Collector::reclaim of an instance: any Guard alive now may refer to it.
Retire(c, o) ==
  /\ c \in Guarded
  /\ \A d \in Collectors : o \notin Garbage(d)
  /\ o \notin freed
  /\ current' = [current EXCEPT ![c] = @ \cup {o}]
  /\ readers' = [readers EXCEPT ![o] = Guarded]
  /\ UNCHANGED <<epoch, anchorVars, pc, flag, ann, loaded, previous, next,
                 scanVars, exiting, freed, histVars>>

-----------------------------------------------------------------------------
(* Ending a Guard and scanning                                              *)

\* Collector::end_guard of the last Guard, no scan due or somebody else is
\* scanning.
EndGuard(c) ==
  /\ pc[c] = "pinned"
  /\ readers' = [o \in Objects |-> readers[o] \ {c}]
  /\ Goto(c, "ending")
  /\ UNCHANGED <<epoch, anchorVars, flag, ann, loaded, listVars, scanVars,
                 exiting, freed, histVars>>

\* Collector::end_guard of the last Guard, a scan is due and the anchor can
\* be locked, which forgets Tag::Second.
EndGuardScan(c) ==
  /\ pc[c] = "pinned" /\ ~locked
  /\ readers' = [o \in Objects |-> readers[o] \ {c}]
  /\ locked' = TRUE /\ enforced' = FALSE
  /\ todo' = anchor /\ hasPrev' = FALSE
  /\ exitScan' = (exitScan \/ c \in exiting)
  /\ Goto(c, "scan")
  /\ UNCHANGED <<epoch, anchor, flag, ann, loaded, listVars, exiting, freed,
                 overtaken>>

\* The anchor is unlocked; Tag::Second set in the meantime stays.
Unlock(c) ==
  /\ locked' = FALSE
  /\ Goto(c, "ending")

\* The collector has not announced the epoch the scanner knows.
Lagging_OnlyNewer(c, d) == flag[d] = "active" /\ ann[d] = NextEpoch(ann[c])
Lagging(c, d) == flag[d] = "active" /\ ann[d] # ann[c]

\* The anchor after the scanning thread has unlinked d.
Unlinked_Not(d) == anchor
Unlinked(d) == RemoveAt(anchor, CHOOSE i \in DOMAIN anchor : anchor[i] = d)

\* One turn of the loop of Collector::try_scan.  An invalid collector is
\* unlinked and retired, unless it was the head and no longer is.
ScanVisit(c) ==
  /\ pc[c] = "scan" /\ todo # <<>>
  /\ LET d == Head(todo) IN
       \/ /\ d # c /\ flag[d] = "invalid" /\ (hasPrev \/ Head(anchor) = d)
          /\ anchor' = Unlinked(d)
          /\ current' = [current EXCEPT ![c] = @ \cup {d}]
          /\ todo' = Tail(todo)
          /\ UNCHANGED <<locked, hasPrev, pc>>
       \/ /\ d # c /\ Lagging(c, d)
          /\ Unlock(c)
          /\ todo' = <<>> /\ hasPrev' = FALSE
          /\ UNCHANGED <<anchor, current>>
       \/ /\ \/ d = c
             \/ flag[d] = "invalid" /\ ~hasPrev /\ Head(anchor) # d
             \/ flag[d] # "invalid" /\ ~Lagging(c, d)
          /\ todo' = Tail(todo) /\ hasPrev' = TRUE
          /\ UNCHANGED <<anchor, locked, current, pc>>
  /\ UNCHANGED <<epoch, enforced, flag, ann, loaded, previous, next, exiting,
                 freed, readers, histVars>>

\* All collectors have been visited: the epoch after the scanner's own.
ScanFinish(c) ==
  /\ pc[c] = "scan" /\ todo = <<>>
  /\ epoch' = NextEpoch(ann[c])
  /\ Unlock(c)
  /\ hasPrev' = FALSE
  /\ UNCHANGED <<anchor, enforced, flag, ann, loaded, listVars, todo, exiting,
                 freed, readers, histVars>>

\* The state becomes INACTIVE again.  An exiting thread deallocates its
\* collector, with what the scan may have put into it.
Unpin(c) ==
  /\ pc[c] = "ending"
  /\ flag' = [flag EXCEPT ![c] = "inactive"]
  /\ \/ /\ c \notin exiting
        /\ Goto(c, "idle")
        /\ UNCHANGED <<listVars, freed>>
     \/ /\ c \in exiting
        /\ Goto(c, "gone")
        /\ freed' = freed \cup Dropped({c})
        /\ current' = [current EXCEPT ![c] = {}]
        /\ UNCHANGED <<previous, next>>
  /\ UNCHANGED <<epoch, anchorVars, ann, loaded, scanVars, exiting, readers,
                 histVars>>

-----------------------------------------------------------------------------
(* The end of a thread                                                      *)

\* try_drop_local_collector, only collector of an untagged anchor: it is
\* unlinked and cleaned up with a Guard made for that.
ExitSole(c) ==
  /\ pc[c] = "idle" /\ c \notin Keepers
  /\ anchor = <<c>> /\ ~locked /\ ~enforced
  /\ anchor' = <<>>
  /\ exiting' = exiting \cup {c}
  /\ loaded' = [loaded EXCEPT ![c] = epoch]
  /\ Goto(c, "pinning")
  /\ UNCHANGED <<epoch, locked, enforced, flag, ann, listVars, scanVars,
                 freed, readers, histVars>>

\* The thread has seen that its collector is not the only one, or suspends
\* itself (pass_garbage) and has garbage.
Leave(c) ==
  /\ pc[c] = "idle" /\ c \notin Keepers
  /\ anchor # <<c>> \/ locked \/ enforced \/ HasGarbage(c)
  /\ Goto(c, "leaving")
  /\ UNCHANGED <<epoch, anchorVars, flag, ann, loaded, listVars, scanVars,
                 exiting, freed, readers, histVars>>

\* The collector is left behind for a scanning thread.
Invalidate(c) ==
  /\ pc[c] = "leaving"
  /\ flag' = [flag EXCEPT ![c] = "invalid"]
  /\ Goto(c, "mark")
  /\ UNCHANGED <<epoch, anchorVars, ann, loaded, listVars, scanVars, exiting,
                 freed, readers, histVars>>

\* mark_scan_enforced.
Mark(c) ==
  /\ pc[c] = "mark"
  /\ enforced' = TRUE
  /\ Goto(c, "gone")
  /\ UNCHANGED <<epoch, anchor, locked, flag, ann, loaded, listVars, scanVars,
                 exiting, freed, readers, histVars>>

-----------------------------------------------------------------------------

Step(c) ==
  \/ PinStore(c) \/ EndGuard(c) \/ EndGuardScan(c)
  \/ ScanVisit(c) \/ ScanFinish(c) \/ Unpin(c)
  \/ Invalidate(c) \/ Mark(c)

Next ==
  \E c \in Collectors :
    \/ Alloc(c) \/ PinLoad(c)
    \/ \E o \in Objects : Retire(c, o)
    \/ ExitSole(c) \/ Leave(c)
    \/ Step(c)

Spec == Init /\ [][Next]_vars

\* Threads keep running and end their Guards; the threads that stay keep
\* making Guards, and next_epoch_update makes every CADENCE-th end of one
\* due for a scan.
Fairness ==
  /\ \A c \in Collectors : WF_vars(Step(c))
  /\ \A c \in Keepers : /\ WF_vars(Alloc(c)) /\ WF_vars(PinLoad(c))
                         /\ SF_vars(EndGuardScan(c))

FairSpec == Spec /\ Fairness

-----------------------------------------------------------------------------
(* Correctness                                                              *)

\* Guard::defer_execute: "after every Guard at the moment when the method
\* was invoked is dropped"; Collectible: "The reference is valid as long as a
\* Guard that had been created before boxed was passed to a Guard survives".
NoUseAfterFree == \A o \in Objects \cap freed : readers[o] = {}

\* Neither of two things has happened that the code does not exclude: a new_guard
\* announced an epoch that had moved on since it was loaded (collector.rs:47-58),
\* or the Guard of an exiting thread scanned (collector.rs:378).
Undisturbed == ~overtaken /\ ~exitScan

\* What a Guard may refer to is kept until the Guard is dropped, through every
\* change of the epoch, rotation of the lists, end of a thread and adoption of
\* what it leaves behind, up to the first of those two events.  Either alone
\* breaks the promise: KeptWhenOvertaken and KeptWhenExitScans below.
GuardedIsKept == Undisturbed => NoUseAfterFree

\* Up to then the epoch moves at most once after the one a Guard has
\* announced, while it is alive: what the Guard refers to stays in the first
\* two lists.  (An exiting thread is no longer linked, so its scan may turn the
\* epoch back, and so may that of a thread that was overtaken.)
GuardHoldsEpoch ==
  Undisturbed =>
    \A c \in Guarded : epoch \in {ann[c], NextEpoch(ann[c])}

\* The promise without any thread that exits.  The code breaks it: new_guard
\* loads EPOCH and stores it without looking again, so that after three updates
\* in between an old announcement passes for the current one.
KeptWhenOvertaken == ~exitScan => NoUseAfterFree

\* The promise when every new_guard announces the epoch that is current.  The
\* code breaks it: a thread that exits unlinks its collector and then makes a
\* Guard to clean up, whose end may scan with an announcement nobody waits for.
KeptWhenExitScans == ~overtaken => NoUseAfterFree

\* Every retired instance has one owner and is deallocated once: it is in one
\* list of one collector that has not been dropped.
RetiredOnce ==
  /\ \A c \in Collectors :
       /\ Garbage(c) \cap freed # {} => c \in freed
       /\ current[c] \cap previous[c] = {}
       /\ current[c] \cap next[c] = {}
       /\ previous[c] \cap next[c] = {}
  /\ \A c, d \in Collectors : c # d => Garbage(c) \cap Garbage(d) = {}

\* No thread reaches a deallocated or retired collector: neither through the
\* anchor nor in the middle of a scan, and none is its own.
LinkedAlive ==
  /\ Range(anchor) \cap (freed \cup UNION {Garbage(c) : c \in Collectors}) = {}
  /\ Range(todo) \subseteq Range(anchor)
  /\ \A c \in Collectors \cap freed : pc[c] \in {"mark", "gone"}

\* What a thread leaves behind in its collector is reclaimed by the others.
LeftBehindIsFreed ==
  \A c \in Collectors, o \in Objects :
    (flag[c] = "invalid" /\ o \in Garbage(c)) ~> o \in freed

=============================================================================
