----------------------------- MODULE ImageQueue -----------------------------
(***************************************************************************)
(* m_images (wx_kk_upDlg.h:57) as it is: a std::queue that three threads   *)
(* use without a lock.  Module Pipeline takes each of its operations as    *)
(* one step; here they are the loads and stores they are made of:          *)
(*   push    reads the offset and the size, stores the name in the slot    *)
(*           after the last, and increments the size (load, add, store)    *)
(*   pop     increments the offset, decrements the size (load, sub, store) *)
(*           and sets the offset to 0 when the size became 0               *)
(*   front   loads the slot at the offset                                  *)
(* The watcher and the lister push the names of pictures; the processor    *)
(* looks at the size twice, takes the front, pops, and uses the name.      *)
(***************************************************************************)
EXTENDS Naturals, FiniteSets

CONSTANTS Names,      \* the names of pictures, each pushed once
          MaxImages,  \* the lister pushes only below this size
          none        \* what a slot holds in which nothing was stored yet

VARIABLES off, size, slot,   \* the queue
          fresh, taken,      \* the names to come, and those front returned
          pc, at, n, name    \* of each thread: place, offset and size it
                             \* read, name it holds

queue == <<off, size, slot>>
names == <<fresh, taken>>
locals == <<at, n, name>>
vars == <<queue, names, pc, locals>>

Producer == {"watcher", "lister"}
Thread   == Producer \cup {"proc"}

\* One step of thread t from one place of its code to another.
Go(t, from, to) == pc[t] = from /\ pc' = [pc EXCEPT ![t] = to]

Load(local, t, value) == local' = [local EXCEPT ![t] = value]

Init ==
    /\ off = 0 /\ size = 0
    /\ slot = [i \in 0..2 * Cardinality(Names) |-> none]
    /\ fresh = Names /\ taken = {}
    /\ pc = [t \in Thread |-> "idle"]
    /\ at = [t \in Thread |-> 0]
    /\ n = [t \in Thread |-> 0]
    /\ name = [t \in Thread |-> none]

-----------------------------------------------------------------------------
(* push, by the watcher for a changed file, and by the lister for a listed *)
(* one unless the queue is long.                                           *)

Begin(t) ==
    /\ Go(t, "idle", "offset")
    /\ t = "lister" => size < MaxImages
    /\ \E x \in fresh : Load(name, t, x) /\ fresh' = fresh \ {x}
    /\ UNCHANGED <<queue, taken, at, n>>

PushOffset(t) ==
    /\ Go(t, "offset", "place")
    /\ Load(at, t, off)
    /\ UNCHANGED <<queue, names, n, name>>

PushPlace(t) ==
    /\ Go(t, "place", "store")
    /\ Load(at, t, at[t] + size)
    /\ UNCHANGED <<queue, names, n, name>>

PushStore(t) ==
    /\ Go(t, "store", "count")
    /\ slot' = [slot EXCEPT ![at[t]] = name[t]]
    /\ UNCHANGED <<off, size, names, locals>>

PushCount(t) ==
    /\ Go(t, "count", "grow")
    /\ Load(n, t, size)
    /\ UNCHANGED <<queue, names, at, name>>

PushGrow(t) ==
    /\ Go(t, "grow", "idle")
    /\ size' = n[t] + 1
    /\ UNCHANGED <<off, slot, names, locals>>

Push(t) == Begin(t) \/ PushOffset(t) \/ PushPlace(t) \/ PushStore(t)
             \/ PushCount(t) \/ PushGrow(t)

-----------------------------------------------------------------------------
(* ThreadProcessWatchedFiles.                                              *)

\* if(m_images.size()<1) continue;  if(m_images.empty()) continue;
Test(from, to) ==
    /\ Go("proc", from, IF size < 1 THEN "idle" ELSE to)
    /\ UNCHANGED <<queue, names, locals>>

Front ==
    /\ Go("proc", "front", "pop")
    /\ Load(name, "proc", slot[off])
    /\ taken' = taken \cup {slot[off]}
    /\ UNCHANGED <<queue, fresh, at, n>>

\* pop: ++offset, unless the queue is empty ...
PopOffset ==
    /\ Go("proc", "pop", IF size = 0 THEN "use" ELSE "count")
    /\ off' = IF size = 0 THEN off ELSE off + 1
    /\ UNCHANGED <<size, slot, names, locals>>

PopCount ==
    /\ Go("proc", "count", "shrink")
    /\ Load(n, "proc", size)
    /\ UNCHANGED <<queue, names, at, name>>

\* ... --size ...
PopShrink ==
    /\ Go("proc", "shrink", IF n["proc"] = 1 THEN "reset" ELSE "use")
    /\ size' = n["proc"] - 1
    /\ UNCHANGED <<off, slot, names, locals>>

\* ... and offset = 0 if that made it 0.
PopReset ==
    /\ Go("proc", "reset", "use")
    /\ off' = 0
    /\ UNCHANGED <<size, slot, names, locals>>

\* The rest of the turn is about the name and leaves the queue alone.
Use ==
    /\ Go("proc", "use", "idle")
    /\ UNCHANGED <<queue, names, locals>>

Take ==
    \/ Test("idle", "again") \/ Test("again", "front")
    \/ Front \/ PopOffset \/ PopCount \/ PopShrink \/ PopReset
    \/ Use

Next == (\E t \in Producer : Push(t)) \/ Take

Spec == Init /\ [][Next]_vars

-----------------------------------------------------------------------------
Queued == {slot[i] : i \in off..(off + size - 1)}

\* "What was watched is put into the list" (wx_kk_upDlg.cpp 550, Readme.txt
\* 88): when the push of a name has returned, the name is in the queue until
\* the processor takes it.
PushedIsQueued ==
    \A t \in Producer : pc[t] = "idle" /\ name[t] # none => name[t] \in Queued \cup taken
=============================================================================
