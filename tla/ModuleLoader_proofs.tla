------------------------ MODULE ModuleLoader_proofs -------------------------
(***************************************************************************)
(* OneInstance, LateImportersGetFinal and SyncPartialsAreCycles of         *)
(* ModuleLoader, for every set of programs, with any number of modules and *)
(* of loads.                                                               *)
(*                                                                         *)
(* OneInstance is not inductive: that no second load of a path starts is   *)
(* decided by its slot in the cache, so Remembered adds that the slot of   *)
(* every load is taken until mock.module empties it.  What a late importer *)
(* gets is decided when the slot is filled and again when the load is      *)
(* done: CacheFinal says which object a slot holds in between, and         *)
(* ReceiptsTrue that nothing done comes undone.  That partial exports mean *)
(* a cycle rests on the shape of the stack, SyncNested.                    *)
(***************************************************************************)
EXTENDS ModuleLoader, Subsequences_proofs, SequenceTheorems

Fields == {"key", "todo", "sync", "at", "wait", "object", "by"}
ObjectOf(i) == [load : {i}, assigned : BOOLEAN]

(* r is the record of load i, when n loads have started.                    *)
IsLoad(r, i, n) ==
    /\ DOMAIN r = Fields
    /\ r.key \in Key
    /\ r.object \in ObjectOf(i)
    /\ r.wait \in 0 .. n
    /\ r.at = "call" => r.wait # 0

(* s is a sequence, of whatever.                                           *)
IsSequence(s) == \E S : s \in Seq(S)

LoadsOK ==
    /\ IsSequence(loads)
    /\ \A i \in 1 .. Len(loads) : IsLoad(loads[i], i, Len(loads))

StackOK == stack \in Seq(1 .. Len(loads))

CacheOK ==
    /\ DOMAIN cache = Key
    /\ \A k \in Key : cache[k] # NoObject =>
          /\ cache[k].load \in 1 .. Len(loads)
          /\ cache[k] \in ObjectOf(cache[k].load)

(* Only mock.module makes the cache forget the path of a load.              *)
Remembered ==
    \A i \in 1 .. Len(loads) :
        cache[loads[i].key] = NoObject => \E s \in mocks : loads[i].key \in Invalidated(s)

(* The object o is what its load exports in the end, if the load is done    *)
(* (with the exception LateImportersGetFinal makes).                        *)
IsFinal(o) ==
    Holder(o).at = "done" /\ (Holder(o).sync \/ ~Holder(o).object.assigned)
        => o = Holder(o).object

(* A slot of the cache holds an object of a load of its path, the first one *)
(* until the load is done and the final one afterwards.                     *)
CacheFinal ==
    \A k \in Key : cache[k] # NoObject =>
        /\ Holder(cache[k]).key = k
        /\ cache[k].assigned => Holder(cache[k]).at = "done"
        /\ IsFinal(cache[k])

(* Receipts name loads, and remember truly which of them were done.         *)
ReceiptsTrue ==
    \A r \in receipts :
        /\ r.object.load \in 1 .. Len(loads)
        /\ r.ended => Holder(r.object).at = "done"

Inductive ==
    /\ LoadsOK /\ StackOK /\ CacheOK
    /\ Remembered /\ OneInstance
    /\ CacheFinal /\ ReceiptsTrue /\ LateImportersGetFinal

-----------------------------------------------------------------------------
(* Changing one element of a sequence, the record of one load.              *)
LEMMA ElementChanged ==
    ASSUME NEW s, IsSequence(s), NEW i \in 1 .. Len(s), NEW r
    PROVE  /\ IsSequence([s EXCEPT ![i] = r])
           /\ Len([s EXCEPT ![i] = r]) = Len(s)
           /\ [s EXCEPT ![i] = r][i] = r
           /\ \A j \in 1 .. Len(s) : j # i => [s EXCEPT ![i] = r][j] = s[j]
  <1>1. PICK S : s \in Seq(S)
    BY DEF IsSequence
  <1>2. s \in Seq(S \cup {r})
    BY <1>1
  <1>3. [s EXCEPT ![i] = r] \in Seq(S \cup {r})
    BY <1>2
  <1> QED
    BY <1>2, <1>3 DEF IsSequence

(* The record of one load changes.                                          *)
LEMMA LoadChanged ==
    ASSUME LoadsOK, NEW i \in 1 .. Len(loads), NEW r
    PROVE  /\ IsSequence([loads EXCEPT ![i] = r])
           /\ Len([loads EXCEPT ![i] = r]) = Len(loads)
           /\ [loads EXCEPT ![i] = r][i] = r
           /\ \A j \in 1 .. Len(loads) : j # i => [loads EXCEPT ![i] = r][j] = loads[j]
  BY ElementChanged DEF LoadsOK

(* Adding the record of a load.                                             *)
LEMMA LoadAdded ==
    ASSUME NEW s, IsSequence(s), NEW r
    PROVE  /\ IsSequence(Append(s, r))
           /\ Len(s) \in Nat
           /\ Len(Append(s, r)) = Len(s) + 1
           /\ Append(s, r)[Len(s) + 1] = r
           /\ \A j \in 1 .. Len(s) : Append(s, r)[j] = s[j]
  <1>1. PICK S : s \in Seq(S)
    BY DEF IsSequence
  <1>2. s \in Seq(S \cup {r})
    BY <1>1
  <1>3. Append(s, r) \in Seq(S \cup {r})
    BY <1>2
  <1> QED
    BY <1>2, <1>3 DEF IsSequence

(* The load on top of the stack, and the stack without it.                  *)
LEMMA StackSteps ==
    ASSUME LoadsOK, StackOK, stack # <<>>
    PROVE  /\ Top \in 1 .. Len(loads)
           /\ Pop \in Seq(1 .. Len(loads))
  BY DEF StackOK, Top, Pop, Last, Front

-----------------------------------------------------------------------------
(* q is the record r of load i after an edit that leaves it the same load.  *)
Edited(q, r, i, n) ==
    IsLoad(q, i, n) /\ q.key = r.key /\ q.sync = r.sync /\ q.at # "done"

(* What a step can make of the record of a load.                            *)
LEMMA Staged ==
    ASSUME NEW r, NEW i, NEW n, IsLoad(r, i, n),
           NEW stage \in {"pause", "await", "block", "failed"}
    PROVE  Edited([r EXCEPT !.at = stage], r, i, n)
  <1> DEFINE q == [r EXCEPT !.at = stage]
  <1>1. /\ DOMAIN q = Fields /\ q.key = r.key /\ q.sync = r.sync
        /\ q.object = r.object /\ q.wait = r.wait /\ q.at = stage
    BY DEF IsLoad, Fields
  <1> QED
    BY <1>1 DEF IsLoad, Edited

(* The record of a load that starts to wait for load w.                     *)
LEMMA Waiting ==
    ASSUME NEW r, NEW i, NEW n, IsLoad(r, i, n),
           NEW stage \in {"await", "block", "call"}, NEW w \in 0 .. n,
           stage \in {"await", "block"} \/ w # 0
    PROVE  Edited([r EXCEPT !.at = stage, !.wait = w], r, i, n)
  <1> DEFINE q == [r EXCEPT !.at = stage, !.wait = w]
  <1>1. /\ DOMAIN q = Fields /\ q.key = r.key /\ q.sync = r.sync
        /\ q.object = r.object /\ q.wait = w /\ q.at = stage
    BY DEF IsLoad, Fields
  <1> QED
    BY <1>1 DEF IsLoad, Edited

(* The record of a load whose body goes on.                                 *)
LEMMA WentOn ==
    ASSUME NEW r, NEW i, NEW n, IsLoad(r, i, n)
    PROVE  /\ Edited(GoesOn(r), r, i, n)
           /\ Edited(Assigns(r), r, i, n)
  <1>1. /\ DOMAIN GoesOn(r) = Fields /\ GoesOn(r).key = r.key /\ GoesOn(r).sync = r.sync
        /\ GoesOn(r).object = r.object /\ GoesOn(r).wait = r.wait /\ GoesOn(r).at = "run"
    BY DEF IsLoad, Fields, GoesOn
  <1>2. /\ DOMAIN Assigns(r) = Fields /\ Assigns(r).key = r.key /\ Assigns(r).sync = r.sync
        /\ Assigns(r).object = [load |-> r.object.load, assigned |-> TRUE]
        /\ Assigns(r).wait = r.wait /\ Assigns(r).at = "run"
    BY <1>1 DEF Fields, Assigns
  <1>3. Edited(GoesOn(r), r, i, n)
    BY <1>1 DEF IsLoad, Edited
  <1>4. Edited(Assigns(r), r, i, n)
    BY <1>2 DEF IsLoad, ObjectOf, Edited
  <1> QED
    BY <1>3, <1>4

(* A step that changes the record of one load, which is neither done before *)
(* nor after it, and hands out objects that are final if their load is.     *)
LEMMA QuietStep ==
    ASSUME Inductive, UNCHANGED <<mocks, cache>>,
           NEW i \in 1 .. Len(loads), NEW r, loads' = [loads EXCEPT ![i] = r],
           IsLoad(r, i, Len(loads)), r.key = loads[i].key, r.sync = loads[i].sync,
           r.at # "done", loads[i].at # "done",
           stack' \in Seq(1 .. Len(loads)),
           \A x \in receipts' \ receipts :
               /\ x.object.load \in 1 .. Len(loads)
               /\ x.ended => Holder(x.object).at = "done"
               /\ IsFinal(x.object)
    PROVE  Inductive'
  <1>1. /\ IsSequence(loads')
        /\ Len(loads') = Len(loads)
        /\ loads'[i] = r
        /\ \A j \in 1 .. Len(loads) : j # i => loads'[j] = loads[j]
    <2>1. LoadsOK
      BY DEF Inductive
    <2>2. /\ IsSequence([loads EXCEPT ![i] = r])
          /\ Len([loads EXCEPT ![i] = r]) = Len(loads)
          /\ [loads EXCEPT ![i] = r][i] = r
          /\ \A j \in 1 .. Len(loads) : j # i => [loads EXCEPT ![i] = r][j] = loads[j]
      BY ZenonT(60), <2>1, LoadChanged
    <2> QED
      BY <2>2
  <1>2. \A j \in 1 .. Len(loads) :
            /\ loads'[j].key = loads[j].key /\ loads'[j].sync = loads[j].sync
            /\ loads'[j].at = "done" => loads'[j] = loads[j]
            /\ loads[j].at = "done" => loads'[j] = loads[j]
    BY <1>1
  <1>3. LoadsOK' /\ StackOK' /\ CacheOK'
    BY <1>1 DEF Inductive, LoadsOK, StackOK, CacheOK
  <1>4. Remembered'
    BY <1>1, <1>2 DEF Inductive, Remembered, Invalidated
  <1>5. OneInstance'
    BY <1>1, <1>2 DEF Inductive, OneInstance, Invalidated
  <1>6. CacheFinal'
    BY <1>1, <1>2 DEF Inductive, CacheOK, CacheFinal, IsFinal, Holder
  <1>7. ReceiptsTrue' /\ LateImportersGetFinal'
    BY <1>1, <1>2 DEF Inductive, ReceiptsTrue, LateImportersGetFinal, IsFinal, Holder
  <1> QED
    BY <1>3, <1>4, <1>5, <1>6, <1>7 DEF Inductive

(* The record of the load on top of the stack, with other fields changed.   *)
LEMMA TopRecord ==
    ASSUME Inductive, stack # <<>>
    PROVE  /\ Top \in 1 .. Len(loads) /\ Pop \in Seq(1 .. Len(loads))
           /\ stack \in Seq(1 .. Len(loads))
           /\ IsLoad(loads[Top], Top, Len(loads))
           /\ 0 \in 0 .. Len(loads)
  BY StackSteps DEF Inductive, LoadsOK, StackOK, IsLoad

(* A request is answered with objects that are final if their load is.      *)
LEMMA AnswerStep ==
    ASSUME Inductive, stack # <<>>, loads[Top].at # "done", UNCHANGED <<mocks, cache>>,
           NEW objs, \A o \in objs : o.load \in 1 .. Len(loads) /\ IsFinal(o),
           Answer(objs)
    PROVE  Inductive'
  <1> DEFINE r == loads[Top]
  <1>1. IsLoad(r, Top, Len(loads)) /\ Top \in 1 .. Len(loads)
    BY TopRecord
  <1>2. \A x \in receipts' \ receipts :
            /\ x.object.load \in 1 .. Len(loads)
            /\ x.ended => Holder(x.object).at = "done"
            /\ IsFinal(x.object)
    <2> SUFFICES ASSUME NEW x \in receipts' \ receipts
                 PROVE  /\ x.object.load \in 1 .. Len(loads)
                        /\ x.ended => Holder(x.object).at = "done"
                        /\ IsFinal(x.object)
      OBVIOUS
    <2>1. PICK o \in objs : x = Given(Top, o)
      BY DEF Answer
    <2>2. x.object = o /\ (x.ended => Holder(o).at = "done")
      BY <2>1 DEF Given
    <2> QED
      BY <2>2
  <1>3. CASE Current.op = "import"
    <2> DEFINE q == [r EXCEPT !.at = "await", !.wait = 0]
    <2>1. Edited(q, r, Top, Len(loads))
      BY <1>1, TopRecord, Waiting
    <2>2. loads' = [loads EXCEPT ![Top] = q] /\ stack' = Pop
      BY <1>3 DEF Answer
    <2> QED
      BY <1>1, <1>2, <2>1, <2>2, TopRecord, QuietStep DEF Edited
  <1>4. CASE Current.op # "import"
    <2> DEFINE q == GoesOn(r)
    <2>1. Edited(q, r, Top, Len(loads))
      BY <1>1, WentOn
    <2>2. loads' = [loads EXCEPT ![Top] = q] /\ stack' = stack
      BY <1>4 DEF Answer
    <2> QED
      BY <1>1, <1>2, <2>1, <2>2, TopRecord, QuietStep DEF Edited
  <1> QED
    BY <1>3, <1>4

(* A request fails, in a load that is there already.                        *)
LEMMA FailStep ==
    ASSUME Inductive, stack # <<>>, loads[Top].at # "done", UNCHANGED <<mocks, cache>>,
           RequestFails(loads)
    PROVE  Inductive'
  <1> DEFINE r == loads[Top]
  <1>1. IsLoad(r, Top, Len(loads)) /\ Top \in 1 .. Len(loads) /\ receipts' = receipts
    BY TopRecord DEF RequestFails
  <1>2. CASE loads' = [loads EXCEPT ![Top].at = "failed"] /\ stack' = Pop
    <2> DEFINE q == [r EXCEPT !.at = "failed"]
    <2>1. Edited(q, r, Top, Len(loads))
      BY <1>1, Staged
    <2>2. loads' = [loads EXCEPT ![Top] = q]
      BY <1>2
    <2> QED
      BY <1>1, <1>2, <2>1, <2>2, TopRecord, QuietStep DEF Edited
  <1>3. CASE /\ loads' = [loads EXCEPT ![Top] = GoesOn(@)]
             /\ stack' = stack
    <2> DEFINE q == GoesOn(r)
    <2>1. Edited(q, r, Top, Len(loads))
      BY <1>1, WentOn
    <2>2. loads' = [loads EXCEPT ![Top] = q]
      BY <1>3
    <2> QED
      BY <1>1, <1>3, <2>1, <2>2, TopRecord, QuietStep DEF Edited
  <1> QED
    BY <1>2, <1>3 DEF RequestFails

(* A load starts: the record of one load more, a slot of the cache that was *)
(* empty, and possibly a change to the record of the load that asked.       *)
LEMMA NewLoadStep ==
    ASSUME Inductive, UNCHANGED <<mocks, receipts>>,
           NEW k \in Key, cache[k] = NoObject,
           cache' = [cache EXCEPT ![k] = [load |-> Len(loads) + 1, assigned |-> FALSE]],
           IsSequence(loads'), Len(loads') = Len(loads) + 1,
           NEW i \in 1 .. Len(loads),
           \A j \in 1 .. Len(loads) : j # i => loads'[j] = loads[j],
           IsLoad(loads'[i], i, Len(loads) + 1),
           loads'[i].key = loads[i].key, loads'[i].sync = loads[i].sync,
           loads'[i].at # "done", loads[i].at # "done",
           IsLoad(loads'[Len(loads) + 1], Len(loads) + 1, Len(loads) + 1),
           loads'[Len(loads) + 1].key = k, loads'[Len(loads) + 1].at # "done",
           stack' \in Seq(1 .. Len(loads) + 1)
    PROVE  Inductive'
  <1> DEFINE n == Len(loads)
             made == [load |-> n + 1, assigned |-> FALSE]
  <1>1. n \in Nat
    <2>1. PICK S : loads \in Seq(S)
      BY DEF Inductive, LoadsOK, IsSequence
    <2> QED
      BY <2>1
  <1>2. \A j \in 1 .. n :
            /\ loads'[j].key = loads[j].key /\ loads'[j].sync = loads[j].sync
            /\ loads'[j].at = "done" => loads'[j] = loads[j]
            /\ loads[j].at = "done" => loads'[j] = loads[j]
    OBVIOUS
  <1>3. /\ Len(loads') = n + 1 /\ n + 1 \in 1 .. n + 1
        /\ 1 .. n \subseteq 1 .. n + 1
        /\ \A j \in 1 .. n + 1 : j \in 1 .. n \/ j = n + 1
    <2>1. Len(loads') = n + 1
      OBVIOUS
    <2> HIDE DEF n
    <2>2. \A j \in Nat : /\ j + 1 \in 1 .. j + 1 /\ 1 .. j \subseteq 1 .. j + 1
                         /\ \A x \in 1 .. j + 1 : x \in 1 .. j \/ x = j + 1
      OBVIOUS
    <2> QED
      BY <1>1, <2>1, <2>2
  <1>4. /\ loads'[n + 1].key = k /\ loads'[n + 1].at # "done"
        /\ cache' = [cache EXCEPT ![k] = made]
        /\ IsLoad(loads'[n + 1], n + 1, n + 1)
    OBVIOUS
  <1> HIDE DEF n
  <1>5. LoadsOK'
    <2>1. ASSUME NEW j \in 1 .. n
          PROVE  IsLoad(loads'[j], j, n + 1)
      <3>1. CASE j = i
        BY <3>1 DEF n
      <3>2. CASE j # i
        <4>1. IsLoad(loads[j], j, n) /\ loads'[j] = loads[j]
          BY <3>2 DEF Inductive, LoadsOK, n
        <4> QED
          BY <1>1, <4>1 DEF IsLoad
      <3> QED
        BY <3>1, <3>2
    <2> QED
      BY <1>3, <1>4, <2>1 DEF LoadsOK
  <1>6. StackOK'
    BY <1>3 DEF StackOK, n
  <1>7. /\ DOMAIN cache' = Key
        /\ \A m \in Key : m # k => cache'[m] = cache[m]
        /\ cache'[k] = made
    BY <1>4 DEF Inductive, CacheOK
  <1>8. made.load = n + 1 /\ made \in ObjectOf(n + 1) /\ made.assigned = FALSE
    BY DEF ObjectOf
  <1>9. \A m \in Key : m # k /\ cache'[m] # NoObject =>
            cache[m].load \in 1 .. n /\ cache[m] \in ObjectOf(cache[m].load)
    BY <1>7 DEF Inductive, CacheOK, n
  <1>10. CacheOK'
    <2> HIDE DEF made
    <2> QED
      BY <1>3, <1>7, <1>8, <1>9 DEF CacheOK
  <1>11. cache'[k] # NoObject
    BY <1>1, <1>7 DEF NoObject
  <1> HIDE DEF made
  <1>12. \A j \in 1 .. n : cache[loads[j].key] = NoObject
                              => \E s \in mocks : loads[j].key \in Invalidated(s)
    BY DEF Inductive, Remembered, n
  <1>13. Remembered'
    <2> SUFFICES ASSUME NEW j \in 1 .. n + 1, cache'[loads'[j].key] = NoObject
                 PROVE  \E s \in mocks : loads'[j].key \in Invalidated(s)
      BY <1>3 DEF Remembered, Invalidated
    <2>1. j \in 1 .. n
      BY <1>3, <1>4, <1>11
    <2>2. loads[j].key \in Key /\ loads'[j].key = loads[j].key
      BY <1>2, <2>1 DEF Inductive, LoadsOK, IsLoad, n
    <2> QED
      BY <1>7, <1>11, <1>12, <2>1, <2>2
  <1>14. OneInstance'
    <2>1. DOMAIN loads = 1 .. n /\ DOMAIN loads' = 1 .. n + 1
      <3>1. PICK S : loads \in Seq(S)
        BY DEF Inductive, LoadsOK, IsSequence
      <3>2. PICK T : loads' \in Seq(T)
        BY DEF IsSequence
      <3> QED
        BY <1>3, <3>1, <3>2 DEF n
    <2>2. \A j \in 1 .. n : loads'[j].key = k => \E s \in mocks : loads'[j].key \in Invalidated(s)
      BY <1>2, <1>12
    <2> SUFFICES ASSUME NEW c \in 1 .. n + 1, NEW d \in 1 .. n + 1, c # d,
                        loads'[c].key = loads'[d].key
                 PROVE  \E s \in mocks : loads'[c].key \in Invalidated(s)
      BY <2>1 DEF OneInstance, Invalidated
    <2>3. CASE c \in 1 .. n /\ d \in 1 .. n
      <3>1. loads[c].key = loads[d].key /\ loads'[c].key = loads[c].key
        BY <1>2, <2>3
      <3> QED
        BY <2>1, <2>3, <3>1 DEF Inductive, OneInstance
    <2>4. CASE c \in 1 .. n /\ d = n + 1
      BY <1>4, <2>2, <2>4
    <2>5. CASE c = n + 1 /\ d \in 1 .. n
      BY <1>4, <2>2, <2>5
    <2> QED
      BY <1>3, <2>3, <2>4, <2>5
  <1>15. CacheFinal'
    <2> SUFFICES ASSUME NEW m \in Key, cache'[m] # NoObject
                 PROVE  /\ loads'[cache'[m].load].key = m
                        /\ cache'[m].assigned => loads'[cache'[m].load].at = "done"
                        /\ IsFinal(cache[m])'
      BY DEF CacheFinal, Holder
    <2>1. CASE m = k
      BY <1>4, <1>7, <1>8, <2>1 DEF IsFinal, Holder
    <2>2. CASE m # k
      <3>1. /\ cache'[m] = cache[m] /\ cache[m] # NoObject
            /\ cache[m].load \in 1 .. n
        BY <1>7, <1>9, <2>2
      <3>2. /\ loads[cache[m].load].key = m
            /\ cache[m].assigned => loads[cache[m].load].at = "done"
            /\ IsFinal(cache[m])
        BY <3>1 DEF Inductive, CacheFinal, Holder
      <3>3. /\ loads'[cache[m].load].key = loads[cache[m].load].key
            /\ loads'[cache[m].load].at = "done" => loads'[cache[m].load] = loads[cache[m].load]
            /\ loads[cache[m].load].at = "done" => loads'[cache[m].load] = loads[cache[m].load]
        BY <1>2, <3>1
      <3>4. IsFinal(cache[m])'
        BY <3>1, <3>2, <3>3 DEF IsFinal, Holder
      <3> QED
        BY <3>1, <3>2, <3>3, <3>4
    <2> QED
      BY <2>1, <2>2
  <1>16. \A x \in receipts' : /\ x \in receipts /\ x.object.load \in 1 .. n
                              /\ x.ended => loads'[x.object.load] = loads[x.object.load]
    BY <1>2 DEF Inductive, ReceiptsTrue, Holder, n
  <1>17. ReceiptsTrue'
    BY <1>3, <1>16 DEF Inductive, ReceiptsTrue, Holder
  <1>18. LateImportersGetFinal'
    BY <1>16 DEF Inductive, LateImportersGetFinal, Holder
  <1> QED
    BY <1>5, <1>6, <1>10, <1>13, <1>14, <1>15, <1>17, <1>18 DEF Inductive

(* A body ends: its load becomes done and its slot final, and the importers *)
(* that watched it are given what it exports.                               *)
LEMMA FinishStep ==
    ASSUME Inductive, Finish
    PROVE  Inductive'
  <1> DEFINE r == loads[Top]
             q == [r EXCEPT !.at = "done"]
  <1>1. /\ IsLoad(r, Top, Len(loads)) /\ Top \in 1 .. Len(loads)
        /\ Pop \in Seq(1 .. Len(loads)) /\ r.at = "run"
    BY TopRecord DEF Finish, Running
  <1>2. /\ DOMAIN q = Fields /\ q.key = r.key /\ q.sync = r.sync
        /\ q.object = r.object /\ q.wait = r.wait /\ q.at = "done"
    BY <1>1 DEF IsLoad, Fields
  <1>3. /\ loads' = [loads EXCEPT ![Top] = q] /\ stack' = Pop /\ mocks' = mocks
        /\ cache' = SlotAfter(Top)
    BY DEF Finish
  <1>4. /\ IsSequence(loads')
        /\ Len(loads') = Len(loads)
        /\ loads'[Top] = q
        /\ \A j \in 1 .. Len(loads) : j # Top => loads'[j] = loads[j]
    <2>1. LoadsOK
      BY DEF Inductive
    <2>2. ASSUME NEW x
          PROVE  /\ IsSequence([loads EXCEPT ![Top] = x])
                 /\ Len([loads EXCEPT ![Top] = x]) = Len(loads)
                 /\ [loads EXCEPT ![Top] = x][Top] = x
                 /\ \A j \in 1 .. Len(loads) : j # Top => [loads EXCEPT ![Top] = x][j] = loads[j]
      <3>1. Top \in 1 .. Len(loads)
        BY <1>1
      <3> HIDE DEF r, q
      <3> QED
        BY <2>1, <3>1, LoadChanged
    <2> HIDE DEF q
    <2> QED
      BY <1>3, <2>2
  <1> HIDE DEF q
  <1>5. LoadsOK' /\ StackOK'
    <2>1. IsLoad(q, Top, Len(loads))
      BY <1>1, <1>2 DEF IsLoad
    <2> QED
      BY <1>1, <1>3, <1>4, <2>1 DEF Inductive, LoadsOK, StackOK
  <1>6. /\ \A k \in Key : k # r.key => cache'[k] = cache[k]
        /\ r.sync /\ r.object.assigned => cache'[r.key] = r.object
        /\ ~(r.sync /\ r.object.assigned) => cache'[r.key] = cache[r.key]
        /\ DOMAIN cache' = Key /\ r.key \in Key
        /\ r.object # NoObject /\ r.object.load = Top
    BY <1>1, <1>3 DEF SlotAfter, Inductive, CacheOK, IsLoad, ObjectOf, NoObject
  <1>7. CacheOK'
    BY <1>1, <1>4, <1>6 DEF Inductive, CacheOK, IsLoad
  <1>8. \A j \in 1 .. Len(loads) :
            loads'[j].key = loads[j].key /\ loads'[j].sync = loads[j].sync
            /\ loads'[j].object = loads[j].object
            /\ (loads[j].at = "done" => loads'[j].at = "done")
            /\ (loads'[j].at = "done" => loads[j].at = "done" \/ j = Top)
    BY <1>2, <1>4
  <1>9. Remembered' /\ OneInstance'
    BY <1>3, <1>4, <1>6, <1>8 DEF Inductive, LoadsOK, IsLoad, Remembered, OneInstance, Invalidated
  <1>10. CacheFinal'
    <2> SUFFICES ASSUME NEW k \in Key, cache'[k] # NoObject
                 PROVE  /\ loads'[cache'[k].load].key = k
                        /\ cache'[k].assigned => loads'[cache'[k].load].at = "done"
                        /\ IsFinal(cache[k])'
      BY DEF CacheFinal, Holder
    <2>1. CASE k = r.key /\ r.sync /\ r.object.assigned
      <3>1. cache'[k] = r.object /\ loads'[cache'[k].load] = q
        BY <1>4, <1>6, <2>1
      <3> HIDE DEF r
      <3> QED
        BY <1>2, <2>1, <3>1 DEF IsFinal, Holder
    <2>2. CASE ~(k = r.key /\ r.sync /\ r.object.assigned)
      <3>1. cache'[k] = cache[k]
        BY <1>6, <2>2
      <3>2. cache[k].load \in 1 .. Len(loads) /\ cache[k] \in ObjectOf(cache[k].load)
        BY <3>1 DEF Inductive, CacheOK
      <3>3. CASE cache[k].load # Top
        BY <1>4, <3>1, <3>2, <3>3 DEF Inductive, CacheFinal, IsFinal, Holder
      <3>4. CASE cache[k].load = Top
        <4>1. k = r.key /\ cache[k].assigned = FALSE /\ ~(r.sync /\ r.object.assigned)
          BY <1>1, <2>2, <3>1, <3>2, <3>4 DEF Inductive, CacheFinal, Holder, ObjectOf
        <4>2. ~r.object.assigned => cache[k] = r.object
          BY <1>1, <3>2, <3>4, <4>1 DEF IsLoad, ObjectOf
        <4> QED
          BY <1>1, <1>2, <1>4, <3>1, <3>4, <4>1, <4>2 DEF IsFinal, Holder
      <3> QED
        BY <3>3, <3>4
    <2> QED
      BY <2>1, <2>2
  <1>11. \A x \in receipts' :
            \/ x \in receipts
            \/ x.object = r.object /\ x.ended
    BY DEF Finish
  <1>12. ReceiptsTrue' /\ LateImportersGetFinal'
    BY SMTT(30), <1>1, <1>2, <1>4, <1>6, <1>8, <1>11
       DEF Inductive, ReceiptsTrue, LateImportersGetFinal, Holder
  <1> QED
    BY <1>5, <1>7, <1>9, <1>10, <1>12 DEF Inductive
-----------------------------------------------------------------------------
(* A receipt is true when it is written.                                    *)
LEMMA GivenTrue ==
    ASSUME NEW i, NEW o
    PROVE  Given(i, o).object = o /\ (Given(i, o).ended => Holder(o).at = "done")
  BY DEF Given

(* An edit of the record of one load, handing out the exports of load c.    *)
LEMMA EditStep ==
    ASSUME Inductive, UNCHANGED <<mocks, cache>>,
           NEW i \in 1 .. Len(loads), NEW q, loads[i].at # "done",
           Edited(q, loads[i], i, Len(loads)), loads' = [loads EXCEPT ![i] = q],
           stack' \in Seq(1 .. Len(loads)),
           NEW c, \A x \in receipts' \ receipts :
                      c \in 1 .. Len(loads) /\ x = Given(i, loads[c].object)
    PROVE  Inductive'
  <1>1. \A x \in receipts' \ receipts :
            /\ x.object.load \in 1 .. Len(loads)
            /\ x.ended => Holder(x.object).at = "done"
            /\ IsFinal(x.object)
    <2> SUFFICES ASSUME NEW x \in receipts' \ receipts
                 PROVE  /\ x.object.load \in 1 .. Len(loads)
                        /\ x.ended => Holder(x.object).at = "done"
                        /\ IsFinal(x.object)
      OBVIOUS
    <2>1. x.object = loads[c].object /\ (x.ended => Holder(x.object).at = "done")
      BY GivenTrue
    <2>2. c \in 1 .. Len(loads) /\ loads[c].object.load = c
      BY DEF Inductive, LoadsOK, IsLoad, ObjectOf
    <2> QED
      BY <2>1, <2>2 DEF IsFinal, Holder
  <1>2. /\ IsLoad(q, i, Len(loads)) /\ q.key = loads[i].key /\ q.sync = loads[i].sync
        /\ q.at # "done"
    BY DEF Edited
  <1> QED
    BY <1>1, <1>2, QuietStep

(* mock.module makes the cache forget paths, for a reason that lasts.       *)
LEMMA MockStep ==
    ASSUME Inductive, receipts' = receipts,
           NEW i \in 1 .. Len(loads), NEW r, loads' = [loads EXCEPT ![i] = r],
           IsLoad(r, i, Len(loads)), r.key = loads[i].key, r.sync = loads[i].sync,
           r.at # "done", loads[i].at # "done",
           stack' \in Seq(1 .. Len(loads)),
           NEW s, mocks' = mocks \cup {s},
           cache' = [k \in Key |-> IF k \in Invalidated(s) THEN NoObject ELSE cache[k]]
    PROVE  Inductive'
  <1>1. /\ IsSequence(loads')
        /\ Len(loads') = Len(loads)
        /\ loads'[i] = r
        /\ \A j \in 1 .. Len(loads) : j # i => loads'[j] = loads[j]
    <2>1. LoadsOK
      BY DEF Inductive
    <2>2. /\ IsSequence([loads EXCEPT ![i] = r])
          /\ Len([loads EXCEPT ![i] = r]) = Len(loads)
          /\ [loads EXCEPT ![i] = r][i] = r
          /\ \A j \in 1 .. Len(loads) : j # i => [loads EXCEPT ![i] = r][j] = loads[j]
      BY <2>1, LoadChanged
    <2> QED
      BY <2>2
  <1>2. \A j \in 1 .. Len(loads) :
            /\ loads'[j].key = loads[j].key /\ loads'[j].sync = loads[j].sync
            /\ loads'[j].at = "done" => loads'[j] = loads[j]
            /\ loads[j].at = "done" => loads'[j] = loads[j]
    BY <1>1
  <1>3. /\ DOMAIN cache' = Key
        /\ \A k \in Key : cache'[k] # NoObject => cache'[k] = cache[k]
        /\ \A k \in Key : cache'[k] = NoObject => cache[k] = NoObject \/ k \in Invalidated(s)
    OBVIOUS
  <1>4. LoadsOK' /\ StackOK'
    BY <1>1 DEF Inductive, LoadsOK, StackOK
  <1>5. CacheOK'
    BY <1>1, <1>3 DEF Inductive, CacheOK
  <1>6. Remembered'
    <2> SUFFICES ASSUME NEW j \in 1 .. Len(loads), cache'[loads'[j].key] = NoObject
                 PROVE  \E x \in mocks' : loads'[j].key \in Invalidated(x)
      BY <1>1 DEF Remembered, Invalidated
    <2>1. loads'[j].key = loads[j].key /\ loads[j].key \in Key
      BY <1>2 DEF Inductive, LoadsOK, IsLoad
    <2> QED
      BY <1>3, <2>1 DEF Inductive, Remembered
  <1>7. OneInstance'
    BY <1>1, <1>2 DEF Inductive, OneInstance, Invalidated
  <1>8. CacheFinal'
    BY <1>1, <1>2, <1>3 DEF Inductive, CacheOK, CacheFinal, IsFinal, Holder
  <1>9. ReceiptsTrue' /\ LateImportersGetFinal'
    BY <1>1, <1>2 DEF Inductive, ReceiptsTrue, LateImportersGetFinal, Holder
  <1> QED
    BY <1>4, <1>5, <1>6, <1>7, <1>8, <1>9 DEF Inductive

-----------------------------------------------------------------------------
(* The actions: a statement that is not a request.                          *)
LEMMA StatementStep ==
    ASSUME Inductive, RunStatement
    PROVE  Inductive'
  <1> DEFINE r == loads[Top]
  <1>1. /\ stack # <<>> /\ r.at = "run" /\ receipts' = receipts
        /\ IsLoad(r, Top, Len(loads)) /\ Top \in 1 .. Len(loads)
        /\ Pop \in Seq(1 .. Len(loads)) /\ stack \in Seq(1 .. Len(loads))
    BY TopRecord DEF RunStatement, Running
  <1>2. CASE /\ loads' = [loads EXCEPT ![Top].at = "pause"]
             /\ stack' = Pop /\ UNCHANGED <<mocks, cache>>
    <2> DEFINE q == [r EXCEPT !.at = "pause"]
    <2>1. Edited(q, r, Top, Len(loads))
      BY <1>1, Staged
    <2>2. loads' = [loads EXCEPT ![Top] = q]
      BY <1>2
    <2> QED
      BY <1>1, <1>2, <2>1, <2>2, EditStep
  <1>3. CASE /\ loads' = [loads EXCEPT ![Top] = Assigns(@)]
             /\ UNCHANGED <<mocks, cache, stack>>
    <2> DEFINE q == Assigns(r)
    <2>1. Edited(q, r, Top, Len(loads))
      BY <1>1, WentOn
    <2>2. loads' = [loads EXCEPT ![Top] = q]
      BY <1>3
    <2> QED
      BY <1>1, <1>3, <2>1, <2>2, EditStep
  <1>4. CASE Throws /\ UNCHANGED <<mocks, cache>>
    <2> DEFINE q == [r EXCEPT !.at = "failed"]
    <2>1. Edited(q, r, Top, Len(loads))
      BY <1>1, Staged
    <2>2. loads' = [loads EXCEPT ![Top] = q] /\ stack' = Pop
      BY <1>4 DEF Throws
    <2> QED
      BY <1>1, <1>4, <2>1, <2>2, EditStep
  <1>5. CASE /\ mocks' = mocks \cup {Current.spec}
             /\ cache' = [k \in Key |-> IF k \in Invalidated(Current.spec)
                                        THEN NoObject ELSE cache[k]]
             /\ loads' = [loads EXCEPT ![Top] = GoesOn(@)]
             /\ stack' = stack
    <2> DEFINE q == GoesOn(r)
    <2>1. Edited(q, r, Top, Len(loads))
      BY <1>1, WentOn
    <2>2. loads' = [loads EXCEPT ![Top] = q]
      BY <1>5
    <2> QED
      BY <1>1, <1>5, <2>1, <2>2, MockStep DEF Edited
  <1> QED
    BY <1>2, <1>3, <1>4, <1>5 DEF RunStatement

(* A specifier that is mocked.                                              *)
LEMMA MockedStep ==
    ASSUME Inductive, RequestMock
    PROVE  Inductive'
  <1> DEFINE r == loads[Top]
  <1>1. /\ stack # <<>> /\ r.at = "run" /\ UNCHANGED <<mocks, cache>>
        /\ IsLoad(r, Top, Len(loads)) /\ Top \in 1 .. Len(loads)
        /\ stack \in Seq(1 .. Len(loads)) /\ 0 \in 0 .. Len(loads)
    BY TopRecord DEF RequestMock, Requesting, Running
  <1>2. CASE Current.op = "require"
    <2> DEFINE q == [r EXCEPT !.at = "block", !.wait = 0]
    <2>1. Edited(q, r, Top, Len(loads))
      BY <1>1, Waiting
    <2>2. loads' = [loads EXCEPT ![Top] = q] /\ UNCHANGED <<stack, receipts>>
      BY <1>2 DEF RequestMock
    <2> QED
      BY <1>1, <2>1, <2>2, EditStep
  <1>3. CASE Current.op # "require"
    <2>1. Answer({})
      BY <1>3 DEF RequestMock
    <2> QED
      BY <1>1, <2>1, AnswerStep
  <1> QED
    BY <1>2, <1>3

(* A specifier of a builtin, or of nothing.                                 *)
LEMMA BuiltinStep ==
    ASSUME Inductive, RequestBuiltin
    PROVE  Inductive'
  <1>1. stack # <<>> /\ loads[Top].at = "run" /\ UNCHANGED <<mocks, cache>>
    BY DEF RequestBuiltin, Requesting, Running
  <1>2. CASE Answer({})
    BY <1>1, <1>2, AnswerStep
  <1>3. CASE RequestFails(loads)
    BY <1>1, <1>3, FailStep
  <1> QED
    BY <1>2, <1>3 DEF RequestBuiltin

(* The path of a specifier.                                                 *)
LEMMA Resolves ==
    ASSUME NEW spec \in FileSpec
    PROVE  resolve(spec) \in Key
  BY DEF FileSpec, resolve, Key

(* A specifier of a file in the cache.                                      *)
LEMMA CachedStep ==
    ASSUME Inductive, RequestCached
    PROVE  Inductive'
  <1> DEFINE o == cache[resolve(Current.spec)]
  <1>1. stack # <<>> /\ loads[Top].at = "run" /\ UNCHANGED <<mocks, cache>>
    BY DEF RequestCached, Requesting, Running
  <1>2. resolve(Current.spec) \in Key /\ o # NoObject /\ Answer({o})
    BY Resolves DEF RequestCached
  <1>3. o.load \in 1 .. Len(loads) /\ IsFinal(o)
    BY <1>2 DEF Inductive, CacheOK, CacheFinal
  <1> HIDE DEF o
  <1> QED
    BY <1>1, <1>2, <1>3, AnswerStep

(* The wrapper of a load returns to its importer.                           *)
LEMMA ReturnStep ==
    ASSUME Inductive, Returned
    PROVE  Inductive'
  <1> DEFINE r == loads[Top]
             c == r.wait
  <1>1. /\ stack # <<>> /\ r.at = "call" /\ UNCHANGED <<mocks, cache>>
        /\ IsLoad(r, Top, Len(loads)) /\ Top \in 1 .. Len(loads)
        /\ Pop \in Seq(1 .. Len(loads)) /\ stack \in Seq(1 .. Len(loads))
    BY TopRecord DEF Returned
  <1>2. c \in 1 .. Len(loads) /\ c # 0
    BY <1>1 DEF IsLoad
  <1>3. loads[c].object.load \in 1 .. Len(loads) /\ IsFinal(loads[c].object)
    BY <1>2 DEF Inductive, LoadsOK, IsLoad, ObjectOf, IsFinal, Holder
  <1>4. CASE RequestFails(loads)
    BY <1>1, <1>4, FailStep
  <1>5. CASE Answer({loads[c].object})
    BY <1>1, <1>3, <1>5, AnswerStep
  <1>6. CASE loads' = [loads EXCEPT ![Top].at = "await"] /\ stack' = Pop /\ receipts' = receipts
    <2> DEFINE q == [r EXCEPT !.at = "await"]
    <2>1. Edited(q, r, Top, Len(loads))
      BY <1>1, Staged
    <2>2. loads' = [loads EXCEPT ![Top] = q]
      BY <1>6
    <2> QED
      BY <1>1, <1>6, <2>1, <2>2, EditStep
  <1>7. CASE loads' = [loads EXCEPT ![Top].at = "block"] /\ UNCHANGED <<stack, receipts>>
    <2> DEFINE q == [r EXCEPT !.at = "block"]
    <2>1. Edited(q, r, Top, Len(loads))
      BY <1>1, Staged
    <2>2. loads' = [loads EXCEPT ![Top] = q]
      BY <1>7
    <2> QED
      BY <1>1, <1>7, <2>1, <2>2, EditStep
  <1>8. CASE /\ loads' = [loads EXCEPT ![Top] = GoesOn(@)]
             /\ receipts' = IF loads[c].at = "done"
                            THEN receipts \cup {Given(Top, loads[c].object)} ELSE receipts
             /\ stack' = stack
    <2> DEFINE q == GoesOn(r)
    <2>1. Edited(q, r, Top, Len(loads))
      BY <1>1, WentOn
    <2>2. loads' = [loads EXCEPT ![Top] = q]
      BY <1>8
    <2>3. \A x \in receipts' \ receipts :
              c \in 1 .. Len(loads) /\ x = Given(Top, loads[c].object)
      BY <1>2, <1>8
    <2> QED
      BY <1>1, <1>8, <2>1, <2>2, <2>3, EditStep
  <1> QED
    BY <1>4, <1>5, <1>6, <1>7, <1>8 DEF Returned

(* A require() stops waiting.                                               *)
LEMMA UnblockStep ==
    ASSUME Inductive, Unblock
    PROVE  Inductive'
  <1> DEFINE c == loads[Top].wait
             objs == IF c = 0 THEN {} ELSE {loads[c].object}
  <1>1. /\ stack # <<>> /\ loads[Top].at = "block" /\ UNCHANGED <<mocks, cache>>
        /\ IsLoad(loads[Top], Top, Len(loads))
    BY TopRecord DEF Unblock
  <1>2. CASE RequestFails(loads)
    BY <1>1, <1>2, FailStep
  <1>3. CASE Answer(objs)
    <2>1. ASSUME c # 0
          PROVE  loads[c].object.load \in 1 .. Len(loads) /\ IsFinal(loads[c].object)
      <3>1. c \in 1 .. Len(loads)
        BY <1>1, <2>1 DEF IsLoad
      <3> QED
        BY <3>1 DEF Inductive, LoadsOK, IsLoad, ObjectOf, IsFinal, Holder
    <2>2. \A o \in objs : o.load \in 1 .. Len(loads) /\ IsFinal(o)
      BY <2>1
    <2> HIDE DEF objs
    <2> QED
      BY <1>1, <1>3, <2>2, AnswerStep
  <1> QED
    BY <1>2, <1>3 DEF Unblock

(* A body that awaits continues or is rejected.                             *)
LEMMA ResumeStep ==
    ASSUME Inductive, NEW i \in DOMAIN loads, Resume(i)
    PROVE  Inductive'
  <1> DEFINE r == loads[i]
             c == r.wait
  <1>1. i \in 1 .. Len(loads)
    <2>1. PICK S : loads \in Seq(S)
      BY DEF Inductive, LoadsOK, IsSequence
    <2> QED
      BY <2>1
  <1>2. /\ r.at \in {"pause", "await"} /\ UNCHANGED <<mocks, cache>>
        /\ IsLoad(r, i, Len(loads)) /\ stack \in Seq(1 .. Len(loads))
    BY <1>1 DEF Resume, Inductive, LoadsOK, StackOK
  <1>3. CASE loads' = [loads EXCEPT ![i].at = "failed"] /\ UNCHANGED <<stack, receipts>>
    <2> DEFINE q == [r EXCEPT !.at = "failed"]
    <2>1. Edited(q, r, i, Len(loads))
      BY <1>2, Staged
    <2>2. loads' = [loads EXCEPT ![i] = q]
      BY <1>3
    <2> QED
      BY <1>1, <1>2, <1>3, <2>1, <2>2, EditStep
  <1>4. CASE /\ loads' = [loads EXCEPT ![i] = GoesOn(@)]
             /\ stack' = Append(stack, i)
             /\ receipts' = IF r.at = "await" /\ c # 0
                            THEN receipts \cup {Given(i, loads[c].object)} ELSE receipts
    <2> DEFINE q == GoesOn(r)
    <2>1. Edited(q, r, i, Len(loads))
      BY <1>2, WentOn
    <2>2. loads' = [loads EXCEPT ![i] = q]
      BY <1>4
    <2>3. stack' \in Seq(1 .. Len(loads))
      BY <1>1, <1>2, <1>4
    <2>4. \A x \in receipts' \ receipts :
              c \in 1 .. Len(loads) /\ x = Given(i, loads[c].object)
      <3>1. c # 0 => c \in 1 .. Len(loads)
        BY <1>2 DEF IsLoad
      <3> QED
        BY <1>4, <3>1
    <2> QED
      BY <1>1, <1>2, <2>1, <2>2, <2>3, <2>4, EditStep
  <1> QED
    BY <1>3, <1>4 DEF Resume

(* A sequence over a set is one over a larger set.                          *)
LEMMA SeqGrows ==
    ASSUME NEW S, NEW T, S \subseteq T, NEW s \in Seq(S)
    PROVE  s \in Seq(T)
  OBVIOUS

(* A load starts: q is the record of the load that asked, added the new one. *)
Started(q, added) ==
    /\ Edited(q, loads[Top], Top, Len(loads) + 1)
    /\ IsLoad(added, Len(loads) + 1, Len(loads) + 1)
    /\ added.key = resolve(Current.spec) /\ added.at # "done"
    /\ IsSequence(loads') /\ Len(loads') = Len(loads) + 1
    /\ loads'[Len(loads) + 1] = added /\ loads'[Top] = q
    /\ \A j \in 1 .. Len(loads) : j # Top => loads'[j] = loads[j]
    /\ stack' \in Seq(1 .. Len(loads) + 1) /\ receipts' = receipts

(* It runs above the load that asked, or could not be prepared and the      *)
(* request failed.                                                          *)
HowStarted(q, added, new) ==
    \/ /\ q = [loads[Top] EXCEPT !.at = "call", !.wait = Len(loads) + 1]
       /\ added = new /\ stack' = Append(stack, Len(loads) + 1)
    \/ /\ q = [loads[Top] EXCEPT !.at = "failed"]
       /\ added = [new EXCEPT !.at = "failed"] /\ stack' = Pop
    \/ /\ q = GoesOn(loads[Top])
       /\ added = [new EXCEPT !.at = "failed"] /\ stack' = stack

(* A file that is not in the cache is prepared and its load starts.         *)
LEMMA LoadStarts ==
    ASSUME Inductive, RequestLoad
    PROVE  \E q, added :
              Started(q, added) /\ HowStarted(q, added, NewLoad(resolve(Current.spec), Top))
  <1> DEFINE k == resolve(Current.spec)
             n == Len(loads)
             r == loads[Top]
             new == NewLoad(k, Top)
             dead == [new EXCEPT !.at = "failed"]
  <1>1. /\ stack # <<>> /\ r.at = "run" /\ UNCHANGED <<mocks>>
        /\ IsLoad(r, Top, n) /\ Top \in 1 .. n
        /\ Pop \in Seq(1 .. n) /\ stack \in Seq(1 .. n)
    BY TopRecord DEF RequestLoad, Requesting, Running
  <1>2. /\ k \in Key /\ cache[k] = NoObject
        /\ cache' = [cache EXCEPT ![k] = [load |-> n + 1, assigned |-> FALSE]]
    BY Resolves DEF RequestLoad, Stashed
  <1>3. n \in Nat
    <2>1. PICK S : loads \in Seq(S)
      BY DEF Inductive, LoadsOK, IsSequence
    <2> QED
      BY <2>1
  <1>4. \A s \in Seq(1 .. n) : s \in Seq(1 .. n + 1) /\ Append(s, n + 1) \in Seq(1 .. n + 1)
    <2> HIDE DEF n
    <2>1. 1 .. n \subseteq 1 .. n + 1 /\ n + 1 \in 1 .. n + 1
      BY <1>3
    <2>2. \A s \in Seq(1 .. n) : s \in Seq(1 .. n + 1)
      BY <2>1, SeqGrows
    <2> QED
      BY <2>1, <2>2
  <1>5. IsLoad(new, n + 1, n + 1) /\ new.key = k /\ new.at = "run"
    <2>1. /\ DOMAIN new = Fields /\ new.key = k /\ new.at = "run" /\ new.wait = 0
          /\ new.object = [load |-> n + 1, assigned |-> FALSE]
      BY DEF NewLoad, Fields
    <2>2. 0 \in 0 .. n + 1
      BY <1>3
    <2> HIDE DEF new
    <2> QED
      BY <1>2, <2>1, <2>2 DEF IsLoad, ObjectOf
  <1>6. Edited(dead, new, n + 1, n + 1)
    <2> HIDE DEF new
    <2> QED
      BY <1>5, Staged
  <1>7. IsLoad(r, Top, n + 1)
    BY <1>1, <1>3 DEF IsLoad
  <1> SUFFICES \E p, x : Started(p, x) /\ HowStarted(p, x, new)
    OBVIOUS
  <1> HIDE DEF k, new, dead
  <1>8. ASSUME NEW q, Edited(q, r, Top, n + 1), NEW added, IsLoad(added, n + 1, n + 1),
               added.key = k, added.at # "done",
               IsSequence(loads'), Len(loads') = n + 1, loads'[n + 1] = added, loads'[Top] = q,
               \A j \in 1 .. n : j # Top => loads'[j] = loads[j],
               stack' \in Seq(1 .. n + 1), receipts' = receipts,
               HowStarted(q, added, new)
        PROVE  \E p, x : Started(p, x) /\ HowStarted(p, x, new)
    <2>1. Started(q, added)
      BY <1>8 DEF Started, k
    <2> QED
      BY <1>8, <2>1
  <1>9. IsSequence(loads) /\ Top \in 1 .. n /\ Top # n + 1 /\ Top \in 1 .. n + 1
        /\ 1 .. n \subseteq 1 .. n + 1 /\ \A j \in 1 .. n : j # n + 1
    <2>1. IsSequence(loads) /\ Top \in 1 .. n
      BY <1>1 DEF Inductive, LoadsOK
    <2> HIDE DEF n
    <2> QED
      BY <1>3, <2>1
  <1>10. CASE RequestFails(Append(loads, dead))
    <2> DEFINE s == Append(loads, dead)
    <2>1. /\ dead.key = k /\ dead.at # "done" /\ IsLoad(dead, n + 1, n + 1)
      BY <1>5, <1>6 DEF Edited
    <2>2. /\ IsSequence(s) /\ Len(s) = n + 1 /\ s[n + 1] = dead
          /\ \A j \in 1 .. n : s[j] = loads[j]
      BY <1>9, LoadAdded
    <2>3. s[Top] = r /\ n + 1 \in 1 .. n + 1
      BY <1>3, <1>9, <2>2
    <2> HIDE DEF s
    <2>4. ASSUME NEW q
          PROVE  LET t == [s EXCEPT ![Top] = q] IN
                 /\ IsSequence(t) /\ Len(t) = n + 1 /\ t[n + 1] = dead /\ t[Top] = q
                 /\ \A j \in 1 .. n : j # Top => t[j] = loads[j]
      <3>1. Top \in 1 .. Len(s)
        BY <1>9, <2>2
      <3>2. /\ IsSequence([s EXCEPT ![Top] = q])
            /\ Len([s EXCEPT ![Top] = q]) = Len(s)
            /\ [s EXCEPT ![Top] = q][Top] = q
            /\ \A j \in 1 .. Len(s) : j # Top => [s EXCEPT ![Top] = q][j] = s[j]
        <4>1. IsSequence(s)
          BY <2>2
        <4> HIDE DEF n, r
        <4> QED
          BY <3>1, <4>1, ElementChanged
      <3> HIDE DEF n
      <3> QED
        BY <1>9, <2>2, <2>3, <3>2
    <2>5. receipts' = receipts /\ stack' \in Seq(1 .. n + 1)
      BY <1>1, <1>4, <1>10 DEF RequestFails
    <2>6. CASE loads' = [s EXCEPT ![Top].at = "failed"] /\ stack' = Pop
      <3> DEFINE q == [r EXCEPT !.at = "failed"]
      <3>1. Edited(q, r, Top, n + 1)
        BY <1>7, Staged
      <3>2. loads' = [s EXCEPT ![Top] = q]
        BY <2>3, <2>6
      <3>3. HowStarted(q, dead, new)
        BY <2>6 DEF HowStarted, dead
      <3> HIDE DEF q
      <3>4. /\ IsSequence(loads') /\ Len(loads') = n + 1 /\ loads'[n + 1] = dead
            /\ loads'[Top] = q /\ \A j \in 1 .. n : j # Top => loads'[j] = loads[j]
        BY <2>4, <3>2
      <3> QED
        BY <1>8, <2>1, <2>5, <3>1, <3>3, <3>4
    <2>7. CASE loads' = [s EXCEPT ![Top] = GoesOn(@)] /\ stack' = stack
      <3> DEFINE q == GoesOn(r)
      <3>1. Edited(q, r, Top, n + 1)
        BY <1>7, WentOn
      <3>2. loads' = [s EXCEPT ![Top] = q]
        BY <2>3, <2>7
      <3>3. HowStarted(q, dead, new)
        BY <2>7 DEF HowStarted, dead
      <3> HIDE DEF q
      <3>4. /\ IsSequence(loads') /\ Len(loads') = n + 1 /\ loads'[n + 1] = dead
            /\ loads'[Top] = q /\ \A j \in 1 .. n : j # Top => loads'[j] = loads[j]
        BY <2>4, <3>2
      <3> QED
        BY <1>8, <2>1, <2>5, <3>1, <3>3, <3>4
    <2> QED
      BY <1>10, <2>6, <2>7 DEF RequestFails, s
  <1>11. CASE /\ loads' = Append([loads EXCEPT ![Top] = [@ EXCEPT !.at = "call", !.wait = n + 1]], new)
              /\ stack' = Append(stack, n + 1) /\ receipts' = receipts
    <2> DEFINE q == [r EXCEPT !.at = "call", !.wait = n + 1]
               s == [loads EXCEPT ![Top] = q]
    <2>1. n + 1 \in 0 .. n + 1 /\ n + 1 # 0
      BY <1>3
    <2>2. Edited(q, r, Top, n + 1)
      BY <1>7, <2>1, Waiting
    <2>3. loads' = Append(s, new)
      BY <1>11
    <2>4. stack' \in Seq(1 .. n + 1)
      BY <1>1, <1>4, <1>11
    <2>5. new.at # "done" /\ HowStarted(q, new, new)
      BY <1>5, <1>11 DEF HowStarted
    <2> HIDE DEF q
    <2>6. /\ IsSequence(s) /\ Len(s) = n /\ s[Top] = q
          /\ \A j \in 1 .. n : j # Top => s[j] = loads[j]
      BY <1>9, ElementChanged
    <2> HIDE DEF s
    <2>7. /\ IsSequence(loads') /\ Len(loads') = n + 1 /\ loads'[n + 1] = new
          /\ \A j \in 1 .. n : loads'[j] = s[j]
      BY <2>3, <2>6, LoadAdded
    <2> QED
      BY <1>5, <1>8, <1>9, <1>11, <2>2, <2>4, <2>5, <2>6, <2>7
  <1> QED
    BY <1>10, <1>11 DEF RequestLoad, k, new, dead

LEMMA LoadStep ==
    ASSUME Inductive, RequestLoad
    PROVE  Inductive'
  <1> DEFINE k == resolve(Current.spec)  n == Len(loads)  r == loads[Top]
  <1>1. /\ stack # <<>> /\ r.at = "run" /\ UNCHANGED <<mocks>> /\ Top \in 1 .. n
        /\ IsLoad(r, Top, n)
    BY TopRecord DEF RequestLoad, Requesting, Running
  <1>2. /\ k \in Key /\ cache[k] = NoObject
        /\ cache' = [cache EXCEPT ![k] = [load |-> n + 1, assigned |-> FALSE]]
    BY Resolves DEF RequestLoad, Stashed
  <1>3. PICK q, added : Started(q, added)
    BY LoadStarts
  <1>4. /\ IsLoad(q, Top, n + 1) /\ q.key = r.key /\ q.sync = r.sync /\ q.at # "done"
        /\ IsLoad(added, n + 1, n + 1) /\ added.key = k /\ added.at # "done"
        /\ IsSequence(loads') /\ Len(loads') = n + 1 /\ loads'[n + 1] = added /\ loads'[Top] = q
        /\ \A j \in 1 .. n : j # Top => loads'[j] = loads[j]
        /\ stack' \in Seq(1 .. n + 1) /\ receipts' = receipts
    BY <1>3 DEF Started, Edited
  <1> HIDE DEF k, r
  <1> QED
    BY <1>1, <1>2, <1>4, NewLoadStep DEF r

-----------------------------------------------------------------------------
(* Nothing changes.                                                         *)
LEMMA StutterStep ==
    ASSUME Inductive, UNCHANGED vars
    PROVE  Inductive'
  BY DEF vars, Inductive, LoadsOK, StackOK, CacheOK, Remembered, OneInstance, Invalidated,
         CacheFinal, IsFinal, ReceiptsTrue, LateImportersGetFinal, Holder

(* Every step keeps the invariant.                                          *)
LEMMA NextKeeps ==
    Inductive /\ [Next]_vars => Inductive'
  <1> SUFFICES ASSUME Inductive, [Next]_vars
               PROVE  Inductive'
    OBVIOUS
  <1>1. CASE Idle
    BY <1>1, StutterStep DEF Idle
  <1> QED
    BY <1>1, StutterStep, MockedStep, BuiltinStep, CachedStep, LoadStep, ReturnStep,
       StatementStep, FinishStep, UnblockStep, ResumeStep DEF Next

(* The invariant holds in the initial states.                               *)
LEMMA InitHolds ==
    Init => Inductive
  <1> SUFFICES ASSUME Init
               PROVE  Inductive
    OBVIOUS
  <1> DEFINE r == loads[1]
             k == [file |-> Entry, dotted |-> FALSE]
  <1>1. /\ loads = <<r>> /\ Len(loads) = 1 /\ DOMAIN loads = {1} /\ 1 .. Len(loads) = {1}
        /\ DOMAIN r = Fields /\ r.key = k /\ r.at = "run" /\ r.wait = 0
        /\ r.object = [load |-> 1, assigned |-> FALSE]
    <2> DEFINE q == [key |-> k, todo |-> Prepared(Entry), sync |-> is_sync(Entry), at |-> "run",
                     wait |-> 0, object |-> [load |-> 1, assigned |-> FALSE], by |-> 0]
    <2>1. /\ DOMAIN q = Fields /\ q.key = k /\ q.at = "run" /\ q.wait = 0
          /\ q.object = [load |-> 1, assigned |-> FALSE]
      BY DEF Fields
    <2>2. loads = <<q>>
      BY DEF Init
    <2> HIDE DEF q
    <2>3. r = q /\ loads = <<r>> /\ Len(loads) = 1 /\ DOMAIN loads = {1} /\ 1 .. Len(loads) = {1}
      BY <2>2
    <2> HIDE DEF r, k
    <2> QED
      BY <2>1, <2>3
  <1>2. /\ k \in Key /\ cache[k] = [load |-> 1, assigned |-> FALSE] /\ DOMAIN cache = Key
        /\ cache[k] # NoObject
        /\ \A x \in Key : x # k => cache[x] = NoObject
    <2>1. k \in Key
      BY EntryAssumption DEF Key
    <2>2. cache = [x \in Key |-> IF x = k THEN [load |-> 1, assigned |-> FALSE] ELSE NoObject]
      BY DEF Init
    <2> HIDE DEF k
    <2>3. [load |-> 1, assigned |-> FALSE] # NoObject
      BY DEF NoObject
    <2> QED
      BY <2>1, <2>2, <2>3
  <1>3. receipts = {} /\ stack \in Seq(1 .. 1)
    BY DEF Init
  <1> HIDE DEF r, k
  <1>4. LoadsOK
    <2>1. IsSequence(loads)
      <3>1. <<r>> \in Seq({r})
        OBVIOUS
      <3> QED
        BY <1>1, <3>1 DEF IsSequence
    <2>2. IsLoad(r, 1, 1)
      BY <1>1, <1>2 DEF IsLoad, ObjectOf
    <2> QED
      BY <1>1, <2>1, <2>2 DEF LoadsOK, r
  <1>5. StackOK
    BY <1>1, <1>3 DEF StackOK
  <1>6. CacheOK
    <2>1. cache[k].load = 1 /\ cache[k] \in ObjectOf(1)
      BY <1>2 DEF ObjectOf
    <2> QED
      BY <1>1, <1>2, <2>1 DEF CacheOK
  <1>7. Remembered /\ OneInstance
    BY <1>1, <1>2 DEF Remembered, OneInstance, r
  <1>8. CacheFinal
    BY <1>1, <1>2 DEF CacheFinal, IsFinal, Holder, r
  <1>9. ReceiptsTrue /\ LateImportersGetFinal
    BY <1>3 DEF ReceiptsTrue, LateImportersGetFinal
  <1> QED
    BY <1>4, <1>5, <1>6, <1>7, <1>8, <1>9 DEF Inductive

(* It is an invariant of the specification.                                 *)
LEMMA InductiveHolds == Spec => []Inductive
  BY InitHolds, NextKeeps, PTL DEF Spec

(* A module body is evaluated once, however many modules import it, in      *)
(* cycles, concurrently and after failures, unless mock.module drops it.    *)
THEOREM BodiesRunOnce == Spec => []OneInstance
  <1>1. Inductive => OneInstance
    BY DEF Inductive
  <1> QED
    BY InductiveHolds, <1>1, PTL

(* An importer that is answered after a module has finished gets what the   *)
(* module exports in the end (the async wrapper that assigns                *)
(* module.exports excepted).                                                *)
THEOREM LateImportersServed == Spec => []LateImportersGetFinal
  <1>1. Inductive => LateImportersGetFinal
    BY DEF Inductive
  <1> QED
    BY InductiveHolds, <1>1, PTL

-----------------------------------------------------------------------------
(* SyncPartialsAreCycles.  As long as no module is async no body leaves the *)
(* stack before it ends, so a load that has not ended is on it, and every   *)
(* load on it was started for all those below.                              *)

AllSync(s) == \A i \in 1 .. Len(s) : s[i].sync

(* The loads that load i was started for, by the records of s.              *)
UpFrom(s, i) ==
    {x \in DOMAIN s :
        \A S \in SUBSET DOMAIN s : (\A k \in S \cup {i} : s[k].by \in S \cup {0}) => x \in S}

(* The record of a load that never leaves the stack before it ends.         *)
Live(r) == r.at \notin {"done", "failed"}
Plain(r) ==
    /\ r.at \notin {"await", "pause"}
    /\ IsSequence(r.todo)
    /\ r.at \in {"call", "block"} => r.todo # <<>>
    /\ \A n \in 1 .. Len(r.todo) : r.todo[n].op \notin {"import", "pause"}

(* What an importer was given: finished, failed, or the reason it runs.     *)
Seen(s, x) ==
    \/ x.ended
    \/ s[x.object.load].at = "failed"
    \/ x.by \in 1 .. Len(s) /\ x.object.load \in {x.by} \cup UpFrom(s, x.by)

Begun == text \in Programs /\ \A i \in 1 .. Len(loads) : loads[i].by \in 0 .. Len(loads)

(* The stack st holds the loads of s that have not ended, nested.           *)
NestedIn(s, st) ==
    /\ \A i \in 1 .. Len(s) : Plain(s[i])
    /\ \A i \in 1 .. Len(s) : Live(s[i]) => \E n \in 1 .. Len(st) : st[n] = i
    /\ \A n \in 1 .. Len(st) : \A m \in 1 .. n : st[m] \in {st[n]} \cup UpFrom(s, st[n])

SyncNested ==
    AllSync(loads) => NestedIn(loads, stack) /\ \A x \in receipts : Seen(loads, x)

SyncInductive == Begun /\ SyncNested

(* The loads one was started for stay the same when others start, and a new *)
(* load is started for the load that asked and for those behind it.         *)
LEMMA UpGrows ==
    ASSUME NEW n \in Nat, NEW m \in Nat, NEW s, NEW t,
           DOMAIN s = 1 .. n, DOMAIN t = 1 .. m, n <= m,
           \A j \in 1 .. n : t[j].by = s[j].by /\ s[j].by \in 0 .. n
    PROVE  /\ \A i \in 1 .. n : UpFrom(s, i) \subseteq UpFrom(t, i)
           /\ \A i \in 1 .. m : t[i].by \in 1 .. n =>
                  {t[i].by} \cup UpFrom(s, t[i].by) \subseteq UpFrom(t, i)
  <1>1. 1 .. n \subseteq 1 .. m /\ \A j \in 0 .. n : j \in 1 .. n \/ j = 0
    OBVIOUS
  <1>2. ASSUME NEW i \in 1 .. n, NEW x \in UpFrom(s, i), NEW S \in SUBSET (1 .. m),
               \A k \in S \cup {i} : t[k].by \in S \cup {0}
        PROVE  x \in S /\ x \in 1 .. m
    <2> DEFINE R == S \cap (1 .. n)
    <2>1. \A k \in R \cup {i} : s[k].by \in R \cup {0}
      <3> SUFFICES ASSUME NEW k \in R \cup {i}
                   PROVE  s[k].by \in R \cup {0}
        OBVIOUS
      <3>1. k \in 1 .. n /\ k \in S \cup {i}
        OBVIOUS
      <3>2. t[k].by \in S \cup {0} /\ t[k].by = s[k].by /\ s[k].by \in 0 .. n
        BY <1>2, <3>1
      <3> QED
        BY <1>1, <3>2
    <2>2. R \in SUBSET DOMAIN s /\ x \in DOMAIN s
      BY DEF UpFrom
    <2> HIDE DEF R
    <2>3. x \in R
      BY <2>1, <2>2 DEF UpFrom
    <2> QED
      BY <1>1, <2>2, <2>3 DEF R
  <1>3. \A i \in 1 .. n : UpFrom(s, i) \subseteq UpFrom(t, i)
    <2> SUFFICES ASSUME NEW i \in 1 .. n, NEW x \in UpFrom(s, i)
                 PROVE  x \in UpFrom(t, i)
      OBVIOUS
    <2>1. x \in 1 .. m
      <3>1. x \in DOMAIN s
        BY DEF UpFrom
      <3> QED
        BY <1>1, <3>1
    <2>2. \A S \in SUBSET (1 .. m) : (\A k \in S \cup {i} : t[k].by \in S \cup {0}) => x \in S
      BY <1>2
    <2> QED
      BY <2>1, <2>2 DEF UpFrom
  <1>4. ASSUME NEW i \in 1 .. m, t[i].by \in 1 .. n, NEW x \in {t[i].by} \cup UpFrom(s, t[i].by)
        PROVE  x \in UpFrom(t, i)
    <2>1. x \in 1 .. m
      <3>1. x \in DOMAIN s
        BY <1>4 DEF UpFrom
      <3> QED
        BY <1>1, <3>1
    <2>2. ASSUME NEW S \in SUBSET (1 .. m), \A k \in S \cup {i} : t[k].by \in S \cup {0}
          PROVE  x \in S
      <3>1. t[i].by \in S
        <4>1. t[i].by # 0
          BY <1>4
        <4> QED
          BY <2>2, <4>1
      <3>2. CASE x = t[i].by
        BY <3>1, <3>2
      <3>3. CASE x \in UpFrom(s, t[i].by)
        <4>1. \A k \in S \cup {t[i].by} : t[k].by \in S \cup {0}
          BY <2>2, <3>1
        <4> QED
          BY <1>2, <1>4, <3>3, <4>1
      <3> QED
        BY <1>4, <3>2, <3>3
    <2> QED
      BY <2>1, <2>2 DEF UpFrom
  <1> QED
    BY <1>3, <1>4

-----------------------------------------------------------------------------
(* What the rewriter makes of a module that is not async has no import.     *)
LEMMA PreparedPlain ==
    ASSUME text \in Programs, NEW m \in Module
    PROVE  /\ IsSequence(Prepared(m))
           /\ is_sync(m) => \A n \in 1 .. Len(Prepared(m)) :
                                Prepared(m)[n].op \notin {"import", "pause"}
  <1> DEFINE src == text[m].source
  <1>1. src \in Seq(Statement)
    <2>1. text[m] \in Text
      BY ProgramAssumption
    <2> QED
      BY <2>1 DEF Text
  <1>2. CASE text[m].ext = "js"
    <2> DEFINE a == Picked(src, static_imports(src))
               b == Picked(src, other_statements(src))
    <2>1. /\ static_imports(src) \in SUBSET (1 .. Len(src))
          /\ other_statements(src) \in SUBSET (1 .. Len(src))
      <3>1. DOMAIN src = 1 .. Len(src)
        BY <1>1
      <3> HIDE DEF src
      <3> QED
        BY <3>1 DEF static_imports, other_statements
    <2>2. Prepared(m) = a \o b
      BY <1>2 DEF Prepared, rewrite_static
    <2> HIDE DEF src
    <2>3. /\ a \in Seq(Statement) /\ b \in Seq(Statement)
          /\ \A n \in 1 .. Len(a) : \E i \in 1 .. Len(src) : a[n] = src[i]
          /\ \A n \in 1 .. Len(b) : \E i \in 1 .. Len(src) : b[n] = src[i]
      BY <1>1, <2>1, PickedKeeps
    <2> HIDE DEF a, b
    <2>4. /\ a \o b \in Seq(Statement)
          /\ \A n \in 1 .. Len(a \o b) : \E i \in 1 .. Len(src) : (a \o b)[n] = src[i]
      <3>1. ASSUME NEW n \in 1 .. Len(a \o b)
            PROVE  \/ n \in 1 .. Len(a) /\ (a \o b)[n] = a[n]
                   \/ n - Len(a) \in 1 .. Len(b) /\ (a \o b)[n] = b[n - Len(a)]
        BY <2>3
      <3>2. ASSUME NEW n \in 1 .. Len(a \o b)
            PROVE  \E i \in 1 .. Len(src) : (a \o b)[n] = src[i]
        <4>1. CASE n \in 1 .. Len(a) /\ (a \o b)[n] = a[n]
          BY <2>3, <4>1
        <4>2. CASE n - Len(a) \in 1 .. Len(b) /\ (a \o b)[n] = b[n - Len(a)]
          <5>1. PICK i \in 1 .. Len(src) : b[n - Len(a)] = src[i]
            BY <2>3, <4>2
          <5> QED
            BY <4>2, <5>1
        <4> QED
          BY <3>1, <4>1, <4>2
      <3>3. a \o b \in Seq(Statement)
        BY <2>3
      <3> QED
        BY <3>2, <3>3
    <2>5. is_sync(m) => \A i \in 1 .. Len(src) : src[i].op \notin {"import", "pause"}
      <3>1. DOMAIN src = 1 .. Len(src)
        BY <1>1
      <3> QED
        BY <1>2, <3>1 DEF is_sync, src
    <2>6. IsSequence(a \o b)
      BY <2>4 DEF IsSequence
    <2> QED
      BY <2>2, <2>4, <2>5, <2>6
  <1>3. CASE text[m].ext # "js"
    <2>1. PICK x \in {Throw(m), Assign(m)} : Prepared(m) = <<x>>
      BY <1>3 DEF Prepared
    <2>2. x.op \notin {"import", "pause"}
      BY <2>1 DEF Throw, Assign
    <2>3. <<x>> \in Seq({x}) /\ Len(<<x>>) = 1 /\ <<x>>[1] = x
      OBVIOUS
    <2>4. IsSequence(<<x>>)
      BY <2>3 DEF IsSequence
    <2> QED
      BY <2>1, <2>2, <2>3, <2>4
  <1> QED
    BY <1>2, <1>3

-----------------------------------------------------------------------------
(* What an edit of a record leaves alone.                                   *)
LEMMA EditKeeps ==
    ASSUME NEW r, DOMAIN r = Fields, NEW stage, NEW w
    PROVE  /\ [r EXCEPT !.at = stage].by = r.by
           /\ [r EXCEPT !.at = stage].todo = r.todo
           /\ [r EXCEPT !.at = stage].at = stage
           /\ [r EXCEPT !.at = stage].sync = r.sync
           /\ [r EXCEPT !.at = stage, !.wait = w].by = r.by
           /\ [r EXCEPT !.at = stage, !.wait = w].todo = r.todo
           /\ [r EXCEPT !.at = stage, !.wait = w].at = stage
           /\ GoesOn(r).by = r.by /\ GoesOn(r).todo = Tail(r.todo) /\ GoesOn(r).at = "run"
           /\ Assigns(r).by = r.by /\ Assigns(r).todo = Tail(r.todo) /\ Assigns(r).at = "run"
  BY DEF Fields, GoesOn, Assigns

(* A plain record that goes on, waits for a load it called, or ends.        *)
LEMMA PlainEdits ==
    ASSUME NEW r, DOMAIN r = Fields, Plain(r), NEW w
    PROVE  /\ r.todo # <<>> => Plain(GoesOn(r)) /\ Plain(Assigns(r))
           /\ \A stage \in {"done", "failed"} : Plain([r EXCEPT !.at = stage])
           /\ r.todo # <<>> =>
                  \A stage \in {"call", "block"} :
                      /\ Plain([r EXCEPT !.at = stage])
                      /\ Plain([r EXCEPT !.at = stage, !.wait = w])
  <1>1. r.todo # <<>> =>
            /\ IsSequence(Tail(r.todo))
            /\ \A n \in 1 .. Len(Tail(r.todo)) : Tail(r.todo)[n].op \notin {"import", "pause"}
    <2> SUFFICES ASSUME r.todo # <<>>
                 PROVE  /\ IsSequence(Tail(r.todo))
                        /\ \A n \in 1 .. Len(Tail(r.todo)) :
                               Tail(r.todo)[n].op \notin {"import", "pause"}
      OBVIOUS
    <2> DEFINE s == r.todo
    <2>1. PICK S : s \in Seq(S)
      BY DEF Plain, IsSequence
    <2>2. \A n \in 1 .. Len(s) : s[n].op \notin {"import", "pause"}
      BY DEF Plain
    <2>3. s # <<>>
      OBVIOUS
    <2> HIDE DEF s
    <2>4. /\ Tail(s) \in Seq(S)
          /\ \A n \in 1 .. Len(Tail(s)) : n + 1 \in 1 .. Len(s) /\ Tail(s)[n] = s[n + 1]
      BY <2>1, <2>3
    <2>5. \A n \in 1 .. Len(Tail(s)) : Tail(s)[n].op \notin {"import", "pause"}
      BY <2>2, <2>4
    <2> QED
      BY <2>4, <2>5 DEF s, IsSequence
  <1>2. r.todo # <<>> => Plain(GoesOn(r)) /\ Plain(Assigns(r))
    <2>1. /\ GoesOn(r).todo = Tail(r.todo) /\ GoesOn(r).at = "run"
          /\ Assigns(r).todo = Tail(r.todo) /\ Assigns(r).at = "run"
      BY EditKeeps
    <2> QED
      BY <1>1, <2>1 DEF Plain
  <1>3. \A stage \in {"done", "failed"} : Plain([r EXCEPT !.at = stage])
    <2> SUFFICES ASSUME NEW stage \in {"done", "failed"}
                 PROVE  Plain([r EXCEPT !.at = stage])
      OBVIOUS
    <2> DEFINE q == [r EXCEPT !.at = stage]
    <2>1. q.todo = r.todo /\ q.at = stage
      BY EditKeeps
    <2> HIDE DEF q
    <2>2. Plain(q)
      BY <2>1 DEF Plain
    <2> QED
      BY <2>2 DEF q
  <1>4. ASSUME r.todo # <<>>, NEW stage \in {"call", "block"}
        PROVE  Plain([r EXCEPT !.at = stage]) /\ Plain([r EXCEPT !.at = stage, !.wait = w])
    <2> DEFINE q == [r EXCEPT !.at = stage]
               p == [r EXCEPT !.at = stage, !.wait = w]
    <2>1. q.todo = r.todo /\ q.at = stage /\ p.todo = r.todo /\ p.at = stage
      BY EditKeeps
    <2> HIDE DEF q, p
    <2>2. Plain(q) /\ Plain(p)
      BY <1>4, <2>1 DEF Plain
    <2> QED
      BY <2>2 DEF q, p
  <1> QED
    BY <1>2, <1>3, <1>4

LEMMA PlainFails ==
    ASSUME NEW r, DOMAIN r = Fields, Plain(r)
    PROVE  Plain([r EXCEPT !.at = "failed"]) /\ ~Live([r EXCEPT !.at = "failed"])
  <1>1. [r EXCEPT !.at = "failed"].at = "failed"
    BY EditKeeps
  <1>2. Plain([r EXCEPT !.at = "failed"])
    BY PlainEdits
  <1> QED
    BY <1>1, <1>2 DEF Live

(* The statement a plain body is at is no import and no pause.              *)
LEMMA PlainHead ==
    ASSUME NEW r, Plain(r), r.todo # <<>>
    PROVE  Head(r.todo).op \notin {"import", "pause"}
  <1>1. PICK S : r.todo \in Seq(S)
    BY DEF Plain, IsSequence
  <1>2. Head(r.todo) = r.todo[1] /\ 1 \in 1 .. Len(r.todo)
    BY <1>1
  <1> QED
    BY <1>2 DEF Plain

-----------------------------------------------------------------------------
(* The stack without its top i.                                             *)
Popped(st, st2, i) ==
    /\ \A n \in 1 .. Len(st2) : n \in 1 .. Len(st) /\ st2[n] = st[n]
    /\ \A n \in 1 .. Len(st2) : \A m \in 1 .. n : m \in 1 .. Len(st2)
    /\ \A n \in 1 .. Len(st) : st[n] = i \/ n \in 1 .. Len(st2)

LEMMA PopPops ==
    ASSUME StackOK, stack # <<>>
    PROVE  Popped(stack, Pop, Top)
  <1> DEFINE n == Len(stack)
  <1>1. /\ stack \in Seq(1 .. Len(loads)) /\ n \in Nat /\ n # 0
        /\ Top = stack[n]
    BY DEF StackOK, Top, Last
  <1>2. Len(Pop) = n - 1 /\ \A m \in 1 .. n - 1 : Pop[m] = stack[m]
    <2>1. Pop = SubSeq(stack, 1, n - 1)
      BY DEF Pop, Front
    <2>2. 1 \in Int /\ n - 1 \in Int /\ \A m \in 1 .. n - 1 : stack[m] \in 1 .. Len(loads)
      BY <1>1
    <2> HIDE DEF n
    <2>3. /\ Len(SubSeq(stack, 1, n - 1)) = IF 1 <= n - 1 THEN n - 1 - 1 + 1 ELSE 0
          /\ \A m \in 1 .. n - 1 - 1 + 1 : SubSeq(stack, 1, n - 1)[m] = stack[1 + m - 1]
      BY <2>2, SubSeqProperties
    <2>4. /\ (IF 1 <= n - 1 THEN n - 1 - 1 + 1 ELSE 0) = n - 1 /\ n - 1 - 1 + 1 = n - 1
          /\ \A m \in 1 .. n - 1 : 1 + m - 1 = m
      BY <1>1
    <2> QED
      BY <2>1, <2>3, <2>4
  <1> HIDE DEF n
  <1>3. /\ \A m \in 1 .. n : m = n \/ m \in 1 .. n - 1
        /\ \A m \in 1 .. n - 1 : m \in 1 .. n /\ \A k \in 1 .. m : k \in 1 .. n - 1
    BY <1>1
  <1> QED
    BY <1>1, <1>2, <1>3 DEF Popped, n

(* Editing one record: the nesting stays, when the load stays on the stack  *)
(* or ends and leaves it.                                                   *)
LEMMA EditNests ==
    ASSUME NEW s, NEW n \in Nat, DOMAIN s = 1 .. n, Len(s) = n,
           \A j \in 1 .. n : s[j].by \in 0 .. n,
           NEW i \in 1 .. n, NEW q, q.by = s[i].by, Live(s[i]),
           NEW t, DOMAIN t = 1 .. n, Len(t) = n, t[i] = q,
           \A j \in 1 .. n : j # i => t[j] = s[j],
           NEW st, NEW st2, NestedIn(s, st), st \in Seq(1 .. n), Plain(q),
           st2 = st \/ (Popped(st, st2, i) /\ ~Live(q))
    PROVE  /\ NestedIn(t, st2)
           /\ \A x : x.object.load \in 1 .. n /\ Seen(s, x) => Seen(t, x)
  <1>1. \A j \in 1 .. n : UpFrom(s, j) \subseteq UpFrom(t, j)
    <2>1. \A j \in 1 .. n : t[j].by = s[j].by /\ s[j].by \in 0 .. n
      OBVIOUS
    <2>2. n <= n
      OBVIOUS
    <2> QED
      BY <2>1, <2>2, UpGrows
  <1>2. \A j \in 1 .. n : Plain(t[j])
    BY DEF NestedIn
  <1>3. \A k \in 1 .. Len(st) : st[k] \in 1 .. n
    OBVIOUS
  <1>4. \A k \in 1 .. Len(st) : \A m \in 1 .. k : st[m] \in {st[k]} \cup UpFrom(t, st[k])
    BY <1>1, <1>3 DEF NestedIn
  <1>5. CASE st2 = st
    <2>1. \A j \in 1 .. n : Live(t[j]) => Live(s[j])
      OBVIOUS
    <2> QED
      BY <1>1, <1>2, <1>4, <1>5, <2>1 DEF NestedIn, Seen, Live
  <1>6. CASE Popped(st, st2, i) /\ ~Live(q)
    <2>1. ASSUME NEW j \in 1 .. n, Live(t[j])
          PROVE  \E k \in 1 .. Len(st2) : st2[k] = j
      <3>1. j # i /\ Live(s[j])
        BY <1>6, <2>1
      <3>2. PICK k \in 1 .. Len(st) : st[k] = j
        BY <3>1 DEF NestedIn
      <3> QED
        BY <1>6, <3>1, <3>2 DEF Popped
    <2>2. \A k \in 1 .. Len(st2) : \A m \in 1 .. k : st2[m] \in {st2[k]} \cup UpFrom(t, st2[k])
      BY <1>4, <1>6 DEF Popped
    <2> QED
      BY <1>1, <1>2, <2>1, <2>2 DEF NestedIn, Seen, Live
  <1> QED
    BY <1>5, <1>6

(* A step that edits the record of one load.                                *)
LEMMA NestedEdit ==
    ASSUME Inductive, SyncInductive, text' = text,
           NEW i \in 1 .. Len(loads), NEW q, loads' = [loads EXCEPT ![i] = q],
           q.by = loads[i].by, q.sync = loads[i].sync,
           AllSync(loads) =>
               /\ Live(loads[i]) /\ Plain(q)
               /\ stack' = stack \/ (stack # <<>> /\ stack' = Pop /\ i = Top /\ ~Live(q))
               /\ \A x \in receipts' \ receipts : x.object.load \in 1 .. Len(loads) /\ Seen(loads, x)
    PROVE  SyncInductive'
  <1> DEFINE n == Len(loads)
  <1>1. /\ IsSequence(loads') /\ Len(loads') = n
        /\ loads'[i] = q /\ \A j \in 1 .. n : j # i => loads'[j] = loads[j]
    <2>1. LoadsOK
      BY DEF Inductive
    <2>2. /\ IsSequence([loads EXCEPT ![i] = q])
          /\ Len([loads EXCEPT ![i] = q]) = Len(loads)
          /\ [loads EXCEPT ![i] = q][i] = q
          /\ \A j \in 1 .. Len(loads) : j # i => [loads EXCEPT ![i] = q][j] = loads[j]
      BY ZenonT(60), <2>1, LoadChanged
    <2> QED
      BY <2>2
  <1>2. n \in Nat /\ DOMAIN loads = 1 .. n /\ DOMAIN loads' = 1 .. n
    <2>1. PICK S : loads \in Seq(S)
      BY DEF Inductive, LoadsOK, IsSequence
    <2>2. PICK T : loads' \in Seq(T)
      BY <1>1 DEF IsSequence
    <2> QED
      BY <1>1, <2>1, <2>2
  <1>3. i \in 1 .. n /\ \A j \in 1 .. n : loads[j].by \in 0 .. n
    BY DEF SyncInductive, Begun
  <1>4. Begun'
    BY <1>1, <1>3 DEF SyncInductive, Begun
  <1>5. AllSync(loads)' => AllSync(loads)
    BY <1>1 DEF AllSync
  <1> HIDE DEF n
  <1>6. ASSUME AllSync(loads)
        PROVE  NestedIn(loads', stack') /\ \A x \in receipts' : Seen(loads', x)
    <2>1. NestedIn(loads, stack) /\ (\A x \in receipts : Seen(loads, x)) /\ stack \in Seq(1 .. n)
      BY <1>6 DEF SyncInductive, SyncNested, Inductive, StackOK, n
    <2>2. Live(loads[i]) /\ Plain(q)
      BY <1>6
    <2>3. stack' = stack \/ (Popped(stack, stack', i) /\ ~Live(q))
      <3>1. stack # <<>> => Popped(stack, Pop, Top)
        BY PopPops DEF Inductive
      <3> QED
        BY <1>6, <3>1
    <2>4. /\ NestedIn(loads', stack')
          /\ \A x : x.object.load \in 1 .. n /\ Seen(loads, x) => Seen(loads', x)
      <3>1. Len(loads) = n
        BY DEF n
      <3> QED
        BY <1>1, <1>2, <1>3, <2>1, <2>2, <2>3, <3>1, EditNests
    <2>5. \A x \in receipts : x.object.load \in 1 .. n
      BY DEF Inductive, ReceiptsTrue, n
    <2>6. \A x \in receipts' \ receipts : x.object.load \in 1 .. n /\ Seen(loads, x)
      BY <1>6 DEF n
    <2> QED
      BY <2>1, <2>4, <2>5, <2>6
  <1>7. SyncNested'
    BY <1>5, <1>6 DEF SyncNested, AllSync, NestedIn, Seen
  <1> QED
    BY <1>4, <1>7 DEF SyncInductive

(* What the body on top of the stack is given is finished, failed, or on    *)
(* the stack below it.                                                      *)
LEMMA GivenSeen ==
    ASSUME Inductive, SyncInductive, AllSync(loads), stack # <<>>,
           NEW o, o.load \in 1 .. Len(loads)
    PROVE  Given(Top, o).object = o /\ Seen(loads, Given(Top, o))
  <1>1. /\ Given(Top, o).object = o /\ Given(Top, o).by = Top
        /\ Given(Top, o).ended = (loads[o.load].at = "done")
    BY DEF Given, Holder
  <1>2. ASSUME Live(loads[o.load])
        PROVE  o.load \in {Top} \cup UpFrom(loads, Top)
    <2>1. NestedIn(loads, stack)
      BY DEF SyncInductive, SyncNested
    <2>2. PICK n \in 1 .. Len(stack) : stack[n] = o.load
      BY <1>2, <2>1 DEF NestedIn
    <2>3. Top = stack[Len(stack)] /\ Len(stack) \in 1 .. Len(stack) /\ n \in 1 .. Len(stack)
      BY DEF Inductive, StackOK, Top, Last
    <2> QED
      BY <2>1, <2>2, <2>3 DEF NestedIn
  <1>3. Top \in 1 .. Len(loads)
    BY TopRecord
  <1> QED
    BY <1>1, <1>2, <1>3 DEF Seen, Live

(* The record of the load on top, when every load is plain.                 *)
LEMMA TopPlain ==
    ASSUME Inductive, SyncInductive, stack # <<>>
    PROVE  /\ Top \in 1 .. Len(loads) /\ DOMAIN loads[Top] = Fields
           /\ AllSync(loads) => Plain(loads[Top])
  <1>1. Top \in 1 .. Len(loads) /\ DOMAIN loads[Top] = Fields
    BY TopRecord DEF IsLoad
  <1> QED
    BY <1>1 DEF SyncInductive, SyncNested, NestedIn

(* A request of a plain body is answered, or fails.                         *)
LEMMA AnswerNests ==
    ASSUME Inductive, SyncInductive, text' = text, stack # <<>>, Live(loads[Top]),
           AllSync(loads) => loads[Top].todo # <<>>,
           NEW objs, \A o \in objs : o.load \in 1 .. Len(loads), Answer(objs)
    PROVE  SyncInductive'
  <1> DEFINE r == loads[Top]
  <1>1. /\ Top \in 1 .. Len(loads) /\ DOMAIN r = Fields /\ (AllSync(loads) => Plain(r))
        /\ IsLoad(r, Top, Len(loads)) /\ 0 \in 0 .. Len(loads)
    BY TopPlain, TopRecord
  <1>2. AllSync(loads) => Current.op # "import"
    BY <1>1, PlainHead DEF Current
  <1>3. ASSUME AllSync(loads), NEW x \in receipts' \ receipts
        PROVE  x.object.load \in 1 .. Len(loads) /\ Seen(loads, x)
    <2>1. PICK o \in objs : x = Given(Top, o)
      BY DEF Answer
    <2> QED
      BY <1>3, <2>1, GivenSeen
  <1>4. CASE Current.op = "import"
    <2> DEFINE q == [r EXCEPT !.at = "await", !.wait = 0]
    <2>1. Edited(q, r, Top, Len(loads))
      BY <1>1, Waiting
    <2>2. loads' = [loads EXCEPT ![Top] = q]
      BY <1>4 DEF Answer
    <2>3. q.by = r.by /\ q.sync = r.sync
      BY <1>1, <2>1, EditKeeps DEF Edited
    <2>4. ~AllSync(loads)
      BY <1>2, <1>4
    <2> HIDE DEF q
    <2> QED
      BY <1>1, <2>2, <2>3, <2>4, NestedEdit
  <1>5. CASE Current.op # "import"
    <2> DEFINE q == GoesOn(r)
    <2>1. Edited(q, r, Top, Len(loads)) /\ q.by = r.by
      BY <1>1, WentOn, EditKeeps
    <2>2. loads' = [loads EXCEPT ![Top] = q] /\ stack' = stack
      BY <1>5 DEF Answer
    <2>3. q.by = r.by /\ q.sync = r.sync
      BY <2>1 DEF Edited
    <2>4. AllSync(loads) => Plain(q)
      BY <1>1, PlainEdits
    <2>5. AllSync(loads) =>
              /\ Live(r) /\ Plain(q)
              /\ stack' = stack \/ (stack # <<>> /\ stack' = Pop /\ ~Live(q))
              /\ \A x \in receipts' \ receipts : x.object.load \in 1 .. Len(loads) /\ Seen(loads, x)
      BY <1>3, <2>2, <2>4
    <2> HIDE DEF q
    <2> QED
      BY <1>1, <2>2, <2>3, <2>5, NestedEdit
  <1> QED
    BY <1>4, <1>5

(* The body on top of the stack ends with an exception, or goes on.         *)
LEMMA EndNests ==
    ASSUME Inductive, SyncInductive, text' = text, stack # <<>>, Live(loads[Top]),
           NEW stage \in {"done", "failed"},
           loads' = [loads EXCEPT ![Top].at = stage], stack' = Pop,
           AllSync(loads) =>
               \A x \in receipts' \ receipts : x.object.load \in 1 .. Len(loads) /\ Seen(loads, x)
    PROVE  SyncInductive'
  <1> DEFINE r == loads[Top]
             q == [r EXCEPT !.at = stage]
  <1>1. Top \in 1 .. Len(loads) /\ DOMAIN r = Fields /\ (AllSync(loads) => Plain(r))
    BY TopPlain
  <1>2. q.by = r.by /\ q.sync = r.sync /\ ~Live(q)
    BY <1>1, EditKeeps DEF Live
  <1>3. AllSync(loads) => Plain(q)
    BY <1>1, PlainEdits
  <1>4. loads' = [loads EXCEPT ![Top] = q]
    OBVIOUS
  <1> HIDE DEF q
  <1> QED
    BY <1>1, <1>2, <1>3, <1>4, NestedEdit

LEMMA GoOnNests ==
    ASSUME Inductive, SyncInductive, text' = text, stack # <<>>, Live(loads[Top]),
           AllSync(loads) => loads[Top].todo # <<>>,
           NEW q \in {GoesOn(loads[Top]), Assigns(loads[Top])},
           loads' = [loads EXCEPT ![Top] = q], stack' = stack,
           AllSync(loads) =>
               \A x \in receipts' \ receipts : x.object.load \in 1 .. Len(loads) /\ Seen(loads, x)
    PROVE  SyncInductive'
  <1> DEFINE r == loads[Top]
  <1>1. /\ Top \in 1 .. Len(loads) /\ DOMAIN r = Fields /\ (AllSync(loads) => Plain(r))
        /\ IsLoad(r, Top, Len(loads))
    BY TopPlain, TopRecord
  <1>2. q.by = r.by /\ q.sync = r.sync
    BY <1>1, EditKeeps, WentOn DEF Edited
  <1>3. AllSync(loads) => Plain(q)
    BY <1>1, PlainEdits
  <1>4. AllSync(loads) =>
            /\ Live(r) /\ Plain(q)
            /\ stack' = stack \/ (stack # <<>> /\ stack' = Pop /\ ~Live(q))
            /\ \A x \in receipts' \ receipts : x.object.load \in 1 .. Len(loads) /\ Seen(loads, x)
    BY <1>3
  <1>5. loads' = [loads EXCEPT ![Top] = q]
    OBVIOUS
  <1> QED
    BY <1>1, <1>2, <1>4, <1>5, NestedEdit

LEMMA FailNests ==
    ASSUME Inductive, SyncInductive, text' = text, stack # <<>>, Live(loads[Top]),
           AllSync(loads) => loads[Top].todo # <<>>, RequestFails(loads)
    PROVE  SyncInductive'
  <1>1. receipts' = receipts
    BY DEF RequestFails
  <1>2. CASE loads' = [loads EXCEPT ![Top].at = "failed"] /\ stack' = Pop
    BY <1>1, <1>2, EndNests
  <1>3. CASE loads' = [loads EXCEPT ![Top] = GoesOn(@)] /\ stack' = stack
    BY <1>1, <1>3, GoOnNests
  <1> QED
    BY <1>2, <1>3 DEF RequestFails

-----------------------------------------------------------------------------
(* The actions.                                                             *)
LEMMA StatementNests ==
    ASSUME Inductive, SyncInductive, RunStatement
    PROVE  SyncInductive'
  <1> DEFINE r == loads[Top]
  <1>1. /\ stack # <<>> /\ r.at = "run" /\ Live(r) /\ r.todo # <<>>
        /\ receipts' = receipts /\ text' = text
        /\ Top \in 1 .. Len(loads) /\ DOMAIN r = Fields /\ (AllSync(loads) => Plain(r))
    BY TopPlain DEF RunStatement, Running, Live
  <1>2. CASE Current.op = "pause" /\ loads' = [loads EXCEPT ![Top].at = "pause"]
    <2> DEFINE q == [r EXCEPT !.at = "pause"]
    <2>1. q.by = r.by /\ q.sync = r.sync
      BY <1>1, EditKeeps
    <2>2. loads' = [loads EXCEPT ![Top] = q]
      BY <1>2
    <2>3. ~AllSync(loads)
      BY <1>1, <1>2, PlainHead DEF Current
    <2> HIDE DEF q
    <2> QED
      BY <1>1, <2>1, <2>2, <2>3, NestedEdit
  <1>3. CASE loads' = [loads EXCEPT ![Top] = Assigns(@)] /\ stack' = stack
    BY <1>1, <1>3, GoOnNests
  <1>4. CASE Throws
    BY <1>1, <1>4, EndNests DEF Throws
  <1>5. CASE loads' = [loads EXCEPT ![Top] = GoesOn(@)] /\ stack' = stack
    BY <1>1, <1>5, GoOnNests
  <1> QED
    BY <1>2, <1>3, <1>4, <1>5 DEF RunStatement

LEMMA MockedNests ==
    ASSUME Inductive, SyncInductive, RequestMock
    PROVE  SyncInductive'
  <1> DEFINE r == loads[Top]
  <1>1. /\ stack # <<>> /\ Live(r) /\ r.todo # <<>> /\ text' = text
        /\ Top \in 1 .. Len(loads) /\ DOMAIN r = Fields /\ (AllSync(loads) => Plain(r))
    BY TopPlain DEF RequestMock, Requesting, Running, Live
  <1>2. CASE Current.op = "require"
    <2> DEFINE q == [r EXCEPT !.at = "block", !.wait = 0]
    <2>1. loads' = [loads EXCEPT ![Top] = q] /\ stack' = stack /\ receipts' = receipts
      BY <1>2 DEF RequestMock
    <2>2. q.by = r.by
      BY <1>1, EditKeeps
    <2>3. q.sync = r.sync
      BY <1>1 DEF Fields
    <2>4. AllSync(loads) => Plain(q)
      BY <1>1, PlainEdits
    <2> HIDE DEF q
    <2> QED
      BY <1>1, <2>1, <2>2, <2>3, <2>4, NestedEdit
  <1>3. CASE Current.op # "require"
    <2>1. Answer({})
      BY <1>3 DEF RequestMock
    <2> QED
      BY <1>1, <2>1, AnswerNests
  <1> QED
    BY <1>2, <1>3

LEMMA BuiltinNests ==
    ASSUME Inductive, SyncInductive, RequestBuiltin
    PROVE  SyncInductive'
  <1>1. stack # <<>> /\ Live(loads[Top]) /\ loads[Top].todo # <<>> /\ text' = text
    BY DEF RequestBuiltin, Requesting, Running, Live
  <1>2. CASE Answer({})
    BY <1>1, <1>2, AnswerNests
  <1>3. CASE RequestFails(loads)
    BY <1>1, <1>3, FailNests
  <1> QED
    BY <1>2, <1>3 DEF RequestBuiltin

LEMMA CachedNests ==
    ASSUME Inductive, SyncInductive, RequestCached
    PROVE  SyncInductive'
  <1> DEFINE o == cache[resolve(Current.spec)]
  <1>1. stack # <<>> /\ Live(loads[Top]) /\ loads[Top].todo # <<>> /\ text' = text
    BY DEF RequestCached, Requesting, Running, Live
  <1>2. resolve(Current.spec) \in Key /\ o # NoObject /\ Answer({o})
    BY Resolves DEF RequestCached
  <1>3. o.load \in 1 .. Len(loads)
    BY <1>2 DEF Inductive, CacheOK
  <1> HIDE DEF o
  <1> QED
    BY <1>1, <1>2, <1>3, AnswerNests

(* The object of a load names it.                                           *)
LEMMA OwnObject ==
    ASSUME Inductive, NEW c \in 1 .. Len(loads)
    PROVE  loads[c].object.load \in 1 .. Len(loads)
  BY DEF Inductive, LoadsOK, IsLoad, ObjectOf

LEMMA ReturnNests ==
    ASSUME Inductive, SyncInductive, Returned
    PROVE  SyncInductive'
  <1> DEFINE r == loads[Top]
             c == r.wait
  <1>1. /\ stack # <<>> /\ r.at = "call" /\ Live(r) /\ text' = text
        /\ Top \in 1 .. Len(loads) /\ DOMAIN r = Fields /\ (AllSync(loads) => Plain(r))
        /\ c \in 1 .. Len(loads)
    BY TopPlain, TopRecord DEF Returned, IsLoad, Live
  <1>2. /\ AllSync(loads) => r.todo # <<>>
        /\ AllSync(loads) => loads[c].sync
    BY <1>1 DEF Plain, AllSync
  <1>3. loads[c].object.load \in 1 .. Len(loads)
    BY <1>1, OwnObject
  <1>4. CASE RequestFails(loads)
    BY <1>1, <1>2, <1>4, FailNests
  <1>5. CASE Answer({loads[c].object})
    BY <1>1, <1>2, <1>3, <1>5, AnswerNests
  <1>6. ASSUME NEW stage \in {"await", "block"}, ~loads[c].sync,
               loads' = [loads EXCEPT ![Top].at = stage]
        PROVE  SyncInductive'
    <2> DEFINE q == [r EXCEPT !.at = stage]
    <2>1. q.by = r.by /\ q.sync = r.sync
      BY <1>1, EditKeeps
    <2>2. loads' = [loads EXCEPT ![Top] = q]
      BY <1>6
    <2>3. ~AllSync(loads)
      BY <1>2, <1>6
    <2> HIDE DEF q
    <2> QED
      BY <1>1, <2>1, <2>2, <2>3, NestedEdit
  <1>7. CASE ~loads[c].sync /\ loads' = [loads EXCEPT ![Top] = GoesOn(@)] /\ stack' = stack
    BY <1>1, <1>2, <1>7, GoOnNests
  <1> QED
    BY <1>4, <1>5, <1>6, <1>7 DEF Returned

LEMMA UnblockNests ==
    ASSUME Inductive, SyncInductive, Unblock
    PROVE  SyncInductive'
  <1> DEFINE r == loads[Top]
             c == r.wait
             objs == IF c = 0 THEN {} ELSE {loads[c].object}
  <1>1. /\ stack # <<>> /\ r.at = "block" /\ Live(r) /\ text' = text
        /\ (AllSync(loads) => Plain(r)) /\ c \in 0 .. Len(loads)
    BY TopPlain, TopRecord DEF Unblock, IsLoad, Live
  <1>2. AllSync(loads) => r.todo # <<>>
    BY <1>1 DEF Plain
  <1>3. \A o \in objs : o.load \in 1 .. Len(loads)
    <2>1. c # 0 => c \in 1 .. Len(loads)
      BY <1>1
    <2> QED
      BY <2>1, OwnObject
  <1>4. CASE RequestFails(loads)
    BY <1>1, <1>2, <1>4, FailNests
  <1>5. CASE Answer(objs)
    <2> HIDE DEF objs
    <2> QED
      BY <1>1, <1>2, <1>3, <1>5, AnswerNests
  <1> QED
    BY <1>4, <1>5 DEF Unblock

LEMMA FinishNests ==
    ASSUME Inductive, SyncInductive, Finish
    PROVE  SyncInductive'
  <1>1. stack # <<>> /\ Live(loads[Top]) /\ text' = text /\ Top \in 1 .. Len(loads)
    BY TopRecord DEF Finish, Running, Live
  <1>2. loads[Top].object.load \in 1 .. Len(loads)
    BY <1>1, OwnObject
  <1>3. \A x \in receipts' \ receipts : x.object = loads[Top].object /\ x.ended
    BY DEF Finish
  <1>4. \A x \in receipts' \ receipts : x.object.load \in 1 .. Len(loads) /\ Seen(loads, x)
    BY <1>2, <1>3 DEF Seen
  <1>5. loads' = [loads EXCEPT ![Top].at = "done"] /\ stack' = Pop
    BY DEF Finish
  <1> QED
    BY <1>1, <1>4, <1>5, EndNests

LEMMA ResumeNests ==
    ASSUME Inductive, SyncInductive, NEW i \in DOMAIN loads, Resume(i)
    PROVE  SyncInductive'
  <1> DEFINE r == loads[i]
  <1>1. i \in 1 .. Len(loads)
    <2>1. PICK S : loads \in Seq(S)
      BY DEF Inductive, LoadsOK, IsSequence
    <2> QED
      BY <2>1
  <1>2. r.at \in {"pause", "await"} /\ text' = text /\ DOMAIN r = Fields
    BY <1>1 DEF Resume, Inductive, LoadsOK, IsLoad
  <1>3. ~AllSync(loads)
    BY <1>1, <1>2 DEF SyncInductive, SyncNested, NestedIn, Plain
  <1>4. PICK q : q \in {GoesOn(r), [r EXCEPT !.at = "failed"]} /\ loads' = [loads EXCEPT ![i] = q]
    BY DEF Resume
  <1>5. q.by = r.by /\ q.sync = r.sync
    BY <1>2, <1>4 DEF GoesOn, Fields
  <1> QED
    BY <1>1, <1>2, <1>3, <1>4, <1>5, NestedEdit

(* From s to t, load n + 1 starts: above the load i on top of the stack, or *)
(* it failed.                                                               *)
Starts(s, n, i, q, added, t, st, st2) ==
    /\ n \in Nat /\ DOMAIN s = 1 .. n /\ Len(s) = n
    /\ \A j \in 1 .. n : s[j].by \in 0 .. n
    /\ i \in 1 .. n /\ q.by = s[i].by /\ Live(s[i]) /\ added.by = i
    /\ DOMAIN t = 1 .. n + 1 /\ Len(t) = n + 1 /\ t[i] = q /\ t[n + 1] = added
    /\ \A j \in 1 .. n : j # i => t[j] = s[j]
    /\ NestedIn(s, st) /\ st \in Seq(1 .. n) /\ st # <<>> /\ st[Len(st)] = i
    /\ Plain(q) /\ Plain(added)
    /\ \/ ~Live(added) /\ st2 = st
       \/ ~Live(added) /\ Popped(st, st2, i) /\ ~Live(q)
       \/ st2 = Append(st, n + 1)

LEMMA StartNests ==
    ASSUME NEW s, NEW n, NEW i, NEW q, NEW added, NEW t, NEW st, NEW st2,
           Starts(s, n, i, q, added, t, st, st2)
    PROVE  /\ NestedIn(t, st2)
           /\ \A x : x.object.load \in 1 .. n /\ Seen(s, x) => Seen(t, x)
  <1>0. /\ n \in Nat /\ DOMAIN s = 1 .. n /\ Len(s) = n
        /\ \A j \in 1 .. n : s[j].by \in 0 .. n
        /\ i \in 1 .. n /\ q.by = s[i].by /\ Live(s[i]) /\ added.by = i
        /\ DOMAIN t = 1 .. n + 1 /\ Len(t) = n + 1 /\ t[i] = q /\ t[n + 1] = added
        /\ \A j \in 1 .. n : j # i => t[j] = s[j]
        /\ NestedIn(s, st) /\ st \in Seq(1 .. n) /\ st # <<>> /\ st[Len(st)] = i
        /\ Plain(q) /\ Plain(added)
        /\ \/ ~Live(added) /\ st2 = st
           \/ ~Live(added) /\ Popped(st, st2, i) /\ ~Live(q)
           \/ st2 = Append(st, n + 1)
    BY DEF Starts
  <1>1. /\ \A j \in 1 .. n : UpFrom(s, j) \subseteq UpFrom(t, j)
        /\ {i} \cup UpFrom(s, i) \subseteq UpFrom(t, n + 1)
    <2>1. \A j \in 1 .. n : t[j].by = s[j].by /\ s[j].by \in 0 .. n
      BY <1>0
    <2>2. n <= n + 1 /\ n + 1 \in Nat /\ n + 1 \in 1 .. n + 1
      BY <1>0
    <2>3. n \in Nat /\ DOMAIN s = 1 .. n /\ DOMAIN t = 1 .. n + 1 /\ i \in 1 .. n /\ t[n + 1].by = i
      BY <1>0
    <2>4. /\ \A j \in 1 .. n : UpFrom(s, j) \subseteq UpFrom(t, j)
          /\ \A j \in 1 .. n + 1 : t[j].by \in 1 .. n =>
                 {t[j].by} \cup UpFrom(s, t[j].by) \subseteq UpFrom(t, j)
      BY <2>1, <2>2, <2>3, UpGrows
    <2> QED
      BY <2>2, <2>3, <2>4
  <1>2. \A j \in 1 .. n + 1 : j \in 1 .. n \/ j = n + 1
    BY <1>0
  <1>3. \A j \in 1 .. n + 1 : Plain(t[j])
    BY <1>0, <1>2 DEF NestedIn
  <1>4. \A k \in 1 .. Len(st) : st[k] \in 1 .. n
    BY <1>0
  <1>5. \A k \in 1 .. Len(st) : \A m \in 1 .. k : st[m] \in {st[k]} \cup UpFrom(t, st[k])
    BY <1>0, <1>1, <1>4 DEF NestedIn
  <1>6. \A x : x.object.load \in 1 .. n /\ Seen(s, x) => Seen(t, x)
    <2> SUFFICES ASSUME NEW x, x.object.load \in 1 .. n, Seen(s, x)
                 PROVE  Seen(t, x)
      OBVIOUS
    <2>1. s[x.object.load].at = "failed" => t[x.object.load].at = "failed"
      BY <1>0 DEF Live
    <2>2. x.by \in 1 .. n => x.by \in 1 .. n + 1
      BY <1>0
    <2> QED
      BY <1>0, <1>1, <2>1, <2>2 DEF Seen
  <1>7. CASE ~Live(added) /\ st2 = st
    <2>1. \A j \in 1 .. n + 1 : Live(t[j]) => j \in 1 .. n /\ Live(s[j])
      BY <1>0, <1>2, <1>7
    <2> QED
      BY <1>0, <1>3, <1>5, <1>6, <1>7, <2>1 DEF NestedIn
  <1>8. CASE ~Live(added) /\ Popped(st, st2, i) /\ ~Live(q)
    <2>1. ASSUME NEW j \in 1 .. n + 1, Live(t[j])
          PROVE  \E k \in 1 .. Len(st2) : st2[k] = j
      <3>1. j # i /\ j \in 1 .. n /\ Live(s[j])
        BY <1>0, <1>2, <1>8, <2>1
      <3>2. PICK k \in 1 .. Len(st) : st[k] = j
        BY <1>0, <3>1 DEF NestedIn
      <3> QED
        BY <1>0, <1>8, <3>1, <3>2 DEF Popped
    <2>2. \A k \in 1 .. Len(st2) : \A m \in 1 .. k : st2[m] \in {st2[k]} \cup UpFrom(t, st2[k])
      BY <1>0, <1>5, <1>8 DEF Popped
    <2> QED
      BY <1>0, <1>3, <1>6, <2>1, <2>2 DEF NestedIn
  <1>9. CASE st2 = Append(st, n + 1)
    <2> DEFINE h == Len(st)
    <2>1. h \in Nat /\ h \in 1 .. h /\ Len(st2) = h + 1 /\ st2[h + 1] = n + 1
          /\ \A k \in 1 .. h : st2[k] = st[k]
      BY <1>0, <1>9
    <2>2. st[h] = i /\ \A k \in 1 .. h : \A m \in 1 .. k : st[m] \in {st[k]} \cup UpFrom(t, st[k])
      BY <1>0, <1>5
    <2>3. \A k \in 1 .. h : st[k] \in {i} \cup UpFrom(s, i)
      BY <1>0, <2>1 DEF NestedIn
    <2> HIDE DEF h
    <2>4. /\ \A k \in 1 .. h + 1 : k \in 1 .. h \/ k = h + 1
          /\ \A k \in 1 .. h : k \in 1 .. h + 1 /\ \A m \in 1 .. k : m \in 1 .. h
          /\ h + 1 \in 1 .. h + 1
      BY <1>0, <2>1
    <2>5. \A j \in 1 .. n + 1 : Live(t[j]) => \E k \in 1 .. h + 1 : st2[k] = j
      <3> SUFFICES ASSUME NEW j \in 1 .. n + 1, Live(t[j])
                   PROVE  \E k \in 1 .. h + 1 : st2[k] = j
        OBVIOUS
      <3>1. CASE j = n + 1
        BY <2>1, <2>4, <3>1
      <3>2. CASE j \in 1 .. n
        <4>1. Live(s[j])
          BY <1>0, <3>2
        <4>2. PICK k \in 1 .. h : st[k] = j
          BY <1>0, <3>2, <4>1 DEF NestedIn, h
        <4> QED
          BY <1>0, <2>1, <2>4, <4>2
      <3> QED
        BY <1>2, <3>1, <3>2
    <2>6. ASSUME NEW k \in 1 .. h + 1, NEW m \in 1 .. k
          PROVE  st2[m] \in {st2[k]} \cup UpFrom(t, st2[k])
      <3>1. CASE k \in 1 .. h
        BY <1>0, <2>1, <2>2, <2>4, <3>1
      <3>2. CASE k = h + 1
        <4>1. CASE m = h + 1
          BY <1>0, <3>2, <4>1
        <4>2. CASE m \in 1 .. h
          BY <1>0, <1>1, <2>1, <2>3, <3>2, <4>2
        <4> QED
          BY <2>4, <3>2, <4>1, <4>2
      <3> QED
        BY <2>4, <3>1, <3>2
    <2> QED
      BY <1>0, <1>3, <1>6, <2>1, <2>5, <2>6 DEF NestedIn
  <1> QED
    BY <1>0, <1>7, <1>8, <1>9

LEMMA LoadNests ==
    ASSUME Inductive, SyncInductive, RequestLoad
    PROVE  SyncInductive'
  <1> DEFINE n == Len(loads)
             r == loads[Top]
             new == NewLoad(resolve(Current.spec), Top)
  <1>1. /\ stack # <<>> /\ Live(r) /\ r.todo # <<>> /\ text' = text
        /\ Top \in 1 .. n /\ DOMAIN r = Fields /\ (AllSync(loads) => Plain(r))
        /\ stack \in Seq(1 .. n)
    BY TopPlain, TopRecord DEF RequestLoad, Requesting, Running, Live
  <1>2. PICK q, added : Started(q, added) /\ HowStarted(q, added, new)
    BY LoadStarts
  <1>3. /\ IsSequence(loads') /\ Len(loads') = n + 1
        /\ loads'[n + 1] = added /\ loads'[Top] = q
        /\ \A j \in 1 .. n : j # Top => loads'[j] = loads[j]
        /\ receipts' = receipts /\ q.sync = r.sync
    BY <1>2 DEF Started, Edited
  <1>4. n \in Nat /\ DOMAIN loads = 1 .. n /\ DOMAIN loads' = 1 .. n + 1
    <2>1. PICK S : loads \in Seq(S)
      BY DEF Inductive, LoadsOK, IsSequence
    <2>2. PICK T : loads' \in Seq(T)
      BY <1>3 DEF IsSequence
    <2>3. n \in Nat /\ DOMAIN loads = 1 .. n /\ DOMAIN loads' = 1 .. Len(loads')
      BY <2>1, <2>2
    <2> QED
      BY <1>3, <2>3
  <1> HIDE DEF n
  <1>5. /\ new.by = Top /\ DOMAIN new = Fields /\ new.at = "run"
        /\ new.sync = is_sync(Current.spec.of) /\ new.todo = Prepared(Current.spec.of)
    BY DEF NewLoad, resolve, Fields
  <1>6. Current.spec.of \in Module
    BY DEF RequestLoad, FileSpec
  <1>7. q.by = r.by /\ added.by = Top /\ added.sync = new.sync
    <2>1. /\ [r EXCEPT !.at = "call", !.wait = n + 1].by = r.by
          /\ [r EXCEPT !.at = "failed"].by = r.by /\ GoesOn(r).by = r.by
      BY <1>1, EditKeeps
    <2> HIDE DEF new
    <2>2. [new EXCEPT !.at = "failed"].by = Top /\ [new EXCEPT !.at = "failed"].sync = new.sync
      BY <1>5, EditKeeps
    <2> QED
      BY <1>2, <1>5, <2>1, <2>2 DEF HowStarted, n
  <1>8. \A j \in 1 .. n : loads[j].by \in 0 .. n
    BY DEF SyncInductive, Begun, n
  <1>9. \A j \in 1 .. n + 1 : j \in 1 .. n \/ j = n + 1
    BY <1>4
  <1>10. Begun'
    <2>1. \A j \in 1 .. n + 1 : loads'[j].by \in 0 .. n + 1
      <3>1. \A j \in 0 .. n : j \in 0 .. n + 1
        BY <1>4
      <3>2. \A j \in 1 .. n : j \in 0 .. n
        BY <1>4
      <3> QED
        BY <1>1, <1>3, <1>7, <1>8, <1>9, <3>1, <3>2
    <2> QED
      BY <1>1, <1>3, <2>1 DEF Begun, SyncInductive
  <1>11. AllSync(loads') => AllSync(loads) /\ new.sync
    <2>1. n + 1 \in 1 .. n + 1 /\ 1 .. n \subseteq 1 .. n + 1
      BY <1>4
    <2> QED
      BY <1>3, <1>7, <2>1 DEF AllSync, n
  <1>12. ASSUME AllSync(loads')
         PROVE  NestedIn(loads', stack') /\ \A x \in receipts' : Seen(loads', x)
    <2>1. /\ NestedIn(loads, stack) /\ (\A x \in receipts : Seen(loads, x))
          /\ Plain(r) /\ new.sync
      BY <1>1, <1>11, <1>12 DEF SyncInductive, SyncNested
    <2>2. Plain(new)
      <3>1. text \in Programs
        BY DEF SyncInductive, Begun
      <3>2. /\ IsSequence(new.todo)
            /\ \A m \in 1 .. Len(new.todo) : new.todo[m].op \notin {"import", "pause"}
        BY <1>5, <1>6, <2>1, <3>1, PreparedPlain
      <3> HIDE DEF new
      <3> QED
        BY <1>5, <3>2 DEF Plain
    <2> HIDE DEF new
    <2>3. Plain([new EXCEPT !.at = "failed"]) /\ ~Live([new EXCEPT !.at = "failed"])
      BY <1>5, <2>2, PlainFails
    <2>4. Plain([r EXCEPT !.at = "failed"]) /\ ~Live([r EXCEPT !.at = "failed"])
      BY <1>1, <2>1, PlainFails
    <2>5. Plain([r EXCEPT !.at = "call", !.wait = n + 1]) /\ Plain(GoesOn(r))
      BY <1>1, <2>1, PlainEdits
    <2>6. Popped(stack, Pop, Top)
      BY <1>1, PopPops DEF Inductive
    <2>7. /\ Plain(q) /\ Plain(added)
          /\ \/ ~Live(added) /\ stack' = stack
             \/ ~Live(added) /\ Popped(stack, stack', Top) /\ ~Live(q)
             \/ stack' = Append(stack, n + 1)
      BY <1>2, <2>2, <2>3, <2>4, <2>5, <2>6 DEF HowStarted, n
    <2>8. stack[Len(stack)] = Top
      BY DEF Top, Last
    <2>9. /\ NestedIn(loads', stack')
          /\ \A x : x.object.load \in 1 .. n /\ Seen(loads, x) => Seen(loads', x)
      <3>1. Len(loads) = n
        BY DEF n
      <3>2. /\ Top \in 1 .. n /\ Live(loads[Top]) /\ stack \in Seq(1 .. n) /\ stack # <<>>
            /\ q.by = loads[Top].by
        BY <1>1, <1>7
      <3>3. /\ Len(loads') = n + 1 /\ loads'[n + 1] = added /\ loads'[Top] = q
            /\ \A j \in 1 .. n : j # Top => loads'[j] = loads[j]
        BY <1>3
      <3> HIDE DEF r
      <3>4. Starts(loads, n, Top, q, added, loads', stack, stack')
        BY <1>4, <1>7, <1>8, <2>1, <2>7, <2>8, <3>1, <3>2, <3>3 DEF Starts
      <3> QED
        BY <3>4, StartNests
    <2>10. \A x \in receipts : x.object.load \in 1 .. n
      BY DEF Inductive, ReceiptsTrue, n
    <2> QED
      BY <1>3, <2>1, <2>9, <2>10
  <1>13. SyncNested'
    BY <1>12 DEF SyncNested, AllSync, NestedIn, Seen
  <1> QED
    BY <1>10, <1>13 DEF SyncInductive

LEMMA NextNests ==
    ASSUME Inductive, SyncInductive, [Next]_vars
    PROVE  SyncInductive'
  <1>1. CASE Idle
    BY <1>1 DEF Idle, vars, SyncInductive, Begun, SyncNested
  <1>2. CASE UNCHANGED vars
    BY <1>2 DEF vars, SyncInductive, Begun, SyncNested
  <1> QED
    BY <1>1, <1>2, MockedNests, BuiltinNests, CachedNests, LoadNests, ReturnNests,
       StatementNests, FinishNests, UnblockNests, ResumeNests DEF Next

LEMMA InitNests ==
    Init => SyncInductive
  <1> SUFFICES ASSUME Init
               PROVE  SyncInductive
    OBVIOUS
  <1> DEFINE q == [key |-> [file |-> Entry, dotted |-> FALSE], todo |-> Prepared(Entry),
                   sync |-> is_sync(Entry), at |-> "run", wait |-> 0,
                   object |-> [load |-> 1, assigned |-> FALSE], by |-> 0]
  <1>1. q.by = 0 /\ q.at = "run" /\ q.sync = is_sync(Entry) /\ q.todo = Prepared(Entry)
    OBVIOUS
  <1>2. loads = <<q>> /\ text \in Programs /\ stack = <<1>> /\ receipts = {}
    BY DEF Init
  <1> HIDE DEF q
  <1>3. Len(loads) = 1 /\ loads[1] = q /\ \A j \in 1 .. 1 : j = 1
    BY <1>2
  <1>4. Begun
    BY <1>1, <1>2, <1>3 DEF Begun
  <1>5. ASSUME AllSync(loads)
        PROVE  NestedIn(loads, stack)
    <2>1. q.sync
      BY <1>3, <1>5 DEF AllSync
    <2>2. /\ IsSequence(q.todo)
          /\ \A n \in 1 .. Len(q.todo) : q.todo[n].op \notin {"import", "pause"}
      BY <1>1, <1>2, <2>1, PreparedPlain, EntryAssumption
    <2>3. Plain(q)
      BY <1>1, <2>2 DEF Plain
    <2>4. Len(stack) = 1 /\ stack[1] = 1 /\ 1 \in 1 .. 1
      BY <1>2
    <2> QED
      BY <1>3, <2>3, <2>4 DEF NestedIn
  <1> QED
    BY <1>2, <1>4, <1>5 DEF SyncInductive, SyncNested

(* As long as no module is async, an importer sees an unfinished module     *)
(* only when that module is the reason it is loaded: a true cycle.          *)
THEOREM SyncCycles == Spec => []SyncPartialsAreCycles
  <1>1. Inductive /\ SyncInductive => SyncPartialsAreCycles
    <2> SUFFICES ASSUME Inductive, SyncInductive, \A i \in DOMAIN loads : loads[i].sync,
                        NEW x \in receipts
                 PROVE  \/ x.ended
                        \/ loads[x.object.load].at = "failed"
                        \/ x.object.load \in StartedFor(x.by) \cup {x.by}
      BY DEF SyncPartialsAreCycles
    <2>1. PICK S : loads \in Seq(S)
      BY DEF Inductive, LoadsOK, IsSequence
    <2>2. AllSync(loads)
      BY <2>1 DEF AllSync
    <2>3. Seen(loads, x)
      BY <2>2 DEF SyncInductive, SyncNested
    <2> QED
      BY <2>3 DEF Seen, UpFrom, StartedFor
  <1>2. Inductive /\ SyncInductive /\ [Next]_vars => (Inductive /\ SyncInductive)'
    BY NextKeeps, NextNests
  <1>3. Init => Inductive /\ SyncInductive
    BY InitHolds, InitNests
  <1> QED
    BY <1>1, <1>2, <1>3, PTL DEF Spec
=============================================================================
