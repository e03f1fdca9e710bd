--------------------------- MODULE Timers_proofs ----------------------------
(***************************************************************************)
(* The safety properties of Timers, for every value of its constants.      *)
(*                                                                         *)
(* The properties are not inductive by themselves: what a tick may do      *)
(* depends on where the entries of the heap and of the turns come from.    *)
(* Inductive adds that every entry is the one its id was registered with,  *)
(* that ids below nextId only are in use, that a timeout in the heap has   *)
(* not started and one that has neither started nor been cleared is still  *)
(* there, and that ids were registered in the order of the clock.          *)
(***************************************************************************)
EXTENDS Timers, SequenceTheorems, TLAPS

(* Entry e is the one its id was registered with.                           *)
Registered(e) ==
    /\ e.id \in Id
    /\ e.id < nextId
    /\ reg[e.id].kind = IF e.repeating THEN "interval" ELSE "timeout"
    /\ e.delay = reg[e.id].delay

HeapRegistered ==
    \A e \in heap :
        /\ Registered(e)
        /\ ~e.repeating => e.deadline = reg[e.id].deadline /\ starts[e.id] = 0

TurnsRegistered ==
    \A k \in 1 .. Len(frames) :
        frames[k].entry.id # 0 => Registered(frames[k].entry)

(* The time at which id i was registered.                                   *)
Born(i) == reg[i].deadline - reg[i].delay

RegisteredInOrder ==
    /\ \A i \in Id : reg[i].kind = "none" => starts[i] = 0
    /\ \A i \in Id : reg[i].kind # "none" => i < nextId /\ Born(i) <= now
    /\ \A a, b \in Id :
          a < b /\ reg[a].kind # "none" /\ reg[b].kind # "none" => Born(a) <= Born(b)

TimeoutsKept ==
    \A i \in Id : OneShot(i) /\ starts[i] = 0 /\ i \notin canceled => InHeap(i)

(* HandleOwnsLive, for the timers whose turn has not ended too.             *)
Owned(i) == \E h \in Handle : handle[h].id = i
HandlesDistinct ==
    /\ \A h \in Handle : handle[h].id < nextId
    /\ \A g, h \in Handle : handle[g].id = handle[h].id => g = h \/ handle[g].id = 0
HeapOwned == \A e \in heap : e.id \notin canceled => Owned(e.id)
TurnsOwned ==
    \A k \in 1 .. Len(frames) :
        frames[k].entry.id # 0 /\ frames[k].entry.id \notin canceled
            => Owned(frames[k].entry.id)

Inductive ==
    /\ TypeOK
    /\ HeapRegistered
    /\ TurnsRegistered
    /\ RegisteredInOrder
    /\ SingleOwner
    /\ ProtectExact
    /\ OneShotOnce
    /\ TimeoutsKept
    /\ SameDelayOrder
    /\ HandlesDistinct
    /\ HeapOwned
    /\ TurnsOwned

-----------------------------------------------------------------------------
(* The delays a script passes become natural numbers.                       *)
LEMMA DelayIsNat ==
    ASSUME NEW d \in Int, NEW every \in BOOLEAN
    PROVE  DelayMs(d, every) \in Nat
  BY DEF DelayMs, TimeoutMs, IntervalMs

(* What appending a turn to the stack, and removing one, leaves in place.   *)
LEMMA PushTurn ==
    ASSUME NEW F, NEW s \in Seq(F), NEW f \in F, NEW t, t = Append(s, f)
    PROVE  /\ t \in Seq(F)
           /\ Len(t) = Len(s) + 1
           /\ \A k \in 1 .. Len(s) : t[k] = s[k]
           /\ t[Len(t)] = f
  OBVIOUS

(* ... and what removing the last turn leaves in place.                     *)
LEMMA PopTurn ==
    ASSUME NEW F, NEW s \in Seq(F), Len(s) > 0, NEW t, t = SubSeq(s, 1, Len(s) - 1)
    PROVE  /\ t \in Seq(F)
           /\ Len(t) = Len(s) - 1
           /\ \A k \in 1 .. Len(t) : t[k] = s[k]
  <1> DEFINE n == Len(s) - 1
  <1>1. n \in Nat /\ (\A i \in 1 .. n : s[i] \in F)
    OBVIOUS
  <1>2. t = SubSeq(s, 1, n)
    OBVIOUS
  <1> HIDE DEF n
  <1>3. /\ t \in Seq(F)
        /\ Len(t) = IF 1 <= n THEN n - 1 + 1 ELSE 0
        /\ \A i \in 1 .. n - 1 + 1 : t[i] = s[1 + i - 1]
    BY <1>1, <1>2, SubSeqProperties
  <1>4. Len(t) = n /\ (\A i \in 1 .. n : t[i] = s[i])
    BY <1>1, <1>3
  <1> QED
    BY <1>3, <1>4 DEF n

(* The initial state satisfies the invariant.                               *)
LEMMA InitInductive == Init => Inductive
  <1> SUFFICES ASSUME Init PROVE Inductive
    OBVIOUS
  <1> USE BoundsAssumption DEF Init, NoEntry, Unset
  <1>1. TypeOK
    BY DEF TypeOK, Id, Kind, Frame, Entry, Past
  <1>2. HeapRegistered /\ TurnsRegistered /\ RegisteredInOrder
    BY DEF HeapRegistered, TurnsRegistered, RegisteredInOrder
  <1>3. SingleOwner /\ ProtectExact
    BY DEF SingleOwner, ProtectExact, InHeap, InTurn, Depth, Id
  <1>4. OneShotOnce /\ TimeoutsKept /\ SameDelayOrder
    BY DEF OneShotOnce, TimeoutsKept, SameDelayOrder, OneShot
  <1>5. HandlesDistinct /\ HeapOwned /\ TurnsOwned
    BY DEF HandlesDistinct, HeapOwned, TurnsOwned
  <1> QED
    BY <1>1, <1>2, <1>3, <1>4, <1>5 DEF Inductive

(* Registering a timer, under whatever handle and with whatever ids cleared *)
(* in the same step.                                                        *)
LEMMA RegisterStep ==
    ASSUME Inductive,
           NEW d \in Int, NEW every \in BOOLEAN, Register(d, every),
           NEW old \in SUBSET Nat, canceled' = canceled \cup old,
           UNCHANGED <<now, frames, starts>>
    PROVE  /\ heap' \subseteq Entry
           /\ canceled' \subseteq Nat
           /\ nextId \in Id
           /\ nextId' = nextId + 1
           /\ protect' \in [Id -> {0, 1}]
           /\ reg' \in [Id -> [kind : Kind, deadline : Nat, delay : Nat]]
           /\ \A e \in heap' : e \in heap \/ e.id = nextId
           /\ HeapRegistered'
           /\ TurnsRegistered'
           /\ RegisteredInOrder'
           /\ SingleOwner'
           /\ ProtectExact'
           /\ OneShotOnce'
           /\ TimeoutsKept'
           /\ SameDelayOrder'
           /\ reg[nextId].kind = "none"
           /\ \A i \in Id :
                /\ InHeap(i)' <=> InHeap(i) \/ i = nextId
                /\ InTurn(i)' <=> InTurn(i)
  <1> DEFINE ms == DelayMs(d, every)
             new == [id |-> nextId, deadline |-> now + ms,
                     delay |-> ms, repeating |-> every]
             what == [kind |-> IF every THEN "interval" ELSE "timeout",
                      deadline |-> now + ms, delay |-> ms]
  <1> USE DEF Inductive
  <1>1. ms \in Nat
    BY DelayIsNat
  <1>2. /\ nextId \in Id
        /\ heap' = heap \cup {new}
        /\ protect' = [protect EXCEPT ![nextId] = @ + 1]
        /\ reg' = [reg EXCEPT ![nextId] = what]
        /\ nextId' = nextId + 1
    BY DEF Register
  <1> HIDE DEF ms
  <1>3. new \in Entry /\ what \in [kind : Kind, deadline : Nat, delay : Nat]
    BY <1>1, <1>2 DEF TypeOK, Entry, Kind, Id
  <1>4. /\ ~InHeap(nextId)
        /\ ~InTurn(nextId)
        /\ reg[nextId].kind = "none"
        /\ starts[nextId] = 0
    BY <1>2 DEF HeapRegistered, TurnsRegistered, RegisteredInOrder, Registered,
                InHeap, InTurn, TypeOK, Depth, Id
  <1>5. \A i \in Id : i # nextId => reg'[i] = reg[i]
    BY <1>2 DEF TypeOK
  <1>6. reg'[nextId] = what
    BY <1>2 DEF TypeOK
  <1>7. /\ heap' \subseteq Entry
        /\ canceled' \subseteq Nat
        /\ reg' \in [Id -> [kind : Kind, deadline : Nat, delay : Nat]]
        /\ \A e \in heap' : e \in heap \/ e.id = nextId
    BY <1>2, <1>3 DEF TypeOK
  <1>8. protect[nextId] = 0
    BY <1>2, <1>4 DEF ProtectExact
  <1>9. protect' \in [Id -> {0, 1}]
    BY <1>2, <1>8 DEF TypeOK
  <1>10. HeapRegistered'
    <2> SUFFICES ASSUME NEW e \in heap'
                 PROVE  /\ Registered(e)'
                        /\ ~e.repeating => e.deadline = reg'[e.id].deadline
                                            /\ starts'[e.id] = 0
      BY DEF HeapRegistered
    <2>1. CASE e \in heap
      BY <2>1, <1>2, <1>5 DEF HeapRegistered, Registered, Id, TypeOK
    <2>2. CASE e = new
      BY <2>2, <1>1, <1>2, <1>4, <1>6 DEF Registered, Id, TypeOK
    <2> QED BY <2>1, <2>2, <1>2
  <1>11. TurnsRegistered'
    BY <1>2, <1>5 DEF TurnsRegistered, Registered, Id, TypeOK
  <1>12. RegisteredInOrder'
    <2>1. reg'[nextId].deadline - reg'[nextId].delay = now
      BY <1>1, <1>6 DEF TypeOK
    <2>2. \A i \in Id : i # nextId => Born(i)' = Born(i)
      BY <1>5 DEF Born
    <2>3. \A i \in Id : reg[i].kind # "none" => i < nextId /\ Born(i) <= now
      BY DEF RegisteredInOrder
    <2>4. \A i \in Id : reg'[i].kind # "none" => i = nextId \/ reg[i].kind # "none"
      BY <1>5
    <2>5. ASSUME NEW i \in Id, reg'[i].kind # "none"
          PROVE  i < nextId' /\ Born(i)' <= now'
      <3>1. CASE i = nextId
        BY <3>1, <1>2, <2>1 DEF Born, Id, TypeOK
      <3>2. CASE i # nextId
        BY <3>2, <1>2, <2>2, <2>3, <2>4, <2>5 DEF Id, TypeOK
      <3> QED BY <3>1, <3>2
    <2>6. ASSUME NEW a \in Id, NEW b \in Id, a < b,
                 reg'[a].kind # "none", reg'[b].kind # "none"
          PROVE  Born(a)' <= Born(b)'
      <3>1. a # nextId
        BY <2>3, <2>4, <2>6, <1>2 DEF Id, TypeOK
      <3>2. reg[a].kind # "none" /\ Born(a)' = Born(a) /\ Born(a) <= now
        BY <2>2, <2>3, <2>4, <2>6, <3>1
      <3>3. CASE b = nextId
        BY <3>2, <3>3, <2>1 DEF Born
      <3>4. CASE b # nextId
        BY <3>2, <3>4, <2>2, <2>4, <2>6 DEF RegisteredInOrder
      <3> QED BY <3>3, <3>4
    <2>7. \A i \in Id : reg'[i].kind = "none" => starts'[i] = 0
      BY <1>4, <1>5 DEF RegisteredInOrder
    <2> QED BY <2>5, <2>6, <2>7 DEF RegisteredInOrder
  <1>13. SingleOwner'
    BY <1>2, <1>4 DEF SingleOwner, InHeap, InTurn, Depth
  <1>14. ASSUME NEW i \in Id
         PROVE  /\ InHeap(i)' <=> InHeap(i) \/ i = nextId
                /\ InTurn(i)' <=> InTurn(i)
                /\ protect'[i] = IF InHeap(i)' \/ InTurn(i)' THEN 1 ELSE 0
    <2>1. InTurn(i)' <=> InTurn(i)
      BY DEF InTurn, Depth
    <2>2. InHeap(i)' <=> InHeap(i) \/ i = nextId
      <3>1. new \in heap' /\ new.id = nextId
        BY <1>2
      <3>2. \A e \in heap' : e \in heap \/ e.id = nextId
        BY <1>7
      <3>3. heap \subseteq heap'
        BY <1>2
      <3> QED BY <3>1, <3>2, <3>3 DEF InHeap
    <2>3. CASE i = nextId
      BY <2>1, <2>2, <2>3, <1>2, <1>8 DEF TypeOK
    <2>4. CASE i # nextId
      BY <2>1, <2>2, <2>4, <1>2 DEF TypeOK, ProtectExact
    <2> QED BY <2>1, <2>2, <2>3, <2>4
  <1>15. OneShotOnce'
    BY <1>4, <1>5 DEF OneShotOnce, OneShot
  <1>16. TimeoutsKept'
    <2> SUFFICES ASSUME NEW i \in Id, OneShot(i)', starts'[i] = 0, i \notin canceled'
                 PROVE  \E e \in heap' : e.id = i
      BY DEF TimeoutsKept, InHeap
    <2>1. CASE i = nextId
      <3>1. new \in heap' /\ new.id = nextId
        BY <1>2
      <3> QED BY <2>1, <3>1
    <2>2. CASE i # nextId
      BY <2>2, <1>2, <1>5 DEF TimeoutsKept, OneShot, InHeap
    <2> QED BY <2>1, <2>2
  <1>17. SameDelayOrder'
    <2> SUFFICES ASSUME NEW a \in Id, NEW b \in Id,
                        OneShot(a)', OneShot(b)', a < b,
                        reg'[a].delay <= reg'[b].delay, starts'[b] > 0
                 PROVE  starts'[a] > 0 \/ a \in canceled'
      BY DEF SameDelayOrder
    <2>1. b # nextId
      BY <1>4
    <2>2. a # nextId
      BY <2>1, <1>2, <1>5 DEF OneShot, RegisteredInOrder, Id, TypeOK
    <2> QED BY <2>1, <2>2, <1>5 DEF SameDelayOrder, OneShot
  <1> QED
    BY <1>2, <1>4, <1>7, <1>9, <1>10, <1>11, <1>12, <1>13, <1>14, <1>15, <1>16,
       <1>17 DEF ProtectExact

(* The set functions and refresh().                                         *)
LEMMA SetTimerStep ==
    ASSUME Inductive,
           NEW h \in Handle, NEW d \in DelayTenths, NEW every \in BOOLEAN,
           SetTimer(h, d, every)
    PROVE  Inductive'
  <1> USE DEF Inductive
  <1>1. d \in Int /\ Register(d, every) /\ canceled' = canceled \cup {}
    BY InputAssumption DEF SetTimer
  <1>2. /\ handle' = [handle EXCEPT ![h] = [id |-> nextId, ms |-> d, isInterval |-> every]]
        /\ UNCHANGED <<now, canceled, frames, starts>>
        /\ handle[h].id = 0
    BY DEF SetTimer
  <1>3. /\ heap' \subseteq Entry
        /\ canceled' \subseteq Nat
        /\ nextId \in Id
        /\ nextId' = nextId + 1
        /\ protect' \in [Id -> {0, 1}]
        /\ reg' \in [Id -> [kind : Kind, deadline : Nat, delay : Nat]]
        /\ \A e \in heap' : e \in heap \/ e.id = nextId
        /\ HeapRegistered' /\ TurnsRegistered' /\ RegisteredInOrder'
        /\ SingleOwner' /\ ProtectExact'
        /\ OneShotOnce' /\ TimeoutsKept' /\ SameDelayOrder'
    BY <1>1, <1>2, {} \in SUBSET Nat, RegisterStep
  <1>4. TypeOK'
    <2>1. [id |-> nextId, ms |-> d, isInterval |-> every]
             \in [id : 0 .. MaxId, ms : Int, isInterval : BOOLEAN]
      BY <1>1, <1>3, BoundsAssumption DEF Id
    <2>2. handle' \in [Handle -> [id : 0 .. MaxId, ms : Int, isInterval : BOOLEAN]]
      BY <2>1, <1>2 DEF TypeOK
    <2>3. nextId' \in 1 .. (MaxId + 1)
      BY <1>3, BoundsAssumption DEF Id
    <2>4. past' \in [Handle -> Past]
      BY <1>3 DEF SetTimer, TypeOK, Past
    <2> QED BY <2>2, <2>3, <2>4, <1>2, <1>3 DEF TypeOK
  <1>5. handle'[h].id = nextId /\ \A g \in Handle : g # h => handle'[g] = handle[g]
    BY <1>2 DEF TypeOK
  <1>6. HandlesDistinct'
    <2>1. nextId \in Nat /\ nextId' = nextId + 1 /\ nextId # 0
      BY <1>3 DEF TypeOK, Id
    <2>2. \A g \in Handle : handle[g].id \in Nat /\ handle[g].id < nextId
      BY DEF TypeOK, HandlesDistinct
    <2>3. \A g \in Handle : handle'[g].id < nextId'
      BY <2>1, <2>2, <1>5
    <2>4. ASSUME NEW f \in Handle, NEW g \in Handle, handle'[f].id = handle'[g].id
          PROVE  f = g \/ handle'[f].id = 0
      BY <2>1, <2>2, <2>4, <1>5 DEF HandlesDistinct
    <2> QED BY <2>3, <2>4 DEF HandlesDistinct
  <1>7. \A i \in Nat : Owned(i) /\ i # 0 => Owned(i)'
    BY <1>2, <1>5 DEF Owned
  <1>8. HeapOwned'
    <2>1. ASSUME NEW e \in heap', e.id \notin canceled'
          PROVE  Owned(e.id)'
      <3>1. CASE e \in heap
        BY <3>1, <2>1, <1>2, <1>7 DEF HeapOwned, HeapRegistered, Registered, Id
      <3>2. CASE e.id = nextId
        BY <3>2, <1>5 DEF Owned
      <3> QED BY <3>1, <3>2, <1>3
    <2> QED BY <2>1 DEF HeapOwned
  <1>9. TurnsOwned'
    <2>1. frames' = frames
      BY <1>2
    <2>2. ASSUME NEW k \in 1 .. Len(frames), frames[k].entry.id # 0,
                 frames[k].entry.id \notin canceled'
          PROVE  \E g \in Handle : handle'[g].id = frames[k].entry.id
      <3>1. /\ frames[k].entry.id \in Nat
            /\ Owned(frames[k].entry.id)
        BY <2>2, <1>2 DEF TurnsOwned, TurnsRegistered, Registered, Id
      <3> QED BY <3>1, <2>2, <1>2, <1>5 DEF Owned
    <2> QED BY <2>1, <2>2 DEF TurnsOwned, Owned
  <1> QED
    BY <1>3, <1>4, <1>6, <1>8, <1>9

(* A refresh clears and registers in one step.                              *)
LEMMA RefreshStep ==
    ASSUME Inductive, NEW h \in Handle, Refresh(h)
    PROVE  Inductive'
  <1> USE DEF Inductive
  <1>1. /\ handle[h].ms \in Int
        /\ handle[h].isInterval \in BOOLEAN
        /\ handle[h].id \in Nat
        /\ handle[h].id # 0
    BY DEF TypeOK, Refresh, Id
  <1>2. /\ Register(handle[h].ms, handle[h].isInterval)
        /\ canceled' = canceled \cup {handle[h].id}
        /\ handle' = [handle EXCEPT ![h].id = nextId]
        /\ UNCHANGED <<now, frames, starts>>
    BY DEF Refresh, IdsOf
  <1>3. /\ heap' \subseteq Entry
        /\ canceled' \subseteq Nat
        /\ nextId \in Id
        /\ nextId' = nextId + 1
        /\ protect' \in [Id -> {0, 1}]
        /\ reg' \in [Id -> [kind : Kind, deadline : Nat, delay : Nat]]
        /\ \A e \in heap' : e \in heap \/ e.id = nextId
        /\ HeapRegistered' /\ TurnsRegistered' /\ RegisteredInOrder'
        /\ SingleOwner' /\ ProtectExact'
        /\ OneShotOnce' /\ TimeoutsKept' /\ SameDelayOrder'
    BY <1>1, <1>2, RegisterStep
  <1>4. TypeOK'
    <2>1. nextId \in 0 .. MaxId
      BY <1>3, BoundsAssumption DEF Id
    <2>2. handle' \in [Handle -> [id : 0 .. MaxId, ms : Int, isInterval : BOOLEAN]]
      BY <2>1, <1>2 DEF TypeOK
    <2>3. nextId' \in 1 .. (MaxId + 1)
      BY <1>3, BoundsAssumption DEF Id
    <2>4. past' \in [Handle -> Past]
      BY <1>3 DEF Refresh, TypeOK, Past
    <2> QED BY <2>2, <2>3, <2>4, <1>2, <1>3 DEF TypeOK
  <1>5. handle'[h].id = nextId /\ \A g \in Handle : g # h => handle'[g] = handle[g]
    BY <1>2 DEF TypeOK
  <1>6. HandlesDistinct'
    <2>1. nextId \in Nat /\ nextId' = nextId + 1 /\ nextId # 0
      BY <1>3 DEF TypeOK, Id
    <2>2. \A g \in Handle : handle[g].id \in Nat /\ handle[g].id < nextId
      BY DEF TypeOK, HandlesDistinct
    <2>3. \A g \in Handle : handle'[g].id < nextId'
      BY <2>1, <2>2, <1>5
    <2>4. ASSUME NEW f \in Handle, NEW g \in Handle, handle'[f].id = handle'[g].id
          PROVE  f = g \/ handle'[f].id = 0
      BY <2>1, <2>2, <2>4, <1>5 DEF HandlesDistinct
    <2> QED BY <2>3, <2>4 DEF HandlesDistinct
  <1>7. \A i \in Nat : Owned(i) /\ i \notin canceled' => Owned(i)'
    BY <1>2, <1>5 DEF Owned
  <1>8. HeapOwned'
    <2>1. ASSUME NEW e \in heap', e.id \notin canceled'
          PROVE  Owned(e.id)'
      <3>1. CASE e \in heap
        BY <3>1, <2>1, <1>2, <1>7 DEF HeapOwned, HeapRegistered, Registered, Id
      <3>2. CASE e.id = nextId
        BY <3>2, <1>5 DEF Owned
      <3> QED BY <3>1, <3>2, <1>3
    <2> QED BY <2>1 DEF HeapOwned
  <1>9. TurnsOwned'
    <2>1. frames' = frames
      BY <1>2
    <2>2. ASSUME NEW k \in 1 .. Len(frames), frames[k].entry.id # 0,
                 frames[k].entry.id \notin canceled'
          PROVE  \E g \in Handle : handle'[g].id = frames[k].entry.id
      <3>1. /\ frames[k].entry.id \in Nat
            /\ Owned(frames[k].entry.id)
        BY <2>2, <1>2 DEF TurnsOwned, TurnsRegistered, Registered, Id
      <3> QED BY <3>1, <2>2, <1>2, <1>5 DEF Owned
    <2> QED BY <2>1, <2>2 DEF TurnsOwned, Owned
  <1> QED
    BY <1>3, <1>4, <1>6, <1>8, <1>9

(* Clearing ids, whichever they are.                                        *)
LEMMA ClearStep ==
    ASSUME Inductive, NEW old \in SUBSET Nat, canceled' = canceled \cup old,
           UNCHANGED <<now, heap, nextId, protect, frames, handle, reg, starts>>,
           past' \in [Handle -> Past]
    PROVE  Inductive'
  <1> USE DEF Inductive
  <1>1. TypeOK'
    BY DEF TypeOK
  <1>2. HeapRegistered' /\ TurnsRegistered'
    BY DEF HeapRegistered, TurnsRegistered, Registered
  <1>3. RegisteredInOrder' /\ HandlesDistinct'
    BY DEF RegisteredInOrder, HandlesDistinct, Born
  <1>4. SingleOwner' /\ ProtectExact'
    BY DEF SingleOwner, ProtectExact, InHeap, InTurn, Depth
  <1>5. OneShotOnce' /\ TimeoutsKept' /\ SameDelayOrder'
    BY DEF OneShotOnce, TimeoutsKept, SameDelayOrder, OneShot, InHeap
  <1>6. HeapOwned' /\ TurnsOwned'
    BY DEF HeapOwned, TurnsOwned, Owned
  <1> QED
    BY <1>1, <1>2, <1>3, <1>4, <1>5, <1>6

(* The clock and the other threads.                                         *)
LEMMA OutsideStep ==
    ASSUME Inductive, AdvanceClock \/ IdTakenElsewhere
    PROVE  Inductive'
  <1> USE DEF Inductive
  <1>1. /\ now' \in Nat /\ now <= now'
        /\ nextId' \in 1 .. (MaxId + 1) /\ nextId <= nextId'
        /\ UNCHANGED <<heap, canceled, protect, frames, handle, reg, starts, past>>
    BY SMTT(30), BoundsAssumption DEF AdvanceClock, IdTakenElsewhere, TypeOK, Id
  <1>2. TypeOK'
    BY <1>1 DEF TypeOK
  <1>3. HeapRegistered' /\ TurnsRegistered'
    BY <1>1 DEF HeapRegistered, TurnsRegistered, Registered, TypeOK, Id
  <1>4. RegisteredInOrder'
    <2>1. now \in Nat /\ nextId \in Nat /\ nextId' \in Nat /\ Id \subseteq Nat
      BY <1>1, BoundsAssumption DEF TypeOK, Id
    <2>2. \A i \in Id : reg[i].deadline - reg[i].delay \in Int
      BY DEF TypeOK
    <2>3. RegisteredInOrder
      OBVIOUS
    <2> QED
      BY ONLY <1>1, <2>1, <2>2, <2>3 DEF RegisteredInOrder, Born
  <1>5. HandlesDistinct'
    BY <1>1 DEF HandlesDistinct, TypeOK
  <1>6. SingleOwner' /\ ProtectExact'
    BY <1>1 DEF SingleOwner, ProtectExact, InHeap, InTurn, Depth
  <1>7. OneShotOnce' /\ TimeoutsKept' /\ SameDelayOrder'
    BY <1>1 DEF OneShotOnce, TimeoutsKept, SameDelayOrder, OneShot, InHeap
  <1>8. HeapOwned' /\ TurnsOwned'
    BY <1>1 DEF HeapOwned, TurnsOwned, Owned
  <1> QED
    BY <1>2, <1>3, <1>4, <1>5, <1>6, <1>7, <1>8

(* Turns that are not the callback of a timer come and go, and wait.        *)
LEMMA TurnsStep ==
    ASSUME Inductive,
           UNCHANGED <<now, heap, canceled, nextId, protect, handle, reg, starts, past>>,
           frames' \in Seq(Frame),
           \A k \in 1 .. Len(frames) :
               k \in 1 .. Len(frames') /\ frames'[k].entry = frames[k].entry,
           \A k \in 1 .. Len(frames') :
               k \in 1 .. Len(frames) \/ frames'[k].entry.id = 0
    PROVE  Inductive' /\ \A i \in Id : InTurn(i)' <=> InTurn(i)
  <1> USE DEF Inductive
  <1>1. TypeOK'
    BY DEF TypeOK
  <1>2. HeapRegistered' /\ RegisteredInOrder' /\ HandlesDistinct' /\ HeapOwned'
    BY DEF HeapRegistered, Registered, RegisteredInOrder, Born, HandlesDistinct,
           HeapOwned, Owned
  <1>3. TurnsRegistered'
    BY DEF TurnsRegistered, Registered
  <1>4. TurnsOwned'
    BY DEF TurnsOwned, Owned
  <1>5. SingleOwner'
    BY DEF SingleOwner, InHeap, Depth
  <1>6. \A i \in Id : InTurn(i)' <=> InTurn(i)
    BY DEF InTurn, Depth, Id
  <1>7. ProtectExact'
    BY <1>6 DEF ProtectExact, InHeap
  <1>8. OneShotOnce' /\ TimeoutsKept' /\ SameDelayOrder'
    BY DEF OneShotOnce, TimeoutsKept, SameDelayOrder, OneShot, InHeap
  <1> QED
    BY <1>1, <1>2, <1>3, <1>4, <1>5, <1>6, <1>7, <1>8

(* The steps that do so: require() blocks and returns, a task is called.    *)
LEMMA NestStep ==
    ASSUME Inductive, Await \/ Resume \/ StartTask
    PROVE  Inductive' /\ \A i \in Id : InTurn(i)' <=> InTurn(i)
  <1>1. frames \in Seq(Frame)
    BY DEF Inductive, TypeOK
  <1>2. CASE Await \/ Resume
    <2>1. PICK b \in BOOLEAN : frames' = [frames EXCEPT ![Len(frames)].waiting = b]
      BY <1>2 DEF Await, Resume, Depth
    <2>2. Len(frames) \in 1 .. Len(frames)
      BY <1>1, <1>2 DEF Await, Resume, Running, Depth
    <2>3. [frames[Len(frames)] EXCEPT !.waiting = b] \in Frame
      <3>1. frames[Len(frames)] \in Frame
        BY <1>1, <2>2
      <3> QED BY <3>1 DEF Frame
    <2>4. /\ frames' \in Seq(Frame)
          /\ Len(frames') = Len(frames)
          /\ \A k \in 1 .. Len(frames) : frames'[k].entry = frames[k].entry
      BY <1>1, <2>1, <2>2, <2>3 DEF Frame
    <2>5. UNCHANGED <<now, heap, canceled, nextId, protect, handle, reg, starts, past>>
      BY <1>2 DEF Await, Resume
    <2> QED BY <2>4, <2>5, TurnsStep
  <1>3. CASE StartTask
    <2> DEFINE f == [entry |-> NoEntry, waiting |-> FALSE]
    <2>1. f \in Frame /\ f.entry.id = 0
      BY DEF Frame, Entry, NoEntry
    <2>2. frames' = Append(frames, f)
      BY <1>3 DEF StartTask
    <2> HIDE DEF f
    <2>3. /\ frames' \in Seq(Frame)
          /\ Len(frames') = Len(frames) + 1
          /\ \A k \in 1 .. Len(frames) : frames'[k] = frames[k]
          /\ frames'[Len(frames')] = f
      BY <1>1, <2>1, <2>2, PushTurn
    <2>4. Len(frames) \in Nat
      BY <1>1
    <2>5. UNCHANGED <<now, heap, canceled, nextId, protect, handle, reg, starts, past>>
      BY <1>3 DEF StartTask
    <2>6. \A k \in 1 .. Len(frames') :
              k \in 1 .. Len(frames) \/ frames'[k].entry.id = 0
      BY <2>1, <2>3, <2>4
    <2> QED BY <2>3, <2>4, <2>5, <2>6, TurnsStep
  <1> QED BY <1>2, <1>3

(* The cleared entries a tick meets leave the heap, and nothing else.       *)
LEMMA TickIdleStep ==
    ASSUME Inductive, TickIdle
    PROVE  Inductive'
  <1> USE DEF Inductive
  <1> DEFINE gone == {x \in heap \ Live : \A e \in Live : Before(x, e)}
  <1>1. /\ heap' = heap \ gone
        /\ protect' = Unprotected(gone)
        /\ UNCHANGED <<now, canceled, nextId, frames, handle, reg, starts, past>>
    BY DEF TickIdle
  <1>2. \A x \in gone : x \in heap /\ x.id \in canceled
    BY DEF Live
  <1> HIDE DEF gone
  <1>3. ASSUME NEW i \in Id
        PROVE  /\ protect'[i] = IF InHeap(i)' \/ InTurn(i)' THEN 1 ELSE 0
               /\ protect'[i] \in {0, 1}
    <2>1. InTurn(i)' <=> InTurn(i)
      BY <1>1 DEF InTurn, Depth
    <2>2. protect[i] = IF InHeap(i) \/ InTurn(i) THEN 1 ELSE 0
      BY DEF ProtectExact
    <2>3. CASE \E x \in gone : x.id = i
      <3>1. protect'[i] = protect[i] - 1
        BY <2>3, <1>1 DEF Unprotected
      <3>2. InHeap(i)
        BY <2>3, <1>2 DEF InHeap
      <3>3. ~InTurn(i)
        BY <3>2 DEF InTurn, SingleOwner, InHeap, Id
      <3>4. ~InHeap(i)'
        BY <2>3, <1>1, <1>2 DEF InHeap, SingleOwner
      <3> QED BY <2>1, <2>2, <3>1, <3>2, <3>3, <3>4
    <2>4. CASE ~ \E x \in gone : x.id = i
      <3>1. protect'[i] = protect[i]
        BY <2>4, <1>1 DEF Unprotected
      <3>2. InHeap(i)' <=> InHeap(i)
        BY <2>4, <1>1 DEF InHeap
      <3> QED BY <2>1, <2>2, <3>1, <3>2
    <2> QED BY <2>3, <2>4
  <1>4. ProtectExact' /\ TypeOK'
    <2>1. ProtectExact'
      BY <1>3 DEF ProtectExact
    <2>2. protect' \in [Id -> {0, 1}]
      BY <1>1, <1>3 DEF Unprotected
    <2>3. TypeOK'
      BY <2>2, <1>1 DEF TypeOK
    <2> QED BY <2>1, <2>3
  <1>5. HeapRegistered' /\ TurnsRegistered'
    BY <1>1 DEF HeapRegistered, TurnsRegistered, Registered
  <1>6. RegisteredInOrder' /\ HandlesDistinct'
    BY <1>1 DEF RegisteredInOrder, Born, HandlesDistinct
  <1>7. HeapOwned' /\ TurnsOwned'
    BY <1>1 DEF HeapOwned, TurnsOwned, Owned
  <1>8. SingleOwner'
    BY <1>1 DEF SingleOwner, InHeap, Depth
  <1>9. TimeoutsKept'
    BY <1>1, <1>2 DEF TimeoutsKept, OneShot, InHeap
  <1>10. OneShotOnce' /\ SameDelayOrder'
    BY <1>1 DEF OneShotOnce, SameDelayOrder, OneShot
  <1> QED
    BY <1>4, <1>5, <1>6, <1>7, <1>8, <1>9, <1>10

(* A tick starts the callback of the first timer that is due.               *)
LEMMA TickFireStep ==
    ASSUME Inductive, NEW e \in heap, TickFire(e)
    PROVE  Inductive' /\ \A i \in Id : InTurn(i)' <=> InTurn(i) \/ i = e.id
  <1> USE DEF Inductive
  <1> DEFINE gone == Popped(e) \ {e}
             f == [entry |-> e, waiting |-> FALSE]
  <1>1. /\ heap' = heap \ Popped(e)
        /\ protect' = Unprotected(gone)
        /\ frames' = Append(frames, f)
        /\ starts' = [starts EXCEPT ![e.id] = Count(@)]
        /\ UNCHANGED <<now, canceled, nextId, handle, reg, past>>
    BY DEF TickFire
  <1>2. \A x \in gone : x \in heap /\ x.id \in canceled /\ x # e
    BY DEF Popped, Live
  <1>3. /\ e.id \notin canceled
        /\ \A x \in heap : x.id \notin canceled => x = e \/ Before(e, x)
    BY DEF TickFire, First, Live
  <1>4. heap' = heap \ (gone \cup {e})
    BY <1>1 DEF Popped
  <1> HIDE DEF gone
  <1>5. e \in Entry /\ Registered(e) /\ e.id \in Id /\ e.id # 0
    BY DEF TypeOK, HeapRegistered, Registered, Id
  <1>6. \A x \in heap : x.id = e.id => x = e
    BY DEF SingleOwner
  <1>7. InHeap(e.id) /\ ~InTurn(e.id)
    BY <1>5 DEF InHeap, InTurn, SingleOwner
  <1>8. frames \in Seq(Frame) /\ f \in Frame /\ f.entry = e
    BY <1>5 DEF TypeOK, Frame
  <1> HIDE DEF f
  <1>9. /\ frames' \in Seq(Frame)
        /\ Len(frames) \in Nat
        /\ Len(frames') = Len(frames) + 1
        /\ \A k \in 1 .. Len(frames) : frames'[k] = frames[k]
        /\ frames'[Len(frames')].entry = e
    <2>1. /\ frames' \in Seq(Frame)
          /\ Len(frames') = Len(frames) + 1
          /\ \A k \in 1 .. Len(frames) : frames'[k] = frames[k]
          /\ frames'[Len(frames')] = f
      BY <1>1, <1>8, PushTurn
    <2> QED BY <1>8, <2>1
  <1>10. \A k \in 1 .. Len(frames') :
            k \in 1 .. Len(frames) \/ k = Len(frames')
    BY <1>9
  <1>11. /\ \A i \in Id : i # e.id => starts'[i] = starts[i]
         /\ starts'[e.id] = Count(starts[e.id])
         /\ starts' \in [Id -> 0 .. 2]
    <2>1. starts \in [Id -> 0 .. 2]
      BY DEF TypeOK
    <2>2. \A n \in 0 .. 2 : Count(n) \in 0 .. 2
      BY DEF Count
    <2>3. Count(starts[e.id]) \in 0 .. 2
      BY <2>1, <2>2, <1>5
    <2>4. starts' = [starts EXCEPT ![e.id] = Count(starts[e.id])]
      BY <1>1
    <2> QED BY <2>1, <2>3, <2>4, <1>5
  <1>12. /\ starts'[e.id] > 0
         /\ \A i \in Id : starts[i] > 0 => starts'[i] > 0
    <2>1. \A n \in 0 .. 2 : Count(n) > 0
      BY DEF Count
    <2>2. starts[e.id] \in 0 .. 2
      BY <1>5 DEF TypeOK
    <2>3. starts'[e.id] > 0
      BY <2>1, <2>2, <1>11
    <2> QED BY <2>3, <1>11
  <1>13. \A i \in Id : InTurn(i)' <=> InTurn(i) \/ i = e.id
    <2> SUFFICES ASSUME NEW i \in Id
                 PROVE  (\E k \in 1 .. Len(frames') : frames'[k].entry.id = i)
                           <=> InTurn(i) \/ i = e.id
      BY DEF InTurn, Depth
    <2>1. Len(frames') \in 1 .. Len(frames')
      BY <1>9
    <2>2. \A k \in 1 .. Len(frames) : k \in 1 .. Len(frames')
      BY <1>9
    <2> QED BY <2>1, <2>2, <1>9, <1>10 DEF InTurn, Depth
  <1>14. ASSUME NEW i \in Id
         PROVE  /\ protect'[i] = IF InHeap(i)' \/ InTurn(i)' THEN 1 ELSE 0
                /\ protect'[i] \in {0, 1}
    <2>1. protect[i] = IF InHeap(i) \/ InTurn(i) THEN 1 ELSE 0
      BY DEF ProtectExact
    <2>2. CASE i = e.id
      <3>1. ~ \E x \in gone : x.id = i
        BY <2>2, <1>2, <1>6
      <3>2. protect'[i] = protect[i]
        BY <3>1, <1>1 DEF Unprotected
      <3> QED BY <2>1, <2>2, <3>2, <1>7, <1>13
    <2>3. CASE i # e.id /\ \E x \in gone : x.id = i
      <3>1. protect'[i] = protect[i] - 1
        BY <2>3, <1>1 DEF Unprotected
      <3>2. InHeap(i)
        BY <2>3, <1>2 DEF InHeap
      <3>3. ~InTurn(i)
        BY <3>2 DEF InTurn, SingleOwner, InHeap, Id
      <3>4. ~InHeap(i)'
        BY <2>3, <1>2, <1>4 DEF InHeap, SingleOwner
      <3> QED BY <2>1, <2>3, <3>1, <3>2, <3>3, <3>4, <1>13
    <2>4. CASE i # e.id /\ ~ \E x \in gone : x.id = i
      <3>1. protect'[i] = protect[i]
        BY <2>4, <1>1 DEF Unprotected
      <3>2. InHeap(i)' <=> InHeap(i)
        BY <2>4, <1>4 DEF InHeap
      <3> QED BY <2>1, <2>4, <3>1, <3>2, <1>13
    <2> QED BY <2>2, <2>3, <2>4
  <1>15. ProtectExact' /\ TypeOK'
    <2>1. ProtectExact'
      BY <1>14 DEF ProtectExact
    <2>2. protect' \in [Id -> {0, 1}]
      BY <1>1, <1>14 DEF Unprotected
    <2>3. TypeOK'
      BY <2>2, <1>1, <1>4, <1>9, <1>11 DEF TypeOK
    <2> QED BY <2>1, <2>3
  <1>16. HeapRegistered'
    BY <1>1, <1>4, <1>6, <1>11 DEF HeapRegistered, Registered
  <1>17. TurnsRegistered'
    <2> SUFFICES ASSUME NEW k \in 1 .. Len(frames'), frames'[k].entry.id # 0
                 PROVE  Registered(frames'[k].entry)
      BY <1>1 DEF TurnsRegistered, Registered
    <2>1. CASE k \in 1 .. Len(frames)
      BY <2>1, <1>9 DEF TurnsRegistered
    <2>2. CASE k = Len(frames')
      BY <2>2, <1>5, <1>9
    <2> QED BY <2>1, <2>2, <1>10
  <1>18. RegisteredInOrder'
    <2>1. reg[e.id].kind # "none"
      BY <1>5 DEF Registered
    <2>2. \A i \in Id : reg'[i].kind = "none" => starts'[i] = 0
      BY <2>1, <1>1, <1>11 DEF RegisteredInOrder
    <2> QED BY <2>2, <1>1 DEF RegisteredInOrder, Born
  <1>19. SingleOwner'
    <2>1. \A x, y \in heap' : x.id = y.id => x = y
      BY <1>4 DEF SingleOwner
    <2>2. ASSUME NEW k \in 1 .. Len(frames'), frames'[k].entry.id # 0,
                 NEW x \in heap', x.id = frames'[k].entry.id
          PROVE  FALSE
      <3>1. x \in heap /\ x # e
        BY <1>4
      <3>2. CASE k \in 1 .. Len(frames)
        BY <2>2, <3>1, <3>2, <1>9 DEF SingleOwner, InHeap, Depth
      <3>3. CASE k = Len(frames')
        BY <2>2, <3>1, <3>3, <1>6, <1>9
      <3> QED BY <3>2, <3>3, <1>10
    <2>3. ASSUME NEW j \in 1 .. Len(frames'), NEW k \in 1 .. Len(frames'),
                 frames'[j].entry.id = frames'[k].entry.id, frames'[j].entry.id # 0
          PROVE  j = k
      <3>1. \A m \in 1 .. Len(frames) : frames[m].entry.id # e.id
        BY <1>7 DEF InTurn, Depth
      <3>2. CASE j \in 1 .. Len(frames) /\ k \in 1 .. Len(frames)
        BY <2>3, <3>2, <1>9 DEF SingleOwner, Depth
      <3>3. CASE j = Len(frames') /\ k \in 1 .. Len(frames)
        BY <2>3, <3>1, <3>3, <1>9
      <3>4. CASE j \in 1 .. Len(frames) /\ k = Len(frames')
        BY <2>3, <3>1, <3>4, <1>9
      <3> QED BY <3>2, <3>3, <3>4, <1>10
    <2> QED BY <2>1, <2>2, <2>3 DEF SingleOwner, InHeap, Depth
  <1>20. OneShotOnce'
    <2>1. OneShot(e.id) => starts[e.id] = 0
      BY <1>5 DEF HeapRegistered, Registered, OneShot
    <2> QED BY <2>1, <1>1, <1>11 DEF OneShotOnce, OneShot, Count
  <1>21. TimeoutsKept'
    <2> SUFFICES ASSUME NEW i \in Id, OneShot(i)', starts'[i] = 0, i \notin canceled'
                 PROVE  \E x \in heap' : x.id = i
      BY DEF TimeoutsKept, InHeap
    <2>1. i # e.id
      BY <1>12
    <2>2. PICK x \in heap : x.id = i
      BY <2>1, <1>1, <1>11 DEF TimeoutsKept, OneShot, InHeap
    <2>3. x \in heap'
      BY <2>1, <2>2, <1>1, <1>2, <1>4
    <2> QED BY <2>2, <2>3
  <1>22. SameDelayOrder'
    <2> SUFFICES ASSUME NEW a \in Id, NEW b \in Id, OneShot(a), OneShot(b), a < b,
                        reg[a].delay <= reg[b].delay, starts'[b] > 0,
                        starts'[a] = 0, a \notin canceled
                 PROVE  FALSE
      BY <1>1, <1>11 DEF SameDelayOrder, OneShot
    <2>1. starts[a] = 0
      <3>1. starts[a] \in 0 .. 2
        BY DEF TypeOK
      <3> QED BY <3>1, <1>12
    <2>2. b = e.id
      BY <2>1, <1>11 DEF SameDelayOrder, OneShot
    <2>3. PICK x \in heap : x.id = a
      BY <2>1 DEF TimeoutsKept, InHeap
    <2>4. Before(e, x)
      BY <2>2, <2>3, <1>3, <1>5 DEF Id
    <2>5. x.deadline = reg[a].deadline /\ e.deadline = reg[b].deadline
      BY <2>2, <2>3 DEF HeapRegistered, Registered, OneShot
    <2>6. Born(a) <= Born(b)
      BY DEF RegisteredInOrder, OneShot
    <2>7. reg[a].deadline \in Nat /\ reg[b].deadline \in Nat
          /\ reg[a].delay \in Nat /\ reg[b].delay \in Nat
      BY DEF TypeOK
    <2>8. reg[a].deadline <= reg[b].deadline
      BY <2>6, <2>7 DEF Born
    <2> QED BY <2>2, <2>3, <2>4, <2>5, <2>7, <2>8 DEF Before, Id
  <1>23. HandlesDistinct' /\ HeapOwned'
    BY <1>1, <1>4 DEF HandlesDistinct, HeapOwned, Owned
  <1>24. TurnsOwned'
    <2>1. \E h \in Handle : handle[h].id = e.id
      BY <1>3 DEF HeapOwned, Owned
    <2>2. ASSUME NEW k \in 1 .. Len(frames'), frames'[k].entry.id # 0,
                 frames'[k].entry.id \notin canceled
          PROVE  \E h \in Handle : handle[h].id = frames'[k].entry.id
      <3>1. CASE k \in 1 .. Len(frames)
        BY <2>2, <3>1, <1>9 DEF TurnsOwned, Owned
      <3>2. CASE k = Len(frames')
        BY <2>1, <3>2, <1>9
      <3> QED BY <3>1, <3>2, <1>10
    <2> QED BY <2>2, <1>1 DEF TurnsOwned, Owned
  <1> QED
    BY <1>13, <1>15, <1>16, <1>17, <1>18, <1>19, <1>20, <1>21, <1>22, <1>23, <1>24

(* A turn ends: its interval goes back to the heap, or its callback is      *)
(* released.                                                                *)
LEMMA EndTurnStep ==
    ASSUME Inductive, EndTurn
    PROVE  /\ Inductive'
           /\ Top.entry.id # 0 =>
                Registered(Top.entry) /\ InTurn(Top.entry.id) /\ ~InHeap(Top.entry.id)
           /\ \A i \in Id :
                /\ InTurn(i)' <=> InTurn(i) /\ i # Top.entry.id
                /\ InHeap(i)' <=> InHeap(i) \/ (i = Top.entry.id /\ Top.entry.repeating)
  <1> USE DEF Inductive
  <1> DEFINE t == frames[Len(frames)].entry
             new == [t EXCEPT !.deadline = now + t.delay]
  <1>1. /\ frames' = SubSeq(frames, 1, Len(frames) - 1)
        /\ heap' = heap \cup Rearmed(t)
        /\ protect' = Unprotected(Released(t))
        /\ UNCHANGED <<now, canceled, nextId, handle, reg, starts, past>>
    BY DEF EndTurn, Top, Depth
  <1>2. /\ frames \in Seq(Frame)
        /\ Len(frames) \in Nat
        /\ Len(frames) > 0
        /\ Len(frames) \in 1 .. Len(frames)
        /\ frames[Len(frames)] \in Frame
    <2>1. frames \in Seq(Frame)
      BY DEF TypeOK
    <2>2. Len(frames) > 0 /\ Len(frames) \in Nat
      BY <2>1 DEF EndTurn, Running, Depth
    <2> QED BY <2>1, <2>2
  <1>3. /\ frames' \in Seq(Frame)
        /\ Len(frames') = Len(frames) - 1
        /\ \A k \in 1 .. Len(frames') : k \in 1 .. Len(frames) /\ frames'[k] = frames[k]
    <2>1. /\ frames' \in Seq(Frame)
          /\ Len(frames') = Len(frames) - 1
          /\ \A k \in 1 .. Len(frames') : frames'[k] = frames[k]
      <3> HIDE DEF t, new
      <3> QED BY <1>1, <1>2, PopTurn
    <2> QED BY <2>1, <1>2
  <1>4. \A k \in 1 .. Len(frames) : k \in 1 .. Len(frames') \/ k = Len(frames)
    BY <1>2, <1>3
  <1>5. t \in Entry
    BY <1>2 DEF Frame
  <1>6. t.id # 0 => Registered(t) /\ t.id \in Id /\ InTurn(t.id) /\ ~InHeap(t.id)
    BY <1>2 DEF TurnsRegistered, Registered, InTurn, SingleOwner, Depth
  <1>7. t.id # 0 => \A k \in 1 .. Len(frames') : frames'[k].entry.id # t.id
    BY <1>2, <1>3 DEF SingleOwner, Depth
  <1>8. t.id # 0 /\ t.id \notin canceled => Owned(t.id)
    BY <1>2 DEF TurnsOwned
  <1> HIDE DEF t
  <1>9. \A i \in Id : InTurn(i) <=> InTurn(i)' \/ i = t.id
    <2> SUFFICES ASSUME NEW i \in Id
                 PROVE  (\E k \in 1 .. Len(frames) : frames[k].entry.id = i)
                          <=> (\E k \in 1 .. Len(frames') : frames'[k].entry.id = i)
                                 \/ i = t.id
      BY DEF InTurn, Depth
    <2> QED BY <1>2, <1>3, <1>4 DEF t
  <1>10. \A i \in Id : InTurn(i)' => i # t.id
    <2> SUFFICES ASSUME NEW k \in 1 .. Len(frames'), frames'[k].entry.id \in Id
                 PROVE  frames'[k].entry.id # t.id
      BY DEF InTurn, Depth
    <2> QED BY <1>7 DEF Id
  <1>11. /\ new \in Entry
         /\ new.id = t.id
         /\ new.delay = t.delay
         /\ new.repeating = t.repeating
    <2>1. now + t.delay \in Nat
      BY <1>5 DEF Entry, TypeOK
    <2> QED BY <2>1, <1>5 DEF Entry
  <1> HIDE DEF new
  <1>12. \/ /\ t.id # 0 /\ t.repeating
            /\ heap' = heap \cup {new}
            /\ Released(t) = {}
         \/ /\ t.id = 0 \/ ~t.repeating
            /\ heap' = heap
            /\ Released(t) = IF t.id # 0 THEN {t} ELSE {}
    BY <1>1 DEF Rearmed, Released, new
  <1>13. \A x \in heap' : x \in heap \/ (x = new /\ t.id # 0 /\ t.repeating)
    BY <1>12
  <1>14. heap \subseteq heap'
    BY <1>12
  <1>15. \A i \in Id : InHeap(i)' <=> InHeap(i) \/ (i = t.id /\ t.repeating)
    <2> SUFFICES ASSUME NEW i \in Id
                 PROVE  (\E x \in heap' : x.id = i)
                           <=> (\E x \in heap : x.id = i) \/ (i = t.id /\ t.repeating)
      BY DEF InHeap
    <2>1. i # 0
      BY DEF Id
    <2> QED BY <2>1, <1>11, <1>12
  <1>16. ASSUME NEW i \in Id
         PROVE  /\ protect'[i] = IF InHeap(i)' \/ InTurn(i)' THEN 1 ELSE 0
                /\ protect'[i] \in {0, 1}
    <2>1. protect[i] = IF InHeap(i) \/ InTurn(i) THEN 1 ELSE 0
      BY DEF ProtectExact
    <2>2. i # 0
      BY DEF Id
    <2>3. CASE i = t.id /\ ~t.repeating
      <3>1. \E x \in Released(t) : x.id = i
        BY <2>2, <2>3, <1>12
      <3>2. protect'[i] = protect[i] - 1
        BY <3>1, <1>1 DEF Unprotected
      <3> QED BY <2>1, <2>2, <2>3, <3>2, <1>6, <1>10, <1>15
    <2>4. CASE ~(i = t.id /\ ~t.repeating)
      <3>1. ~ \E x \in Released(t) : x.id = i
        BY <2>4, <1>12
      <3>2. protect'[i] = protect[i]
        BY <3>1, <1>1 DEF Unprotected
      <3> QED BY <2>1, <2>4, <3>2, <1>9, <1>15
    <2> QED BY <2>3, <2>4
  <1>17. ProtectExact' /\ TypeOK'
    <2>1. ProtectExact'
      BY <1>16 DEF ProtectExact
    <2>2. protect' \in [Id -> {0, 1}]
      BY <1>1, <1>16 DEF Unprotected
    <2>3. heap' \subseteq Entry
      BY <1>11, <1>13 DEF TypeOK
    <2>4. TypeOK'
      BY <2>2, <2>3, <1>1, <1>3 DEF TypeOK
    <2> QED BY <2>1, <2>4
  <1>18. HeapRegistered'
    BY <1>1, <1>6, <1>11, <1>13 DEF HeapRegistered, Registered
  <1>19. TurnsRegistered' /\ TurnsOwned'
    BY <1>1, <1>3 DEF TurnsRegistered, Registered, TurnsOwned, Owned
  <1>20. RegisteredInOrder' /\ HandlesDistinct'
    BY <1>1 DEF RegisteredInOrder, Born, HandlesDistinct
  <1>21. SingleOwner'
    <2>1. \A x \in heap : t.id # 0 => x.id # t.id
      BY <1>6 DEF InHeap
    <2>2. \A x, y \in heap' : x.id = y.id => x = y
      BY <2>1, <1>11, <1>13 DEF SingleOwner
    <2>3. ASSUME NEW k \in 1 .. Len(frames'), frames'[k].entry.id # 0,
                 NEW x \in heap', x.id = frames'[k].entry.id
          PROVE  FALSE
      <3>1. CASE x \in heap
        BY <2>3, <3>1, <1>3 DEF SingleOwner, InHeap, Depth
      <3>2. CASE x = new /\ t.id # 0
        BY <2>3, <3>2, <1>7, <1>11
      <3> QED BY <3>1, <3>2, <1>13
    <2>4. \A j, k \in 1 .. Len(frames') :
              frames'[j].entry.id = frames'[k].entry.id
                  => j = k \/ frames'[j].entry.id = 0
      BY <1>3 DEF SingleOwner, Depth
    <2> QED BY <2>2, <2>3, <2>4 DEF SingleOwner, InHeap, Depth
  <1>22. OneShotOnce' /\ SameDelayOrder'
    BY <1>1 DEF OneShotOnce, SameDelayOrder, OneShot
  <1>23. TimeoutsKept'
    BY <1>1, <1>14 DEF TimeoutsKept, OneShot, InHeap
  <1>24. HeapOwned'
    BY <1>1, <1>8, <1>11, <1>13 DEF HeapOwned, Owned
  <1>25. Inductive'
    BY <1>17, <1>18, <1>19, <1>20, <1>21, <1>22, <1>23, <1>24
  <1>26. Top.entry = t
    BY DEF Top, Depth, t
  <1> QED
    BY <1>6, <1>9, <1>10, <1>15, <1>25, <1>26

-----------------------------------------------------------------------------
(* Every step preserves the invariant.                                      *)
LEMMA NextInductive == Inductive /\ [Next]_vars => Inductive'
  <1> SUFFICES ASSUME Inductive, [Next]_vars PROVE Inductive'
    OBVIOUS
  <1>1. ASSUME NEW h \in Handle, NEW d \in DelayTenths, NEW every \in BOOLEAN,
               SetTimer(h, d, every)
        PROVE  Inductive'
    BY <1>1, SetTimerStep
  <1>2. ASSUME NEW h \in Handle, Clear(h) PROVE Inductive'
    <2>1. handle[h].id \in Nat
      BY DEF Inductive, TypeOK
    <2>2. past' \in [Handle -> Past]
      BY <1>2 DEF Clear, Inductive, TypeOK, Past
    <2> QED BY <2>1, <2>2, <1>2, {handle[h].id} \in SUBSET Nat, ClearStep DEF Clear, IdsOf
  <1>3. ASSUME NEW n \in Number, ClearNumber(n) PROVE Inductive'
    BY <1>3, InputAssumption, {n} \in SUBSET Nat, ClearStep DEF ClearNumber, Inductive, TypeOK
  <1>4. ASSUME NEW h \in Handle, Refresh(h) PROVE Inductive'
    BY <1>4, RefreshStep
  <1>5. CASE Await \/ Resume \/ StartTask
    BY <1>5, NestStep
  <1>6. ASSUME NEW e \in heap, TickFire(e) PROVE Inductive'
    BY <1>6, TickFireStep
  <1>7. CASE TickIdle
    BY <1>7, TickIdleStep
  <1>8. CASE EndTurn
    BY <1>8, EndTurnStep
  <1>9. CASE AdvanceClock \/ IdTakenElsewhere
    BY <1>9, OutsideStep
  <1>10. CASE UNCHANGED vars
    <2>1. /\ canceled' = canceled \cup {}
          /\ UNCHANGED <<now, heap, nextId, protect, frames, handle, reg, starts>>
          /\ past' \in [Handle -> Past]
      BY <1>10 DEF vars, Inductive, TypeOK
    <2> QED BY <2>1, {} \in SUBSET Nat, ClearStep
  <1> QED
    BY <1>1, <1>2, <1>3, <1>4, <1>5, <1>6, <1>7, <1>8, <1>9, <1>10 DEF Next

(* The invariant holds in every reachable state.                            *)
THEOREM InductiveHolds == Spec => []Inductive
  BY InitInductive, NextInductive, PTL DEF Spec

(* Every variable keeps its type, the protection counts included.           *)
THEOREM TypesHold == Spec => []TypeOK
  <1>1. Inductive => TypeOK
    BY DEF Inductive
  <1> QED
    BY <1>1, InductiveHolds, PTL

(* A callback is protected from the garbage collector exactly while         *)
(* register_timer, run_one_tick and the clear functions can still call it.  *)
THEOREM ProtectionIsExact == Spec => []ProtectExact
  <1>1. Inductive => ProtectExact
    BY DEF Inductive
  <1> QED
    BY <1>1, InductiveHolds, PTL

(* A timer never is in two places of the heap and the nested turns.         *)
THEOREM TimersHaveOneOwner == Spec => []SingleOwner
  <1>1. Inductive => SingleOwner
    BY DEF Inductive
  <1> QED
    BY <1>1, InductiveHolds, PTL

(* A timeout starts at most once.                                           *)
THEOREM TimeoutsStartOnce == Spec => []OneShotOnce
  <1>1. Inductive => OneShotOnce
    BY DEF Inductive
  <1> QED
    BY <1>1, InductiveHolds, PTL

(* Timeouts start in the order they were set, unless the later one asked    *)
(* for a shorter delay.                                                     *)
THEOREM TimeoutsKeepOrder == Spec => []SameDelayOrder
  <1>1. Inductive => SameDelayOrder
    BY DEF Inductive
  <1> QED
    BY <1>1, InductiveHolds, PTL

(* Clearing or refreshing a handle leaves no timer of it behind: every live *)
(* timer is the one some handle stands for now.                             *)
THEOREM HandlesOwnTimers == Spec => []HandleOwnsLive
  <1>1. Inductive => HandleOwnsLive
    BY DEF Inductive, HeapOwned, HandlesDistinct, HandleOwnsLive, Owned
  <1> QED
    BY <1>1, InductiveHolds, PTL

-----------------------------------------------------------------------------
(* What the steps may never do: a cleared timer never starts, no timer      *)
(* starts early, and every step is one TimerService allows.                 *)

(* A tick alone starts callbacks, and of one timer: one that is due and not *)
(* cleared.                                                                 *)
LEMMA OnlyTicksStart ==
    ASSUME Inductive, [Next]_vars, NEW i \in Id, starts'[i] # starts[i]
    PROVE  \E e \in heap : TickFire(e) /\ e.id = i /\ e.id \notin canceled
  <1>1. CASE \E e \in heap : TickFire(e)
    <2>1. PICK e \in heap : TickFire(e)
      BY <1>1
    <2>2. e.id \notin canceled /\ starts' = [starts EXCEPT ![e.id] = Count(@)]
      BY <2>1 DEF TickFire, First, Live
    <2>3. e.id = i
      BY <2>2 DEF Inductive, TypeOK
    <2> QED BY <2>1, <2>2, <2>3
  <1>2. CASE ~ \E e \in heap : TickFire(e)
    <2>1. starts' = starts
      BY <1>2 DEF Next, vars, SetTimer, Clear, ClearNumber, Refresh, Await, Resume,
                  StartTask, TickIdle, EndTurn, AdvanceClock, IdTakenElsewhere
    <2> QED BY <2>1
  <1> QED BY <1>1, <1>2

(* Every id a handle has named is cleared, but for the one it stands for    *)
(* now, and so are all of them once the handle was cleared.                 *)
PastCleared ==
    \A h \in Handle :
        /\ past[h].named \subseteq canceled \cup {handle[h].id}
        /\ past[h].quiet \subseteq canceled

LEMMA PastClearedStep == Inductive /\ PastCleared /\ [Next]_vars => PastCleared'
  <1> SUFFICES ASSUME Inductive, PastCleared, [Next]_vars, NEW h \in Handle
               PROVE  /\ past'[h].named \subseteq canceled' \cup {handle'[h].id}
                      /\ past'[h].quiet \subseteq canceled'
    BY DEF PastCleared
  <1>1. /\ past[h].named \subseteq canceled \cup {handle[h].id}
        /\ past[h].quiet \subseteq canceled
    BY DEF PastCleared
  <1>2. /\ past \in [Handle -> [named : SUBSET Id, quiet : SUBSET Id]]
        /\ handle \in [Handle -> [id : 0 .. MaxId, ms : Int, isInterval : BOOLEAN]]
    BY DEF Inductive, TypeOK, Past
  <1>3. ASSUME NEW g \in Handle, NEW d \in DelayTenths, NEW every \in BOOLEAN, SetTimer(g, d, every)
        PROVE  /\ past'[h].named \subseteq canceled' \cup {handle'[h].id}
               /\ past'[h].quiet \subseteq canceled'
    <2>1. /\ handle[g].id = 0 /\ canceled' = canceled
          /\ handle'[g].id = nextId /\ (g # h => handle'[h] = handle[h])
          /\ past'[g].named = past[g].named \cup {nextId} /\ past'[g].quiet = past[g].quiet
          /\ (g # h => past'[h] = past[h])
      BY <1>2, <1>3 DEF SetTimer
    <2>2. 0 \notin past[h].named
      BY <1>2 DEF Id
    <2> QED
      BY <1>1, <2>1, <2>2
  <1>4. ASSUME NEW g \in Handle, Clear(g)
        PROVE  /\ past'[h].named \subseteq canceled' \cup {handle'[h].id}
               /\ past'[h].quiet \subseteq canceled'
    <2>1. /\ canceled' = canceled \cup {handle[g].id} /\ handle' = handle
          /\ past'[g].named = past[g].named /\ past'[g].quiet = past[g].named
          /\ (g # h => past'[h] = past[h])
      BY <1>2, <1>4 DEF Clear, IdsOf
    <2> QED
      BY <1>1, <2>1
  <1>5. ASSUME NEW g \in Handle, Refresh(g)
        PROVE  /\ past'[h].named \subseteq canceled' \cup {handle'[h].id}
               /\ past'[h].quiet \subseteq canceled'
    <2>1. /\ canceled' = canceled \cup {handle[g].id}
          /\ handle'[g].id = nextId /\ (g # h => handle'[h] = handle[h])
          /\ past'[g].named = past[g].named \cup {nextId} /\ past'[g].quiet = past[g].named
          /\ (g # h => past'[h] = past[h])
      BY <1>2, <1>5 DEF Refresh, IdsOf
    <2> QED
      BY <1>1, <2>1
  <1>6. ASSUME NEW n \in Number, ClearNumber(n)
        PROVE  canceled \subseteq canceled' /\ handle' = handle /\ past' = past
    BY <1>6 DEF ClearNumber
  <1>7. CASE /\ UNCHANGED <<canceled, handle, past>>
    BY <1>1, <1>7
  <1> QED
    BY <1>1, <1>3, <1>4, <1>5, <1>6, <1>7
       DEF Next, vars, Await, Resume, TickFire, StartTask, TickIdle, EndTurn, AdvanceClock,
           IdTakenElsewhere

(* Once a handle was cleared or refreshed, no timer it had named until then *)
(* starts: clearTimeout() and refresh() see the id the handle stands for,   *)
(* the earlier ones were cleared when it got it, and no turn in progress    *)
(* and no interval that is armed again brings an id back.                   *)
THEOREM ClearedTimersStaySilent == Spec => ClearedStaysSilent
  <1>1. Init => PastCleared
    BY DEF Init, PastCleared
  <1>2. ASSUME Inductive, PastCleared, [Next]_vars, NEW h \in Handle, NEW i \in past[h].quiet
        PROVE  starts'[i] = starts[i]
    <2>1. i \in Id /\ i \in canceled
      BY <1>2 DEF Inductive, TypeOK, PastCleared, Past
    <2> QED
      BY <1>2, <2>1, OnlyTicksStart
  <1>3. Inductive /\ PastCleared /\ [Next]_vars
           => [\A h \in Handle : \A i \in past[h].quiet : starts'[i] = starts[i]]_vars
    BY <1>2
  <1> QED
    BY <1>1, <1>3, PastClearedStep, InductiveHolds, PTL DEF Spec, ClearedStaysSilent

-----------------------------------------------------------------------------
(* No entry of the heap is due before the delay its timer was set with.     *)
NotBefore == \A e \in heap : reg[e.id].deadline <= e.deadline

(* Every step keeps it: a new timer, and an interval that is armed again.   *)
LEMMA NotBeforeStep ==
    ASSUME Inductive, NotBefore, [Next]_vars
    PROVE  NotBefore'
  <1> USE DEF NotBefore
  <1>1. ASSUME NEW d \in Int, NEW every \in BOOLEAN, Register(d, every)
        PROVE  NotBefore'
    <2>1. nextId \in Id /\ reg' = [reg EXCEPT ![nextId] =
                 [kind |-> IF every THEN "interval" ELSE "timeout",
                  deadline |-> now + DelayMs(d, every), delay |-> DelayMs(d, every)]]
      BY <1>1 DEF Register
    <2>2. /\ reg'[nextId].deadline = now + DelayMs(d, every)
          /\ \A i \in Id : i # nextId => reg'[i] = reg[i]
      BY <2>1 DEF Inductive, TypeOK
    <2>3. heap' = heap \cup {[id |-> nextId, deadline |-> now + DelayMs(d, every),
                              delay |-> DelayMs(d, every), repeating |-> every]}
      BY <1>1 DEF Register
    <2>4. \A e \in heap : e.id \in Id /\ e.id # nextId
      BY DEF Inductive, HeapRegistered, Registered, TypeOK, Id
    <2>5. now + DelayMs(d, every) \in Nat
      BY DelayIsNat DEF Inductive, TypeOK
    <2> QED BY <2>2, <2>3, <2>4, <2>5
  <1>2. ASSUME heap' \subseteq heap, reg' = reg PROVE NotBefore'
    BY <1>2
  <1>3. CASE EndTurn
    <2> DEFINE t == frames[Len(frames)].entry
    <2>1. frames \in Seq(Frame) /\ Len(frames) \in 1 .. Len(frames)
      <3>1. frames \in Seq(Frame)
        BY DEF Inductive, TypeOK
      <3>2. Len(frames) > 0 /\ Len(frames) \in Nat
        BY <1>3, <3>1 DEF EndTurn, Running, Depth
      <3> QED BY <3>1, <3>2
    <2>2. t \in Entry
      <3>1. frames[Len(frames)] \in Frame
        BY <2>1
      <3> QED BY <3>1 DEF Frame
    <2>3. t.id # 0 => t.id \in Id /\ reg[t.id].kind # "none" /\ t.delay = reg[t.id].delay
      BY <2>1 DEF Inductive, TurnsRegistered, Registered
    <2>4. heap' = heap \cup Rearmed(t) /\ reg' = reg
      BY <1>3 DEF EndTurn, Top, Depth
    <2> HIDE DEF t
    <2>5. ASSUME t.id # 0 PROVE reg[t.id].deadline <= now + t.delay
      <3>1. Born(t.id) <= now
        BY <2>3, <2>5 DEF Inductive, RegisteredInOrder
      <3>2. reg[t.id].deadline \in Nat /\ reg[t.id].delay \in Nat /\ now \in Nat
        BY <2>3, <2>5 DEF Inductive, TypeOK
      <3> QED BY <2>3, <2>5, <3>1, <3>2 DEF Born
    <2>6. ASSUME NEW x \in Rearmed(t) PROVE reg[x.id].deadline <= x.deadline
      <3>1. t.id # 0 /\ x = [t EXCEPT !.deadline = now + t.delay]
        BY <2>6 DEF Rearmed
      <3>2. x.id = t.id /\ x.deadline = now + t.delay
        BY <2>2, <3>1 DEF Entry
      <3> QED BY <2>5, <3>1, <3>2
    <2> QED BY <2>4, <2>6
  <1>4. ASSUME NEW h \in Handle, Refresh(h) PROVE NotBefore'
    BY <1>1, <1>4 DEF Refresh, Inductive, TypeOK
  <1>5. ASSUME NEW h \in Handle, NEW d \in DelayTenths, NEW every \in BOOLEAN,
               SetTimer(h, d, every)
        PROVE  NotBefore'
    BY <1>1, <1>5, InputAssumption DEF SetTimer
  <1>6. CASE /\ ~EndTurn
             /\ ~ \E h \in Handle : Refresh(h)
             /\ ~ \E h \in Handle, d \in DelayTenths, every \in BOOLEAN :
                      SetTimer(h, d, every)
    <2>1. heap' \subseteq heap /\ reg' = reg
      BY <1>6 DEF Next, vars, Clear, ClearNumber, Await, Resume, StartTask, TickFire,
                  TickIdle, AdvanceClock, IdTakenElsewhere
    <2> QED BY <1>2, <2>1
  <1> QED
    BY <1>3, <1>4, <1>5, <1>6

(* The turn of an interval ends by arming it again a period later.          *)
LEMMA IntervalsRest ==
    ASSUME Inductive, [Next]_vars, NEW i \in Id,
           InTurn(i), ~InTurn(i)', reg[i].kind = "interval"
    PROVE  \E e \in heap' : e.id = i /\ e.deadline >= now + reg[i].delay
  <1>1. CASE EndTurn
    <2> DEFINE new == [Top.entry EXCEPT !.deadline = now + Top.entry.delay]
    <2>1. i = Top.entry.id /\ Registered(Top.entry) /\ i # 0
      BY <1>1, EndTurnStep DEF Id
    <2>2. Top.entry \in Entry
      <3>1. frames \in Seq(Frame)
        BY DEF Inductive, TypeOK
      <3>2. Len(frames) \in 1 .. Len(frames)
        BY <1>1, <3>1 DEF EndTurn, Running, Depth
      <3>3. frames[Len(frames)] \in Frame
        BY <3>1, <3>2
      <3> QED BY <3>3 DEF Top, Depth, Frame
    <2>3. Top.entry.repeating /\ Top.entry.delay = reg[i].delay
      BY <2>1 DEF Registered
    <2>4. new \in heap'
      BY <1>1, <2>1, <2>3 DEF EndTurn, Rearmed
    <2>5. new.id = i /\ new.deadline = now + reg[i].delay
      BY <2>1, <2>2, <2>3 DEF Entry
    <2>6. now + reg[i].delay \in Nat
      BY DEF Inductive, TypeOK
    <2> HIDE DEF new
    <2> QED BY <2>4, <2>5, <2>6
  <1>2. CASE Await \/ Resume \/ StartTask
    BY <1>2, NestStep
  <1>3. CASE \E e \in heap : TickFire(e)
    BY <1>3, TickFireStep
  <1>4. CASE ~EndTurn /\ ~Await /\ ~Resume /\ ~StartTask /\ ~ \E e \in heap : TickFire(e)
    <2>1. frames' = frames
      BY <1>4 DEF Next, vars, SetTimer, Clear, ClearNumber, Refresh, TickIdle,
                  AdvanceClock, IdTakenElsewhere
    <2> QED BY <2>1 DEF InTurn, Depth
  <1> QED BY <1>1, <1>2, <1>3, <1>4

(* No callback starts before its delay has passed, and an interval waits a  *)
(* whole period after each of its turns.                                    *)
THEOREM TimersNeverEarly == Spec => NeverEarly
  <1>1. Init => NotBefore
    BY DEF Init, NotBefore
  <1>2. Spec => []NotBefore
    BY <1>1, NotBeforeStep, InductiveHolds, PTL DEF Spec
  <1>3. ASSUME Inductive, NotBefore, [Next]_vars, NEW i \in Id, starts'[i] # starts[i]
        PROVE  now >= reg[i].deadline
    <2>1. PICK e \in heap : TickFire(e) /\ e.id = i
      BY <1>3, OnlyTicksStart
    <2>2. e.deadline <= now /\ reg[i].deadline <= e.deadline
      BY <1>3, <2>1 DEF TickFire, NotBefore
    <2>3. e.deadline \in Nat /\ now \in Nat /\ reg[i].deadline \in Nat
      BY <1>3 DEF Inductive, TypeOK, Entry
    <2> QED BY <2>2, <2>3
  <1>4. Inductive /\ NotBefore /\ [Next]_vars
           => [\A i \in Id :
                 /\ starts'[i] # starts[i] => now >= reg[i].deadline
                 /\ InTurn(i) /\ ~InTurn(i)' /\ reg[i].kind = "interval"
                    => \E e \in heap' : e.id = i /\ e.deadline >= now + reg[i].delay]_vars
    BY <1>3, IntervalsRest
  <1> QED
    BY <1>2, <1>4, InductiveHolds, PTL DEF Spec, NeverEarly

-----------------------------------------------------------------------------
(* The registry implements TimerService.                                    *)
statusBar == [i \in Id |-> StatusOf(i)]
repeatingBar == {i \in Id : reg[i].kind = "interval"}
clearedBar == canceled \cap Id

(* Initially every id is free.                                              *)
LEMMA ServiceInitHolds == Init => Service!ServiceInit
  BY DEF Init, Service!ServiceInit, StatusOf

(* The places of the timers decide their status.                            *)
LEMMA SameStatus ==
    ASSUME reg' = reg, \A i \in Id : InHeap(i)' <=> InHeap(i),
           \A i \in Id : InTurn(i)' <=> InTurn(i)
    PROVE  statusBar' = statusBar /\ repeatingBar' = repeatingBar
  <1>1. \A i \in Id : StatusOf(i)' = StatusOf(i)
    BY DEF StatusOf
  <1> QED
    BY <1>1 DEF statusBar, repeatingBar

(* A new id is armed.                                                       *)
LEMMA RegisterArms ==
    ASSUME Inductive, NEW d \in Int, NEW every \in BOOLEAN, Register(d, every),
           NEW old \in SUBSET Nat, canceled' = canceled \cup old,
           UNCHANGED <<now, frames, starts>>
    PROVE  /\ nextId \in Id
           /\ statusBar[nextId] = "free"
           /\ statusBar' = [statusBar EXCEPT ![nextId] = "armed"]
           /\ repeatingBar' = IF every THEN repeatingBar \cup {nextId} ELSE repeatingBar
  <1>1. /\ nextId \in Id
        /\ reg[nextId].kind = "none"
        /\ \A i \in Id : /\ InHeap(i)' <=> InHeap(i) \/ i = nextId
                         /\ InTurn(i)' <=> InTurn(i)
    BY RegisterStep
  <1>2. /\ reg'[nextId].kind = IF every THEN "interval" ELSE "timeout"
        /\ \A i \in Id : i # nextId => reg'[i] = reg[i]
    BY <1>1 DEF Register, Inductive, TypeOK
  <1>3. \A i \in Id : i = nextId => StatusOf(i) = "free" /\ StatusOf(i)' = "armed"
    BY <1>1, <1>2 DEF StatusOf
  <1>4. \A i \in Id : i # nextId => StatusOf(i)' = StatusOf(i)
    BY <1>1, <1>2 DEF StatusOf
  <1>5. statusBar' = [statusBar EXCEPT ![nextId] = "armed"]
    BY <1>1, <1>3, <1>4 DEF statusBar
  <1> QED
    BY <1>1, <1>2, <1>3, <1>5 DEF statusBar, repeatingBar

(* The steps of TimerService, over what implements its variables.           *)
LEMMA ServiceSteps ==
    ASSUME NEW i \in Id, NEW every \in BOOLEAN, NEW old \in Id
    PROVE  /\ /\ statusBar[i] = "free"
              /\ statusBar' = [statusBar EXCEPT ![i] = "armed"]
              /\ repeatingBar' = IF every THEN repeatingBar \cup {i} ELSE repeatingBar
              => /\ clearedBar' = clearedBar => Service!ServiceNext
                 /\ clearedBar' = clearedBar \cup {old} => Service!ServiceNext
           /\ /\ clearedBar' = clearedBar \cup {i}
              /\ statusBar' = statusBar
              /\ repeatingBar' = repeatingBar
              => Service!ServiceNext
           /\ /\ statusBar[i] = "running"
              /\ statusBar' = [statusBar EXCEPT ![i] = IF i \in repeatingBar THEN "armed"
                                                                             ELSE "retired"]
              /\ repeatingBar' = repeatingBar
              /\ clearedBar' = clearedBar
              => Service!ServiceNext
  <1> USE DEF statusBar, repeatingBar, clearedBar
  <1>1. ASSUME statusBar[i] = "free",
               statusBar' = [statusBar EXCEPT ![i] = "armed"],
               repeatingBar' = IF every THEN repeatingBar \cup {i} ELSE repeatingBar
        PROVE  Service!Arm(i, every)
    BY <1>1 DEF Service!Arm
  <1>2. Service!Arm(i, every) /\ clearedBar' = clearedBar => Service!ServiceNext
    BY DEF Service!ServiceNext
  <1>3. Service!Arm(i, every) /\ clearedBar' = clearedBar \cup {old} => Service!ServiceNext
    BY DEF Service!ServiceNext, Service!Replace
  <1>4. /\ clearedBar' = clearedBar \cup {i}
        /\ statusBar' = statusBar
        /\ repeatingBar' = repeatingBar
        => Service!ServiceNext
    BY DEF Service!ServiceNext, Service!Drop
  <1>5. /\ statusBar[i] = "running"
        /\ statusBar' = [statusBar EXCEPT ![i] = IF i \in repeatingBar THEN "armed"
                                                                       ELSE "retired"]
        /\ repeatingBar' = repeatingBar
        /\ clearedBar' = clearedBar
        => Service!ServiceNext
    BY DEF Service!ServiceNext, Service!Finish
  <1> QED
    BY <1>1, <1>2, <1>3, <1>4, <1>5

(* The step of TimerService that implements a tick.                         *)
LEMMA SweepStep ==
    ASSUME NEW gone, NEW start,
           gone \subseteq {i \in clearedBar : statusBar[i] = "armed"},
           start \subseteq {i \in Id \ clearedBar : statusBar[i] = "armed"},
           \A i, j \in start : i = j,
           statusBar' = [i \in Id |-> IF i \in gone THEN "retired"
                                      ELSE IF i \in start THEN "running"
                                      ELSE statusBar[i]],
           repeatingBar' = repeatingBar, clearedBar' = clearedBar
    PROVE  Service!ServiceNext
  <1> USE DEF statusBar, repeatingBar, clearedBar
  <1>1. Service!Sweep(gone, start)
    BY DEF Service!Sweep
  <1> QED
    BY <1>1 DEF Service!ServiceNext

(* Every step of the registry is a step of the service, or changes nothing  *)
(* a script can see of it.                                                  *)
LEMMA SetTimerArms ==
    ASSUME Inductive,
           NEW h \in Handle, NEW d \in DelayTenths, NEW every \in BOOLEAN,
           SetTimer(h, d, every)
    PROVE  Service!ServiceNext
  <1>1. /\ d \in Int /\ Register(d, every)
        /\ canceled' = canceled \cup {} /\ UNCHANGED <<now, frames, starts>>
    BY InputAssumption DEF SetTimer
  <1>2. /\ nextId \in Id
        /\ statusBar[nextId] = "free"
        /\ statusBar' = [statusBar EXCEPT ![nextId] = "armed"]
        /\ repeatingBar' = IF every THEN repeatingBar \cup {nextId} ELSE repeatingBar
    BY <1>1, {} \in SUBSET Nat, RegisterArms
  <1>3. clearedBar' = clearedBar
    BY <1>1 DEF clearedBar
  <1> QED
    BY <1>2, <1>3, ServiceSteps

(* refresh() arms the new id and drops the old one.                         *)
LEMMA RefreshReplaces ==
    ASSUME Inductive, NEW h \in Handle, Refresh(h)
    PROVE  Service!ServiceNext
  <1>1. /\ handle[h].ms \in Int
        /\ handle[h].isInterval \in BOOLEAN
        /\ Register(handle[h].ms, handle[h].isInterval)
        /\ canceled' = canceled \cup {handle[h].id}
        /\ UNCHANGED <<now, frames, starts>>
    BY DEF Refresh, IdsOf, Inductive, TypeOK
  <1>2. handle[h].id \in Id /\ {handle[h].id} \in SUBSET Nat
    BY BoundsAssumption DEF Refresh, Inductive, TypeOK, Id
  <1>3. /\ nextId \in Id
        /\ statusBar[nextId] = "free"
        /\ statusBar' = [statusBar EXCEPT ![nextId] = "armed"]
        /\ repeatingBar' = IF handle[h].isInterval THEN repeatingBar \cup {nextId}
                                                   ELSE repeatingBar
    BY <1>1, <1>2, RegisterArms
  <1>4. clearedBar' = clearedBar \cup {handle[h].id}
    BY <1>1, <1>2 DEF clearedBar
  <1> QED
    BY <1>1, <1>2, <1>3, <1>4, ServiceSteps

(* A clear drops an id, unless no timer can have that number.               *)
LEMMA ClearDrops ==
    ASSUME Inductive, NEW n, canceled' = canceled \cup {n},
           UNCHANGED <<heap, frames, reg>>
    PROVE  [Service!ServiceNext]_Service!serviceVars
  <1>1. statusBar' = statusBar /\ repeatingBar' = repeatingBar
    BY SameStatus DEF InHeap, InTurn, Depth
  <1>2. CASE n \in Id
    <2>1. clearedBar' = clearedBar \cup {n}
      BY <1>2 DEF clearedBar
    <2> QED BY <1>1, <1>2, <2>1, ServiceSteps
  <1>3. CASE n \notin Id
    <2>1. clearedBar' = clearedBar
      BY <1>3 DEF clearedBar
    <2> QED BY <1>1, <2>1 DEF Service!serviceVars, statusBar, repeatingBar, clearedBar
  <1> QED BY <1>2, <1>3

(* A tick takes cleared entries and at most one live one out of the heap.   *)
LEMMA TickSweeps ==
    ASSUME Inductive,
           NEW dead, dead \subseteq heap \ Live,
           NEW live, live \subseteq Live, \A x, y \in live : x = y,
           heap' = heap \ (dead \cup live),
           UNCHANGED <<reg, canceled>>,
           \A i \in Id : InTurn(i)' <=> InTurn(i) \/ \E x \in live : x.id = i
    PROVE  Service!ServiceNext
  <1> DEFINE gone == {x.id : x \in dead}
             start == {x.id : x \in live}
  <1>1. \A x \in heap : x.id \in Id /\ reg[x.id].kind # "none"
    BY DEF Inductive, HeapRegistered, Registered
  <1>2. \A x, y \in heap : x.id = y.id => x = y
    BY DEF Inductive, SingleOwner
  <1>3. dead \subseteq heap /\ live \subseteq heap /\ (\A x \in dead : x.id \in canceled)
        /\ (\A x \in live : x.id \notin canceled)
    BY DEF Live
  <1>4. \A i \in Id : InHeap(i)' <=> InHeap(i) /\ i \notin gone /\ i \notin start
    <2> SUFFICES ASSUME NEW i \in Id
                 PROVE  (\E x \in heap' : x.id = i)
                           <=> (\E x \in heap : x.id = i) /\ i \notin gone /\ i \notin start
      BY DEF InHeap
    <2>1. ASSUME NEW x \in heap', x.id = i
          PROVE  (\E y \in heap : y.id = i) /\ i \notin gone /\ i \notin start
      BY <2>1, <1>2, <1>3
    <2>2. ASSUME NEW x \in heap, x.id = i, i \notin gone, i \notin start
          PROVE  x \in heap'
      BY <2>2
    <2> QED BY <2>1, <2>2
  <1>5. \A i \in gone \cup start : i \in Id /\ InHeap(i) /\ ~InTurn(i)
    <2> SUFFICES ASSUME NEW x \in heap
                 PROVE  x.id \in Id /\ InHeap(x.id) /\ ~InTurn(x.id)
      BY <1>3
    <2>1. x.id \in Id /\ InHeap(x.id)
      BY <1>1 DEF InHeap
    <2> QED BY <2>1 DEF InTurn, Inductive, SingleOwner, Id
  <1>6. \A i \in gone \cup start : statusBar[i] = "armed"
    BY <1>1, <1>3, <1>5 DEF statusBar, StatusOf
  <1>7. \A i \in gone : i \in clearedBar
    BY <1>3, <1>5 DEF clearedBar
  <1>8. \A i \in start : i \in Id \ clearedBar
    BY <1>3, <1>5 DEF clearedBar
  <1>9. gone \cap start = {}
    BY <1>3
  <1>10. \A i \in Id : InTurn(i)' <=> InTurn(i) \/ i \in start
    OBVIOUS
  <1>11. \A i \in gone \cup start : reg[i].kind # "none"
    BY <1>1, <1>3
  <1>12. \A i, j \in start : i = j
    OBVIOUS
  <1> HIDE DEF gone, start
  <1>13. \A i \in Id : StatusOf(i)' = IF i \in gone THEN "retired"
                                     ELSE IF i \in start THEN "running"
                                     ELSE StatusOf(i)
    BY <1>4, <1>5, <1>9, <1>10, <1>11 DEF StatusOf
  <1>14. statusBar' = [i \in Id |-> IF i \in gone THEN "retired"
                                    ELSE IF i \in start THEN "running"
                                    ELSE statusBar[i]]
    BY <1>13 DEF statusBar
  <1>15. repeatingBar' = repeatingBar /\ clearedBar' = clearedBar
    BY DEF repeatingBar, clearedBar
  <1> QED
    BY <1>6, <1>7, <1>8, <1>12, <1>14, <1>15, SweepStep

(* Both kinds of tick do so.                                                *)
LEMMA TicksSweep ==
    ASSUME Inductive, TickIdle \/ \E e \in heap : TickFire(e)
    PROVE  Service!ServiceNext
  <1>1. CASE TickIdle
    <2> DEFINE dead == {x \in heap \ Live : \A e \in Live : Before(x, e)}
           live == {x \in Live : FALSE}
    <2>1. heap' = heap \ (dead \cup live) /\ UNCHANGED <<reg, canceled>>
      BY <1>1 DEF TickIdle
    <2>2. \A i \in Id : InTurn(i)' <=> InTurn(i) \/ \E x \in live : x.id = i
      BY <1>1 DEF TickIdle, InTurn, Depth
    <2>3. /\ dead \subseteq heap \ Live /\ live \subseteq Live
          /\ \A x, y \in live : x = y
      OBVIOUS
    <2> HIDE DEF dead, live
    <2> QED BY <2>1, <2>2, <2>3, TickSweeps
  <1>2. CASE \E e \in heap : TickFire(e)
    <2>1. PICK e \in heap : TickFire(e)
      BY <1>2
    <2> DEFINE dead == {x \in heap \ Live : Before(x, e)}
    <2>2. heap' = heap \ (dead \cup {e}) /\ UNCHANGED <<reg, canceled>> /\ {e} \subseteq Live
      BY <2>1 DEF TickFire, Popped, First
    <2>3. \A i \in Id : InTurn(i)' <=> InTurn(i) \/ \E x \in {e} : x.id = i
      BY <2>1, TickFireStep
    <2>4. dead \subseteq heap \ Live
      OBVIOUS
    <2> HIDE DEF dead
    <2> QED BY <2>2, <2>3, <2>4, TickSweeps
  <1> QED BY <1>1, <1>2

(* The end of a turn finishes its timer, if it is the turn of one.          *)
LEMMA EndTurnFinishes ==
    ASSUME Inductive, EndTurn
    PROVE  [Service!ServiceNext]_Service!serviceVars
  <1>1. /\ Top.entry.id # 0 =>
             Registered(Top.entry) /\ InTurn(Top.entry.id) /\ ~InHeap(Top.entry.id)
        /\ \A i \in Id :
             /\ InTurn(i)' <=> InTurn(i) /\ i # Top.entry.id
             /\ InHeap(i)' <=> InHeap(i) \/ (i = Top.entry.id /\ Top.entry.repeating)
    BY EndTurnStep
  <1>2. UNCHANGED <<reg, canceled>>
    BY DEF EndTurn
  <1>3. PICK t : t = Top.entry
    OBVIOUS
  <1>4. repeatingBar' = repeatingBar /\ clearedBar' = clearedBar
    BY <1>2 DEF repeatingBar, clearedBar
  <1>5. CASE t.id = 0
    <2>1. statusBar' = statusBar
      BY <1>1, <1>2, <1>3, <1>5, SameStatus DEF Id
    <2> QED BY <2>1, <1>4 DEF Service!serviceVars, statusBar, repeatingBar, clearedBar
  <1>6. CASE t.id # 0
    <2>1. /\ t.id \in Id
          /\ reg[t.id].kind = IF t.repeating THEN "interval" ELSE "timeout"
          /\ InTurn(t.id) /\ ~InHeap(t.id)
      BY <1>1, <1>3, <1>6 DEF Registered
    <2>2. statusBar[t.id] = "running" /\ (t.id \in repeatingBar <=> t.repeating)
      BY <2>1 DEF statusBar, repeatingBar, StatusOf
    <2>3. \A i \in Id : StatusOf(i)' = IF i = t.id
                                       THEN IF t.repeating THEN "armed" ELSE "retired"
                                       ELSE StatusOf(i)
      BY <1>1, <1>2, <1>3, <2>1 DEF StatusOf
    <2>4. statusBar' = [statusBar EXCEPT ![t.id] = IF t.id \in repeatingBar
                                                   THEN "armed" ELSE "retired"]
      BY <2>1, <2>2, <2>3 DEF statusBar
    <2> QED BY <1>4, <2>1, <2>2, <2>4, ServiceSteps
  <1> QED BY <1>5, <1>6

(* Every step of the registry maps to a step of the service or to a stutter,*)
(* so the registry keeps each promise TimerService makes to a script.       *)
THEOREM RegistryImplementsService == Spec => ImplementsService
  <1>1. Inductive /\ [Next]_vars => [Service!ServiceNext]_Service!serviceVars
    <2> SUFFICES ASSUME Inductive, [Next]_vars
                 PROVE  [Service!ServiceNext]_Service!serviceVars
      OBVIOUS
    <2>1. CASE \E h \in Handle, d \in DelayTenths, every \in BOOLEAN : SetTimer(h, d, every)
      BY <2>1, SetTimerArms
    <2>2. CASE \E h \in Handle : Refresh(h)
      BY <2>2, RefreshReplaces
    <2>3. CASE \E h \in Handle : Clear(h)
      BY <2>3, ClearDrops DEF Clear, IdsOf
    <2>4. CASE \E n \in Number : ClearNumber(n)
      BY <2>4, ClearDrops DEF ClearNumber
    <2>5. CASE TickIdle \/ \E e \in heap : TickFire(e)
      BY <2>5, TicksSweep
    <2>6. CASE EndTurn
      BY <2>6, EndTurnFinishes
    <2>7. CASE Await \/ Resume \/ StartTask
      <3>1. UNCHANGED <<heap, reg, canceled>> /\ \A i \in Id : InTurn(i)' <=> InTurn(i)
        BY <2>7, NestStep DEF Await, Resume, StartTask
      <3>2. statusBar' = statusBar /\ repeatingBar' = repeatingBar
        BY <3>1, SameStatus DEF InHeap
      <3> QED BY <3>1, <3>2 DEF Service!serviceVars, statusBar, repeatingBar
    <2>8. CASE AdvanceClock \/ IdTakenElsewhere \/ UNCHANGED vars
      <3>1. UNCHANGED <<heap, frames, reg, canceled>>
        BY <2>8 DEF AdvanceClock, IdTakenElsewhere, vars
      <3>2. statusBar' = statusBar /\ repeatingBar' = repeatingBar
        BY <3>1, SameStatus DEF InHeap, InTurn, Depth
      <3> QED BY <3>1, <3>2 DEF Service!serviceVars, statusBar, repeatingBar
    <2> QED
      BY <2>1, <2>2, <2>3, <2>4, <2>5, <2>6, <2>7, <2>8 DEF Next
  <1> QED
    BY <1>1, ServiceInitHolds, InductiveHolds, PTL
       DEF Spec, ImplementsService, Service!ServiceSpec
=============================================================================
