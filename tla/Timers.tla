------------------------------- MODULE Timers -------------------------------
(***************************************************************************)
(* The timer registry of one JavaScript thread                             *)
(* (crates/bun-runtime/src/timers.rs): setTimeout, setInterval,            *)
(* setImmediate, the clear functions, the TimerHandle wrapper, and         *)
(* run_one_tick, which both the event loop and await_promise call.         *)
(*                                                                         *)
(* JavaScript runs in turns.  `frames` is the stack of turns in progress:  *)
(* the main script or an async completion (entry NoEntry), or the callback *)
(* of a timer.  A turn that blocks in require() runs an event loop of its  *)
(* own (await_promise), so ticks also happen above a waiting frame.        *)
(***************************************************************************)
EXTENDS Integers, Sequences, FiniteSets

CONSTANTS
    MaxId,          \* bound: timer ids 1..MaxId are handed out
    MaxNow,         \* bound: the clock, in milliseconds, stops here
    MaxDepth,       \* bound: nested turns
    DelayTenths,    \* delays scripts pass, in tenths of a millisecond;
                    \* a negative one also stands for NaN
    Handle,         \* the TimerHandle objects a script holds
    Number,         \* plain numbers scripts pass to clearTimeout
    Foreign         \* bound: the ids other JavaScript threads may take

ASSUME BoundsAssumption ==
    MaxId \in Nat /\ MaxNow \in Nat /\ MaxDepth \in Nat

ASSUME InputAssumption == DelayTenths \subseteq Int /\ Number \subseteq Nat

VARIABLES
    now,            \* Instant::now()
    heap,           \* TIMERS, a min-heap by (deadline, id)
    canceled,       \* CANCELED: every id ever passed to a clear function
    nextId,         \* NEXT_ID
    protect,        \* JSValueProtect minus JSValueUnprotect, per registration
    frames,         \* turns in progress, the innermost last
    handle,         \* the fields of every TimerHandle
    reg,            \* history: what each id was registered as
    starts,         \* history: callback starts per id, up to 2
    past            \* history: the ids each handle has named so far, and had
                    \* named when it was last cleared or refreshed

vars == <<now, heap, canceled, nextId, protect, frames, handle, reg, starts, past>>

Id == 1 .. MaxId
Kind == {"none", "timeout", "interval"}

Entry == [id : Nat, deadline : Nat, delay : Nat, repeating : BOOLEAN]
NoEntry == [id |-> 0, deadline |-> 0, delay |-> 0, repeating |-> FALSE]
Frame == [entry : Entry, waiting : BOOLEAN]
Unset == [id |-> 0, ms |-> 0, isInterval |-> FALSE]
Past == [named : SUBSET Id, quiet : SUBSET Id]

TypeOK ==
    /\ now \in Nat
    /\ heap \subseteq Entry
    /\ canceled \subseteq Nat
    /\ nextId \in 1 .. (MaxId + 1)
    /\ protect \in [Id -> {0, 1}]
    /\ frames \in Seq(Frame)
    /\ handle \in [Handle -> [id : 0 .. MaxId, ms : Int, isInterval : BOOLEAN]]
    /\ reg \in [Id -> [kind : Kind, deadline : Nat, delay : Nat]]
    /\ starts \in [Id -> 0 .. 2]
    /\ past \in [Handle -> Past]

Init ==
    /\ now = 0
    /\ heap = {}
    /\ canceled = {}
    /\ nextId = 1
    /\ protect = [i \in Id |-> 0]
    /\ frames = <<[entry |-> NoEntry, waiting |-> FALSE]>>
    /\ handle = [h \in Handle |-> Unset]
    /\ reg = [i \in Id |-> [kind |-> "none", deadline |-> 0, delay |-> 0]]
    /\ starts = [i \in Id |-> 0]
    /\ past = [h \in Handle |-> [named |-> {}, quiet |-> {}]]

(* The delay a script passes becomes a whole number of milliseconds.  An    *)
(* interval of a positive fraction of a millisecond becomes a period of 0.  *)
TimeoutMs(d) == IF d < 0 THEN 0 ELSE d \div 10
IntervalMs(d) == IF d <= 0 THEN 1 ELSE d \div 10
DelayMs(d, every) == IF every THEN IntervalMs(d) ELSE TimeoutMs(d)

Depth == Len(frames)
Top == frames[Depth]
Running == Depth > 0 /\ ~Top.waiting        \* a script is executing
Looping == Depth > 0 => Top.waiting          \* an event loop is executing

-----------------------------------------------------------------------------
(* Script operations                                                        *)

(* register_timer.  Bound: only deadlines before the clock stops.           *)
Register(d, every) ==
    LET ms == DelayMs(d, every) IN
    /\ nextId \in Id
    /\ now + ms < MaxNow
    /\ heap' = heap \cup {[id |-> nextId, deadline |-> now + ms,
                           delay |-> ms, repeating |-> every]}
    /\ protect' = [protect EXCEPT ![nextId] = @ + 1]
    /\ reg' = [reg EXCEPT ![nextId] =
                 [kind |-> IF every THEN "interval" ELSE "timeout",
                  deadline |-> now + ms, delay |-> ms]]
    /\ nextId' = nextId + 1

(* setTimeout and setInterval; setImmediate is setTimeout of 0.             *)
SetTimer(h, d, every) ==
    /\ Running
    /\ handle[h].id = 0
    /\ Register(d, every)
    /\ handle' = [handle EXCEPT ![h] = [id |-> nextId, ms |-> d,
                                        isInterval |-> every]]
    /\ past' = [past EXCEPT ![h].named = @ \cup {nextId}]
    /\ UNCHANGED <<now, canceled, frames, starts>>

(* What clearTimeout unwraps a handle to: the id it stands for now.         *)
IdsOfForgetful(h) == {}     \* mutant: a clear that does not see the id
IdsOf(h) == {handle[h].id}

(* clearTimeout(h), h.close() and h[Symbol.dispose]().                      *)
Clear(h) ==
    /\ Running
    /\ handle[h].id # 0
    /\ canceled' = canceled \cup IdsOf(h)
    /\ past' = [past EXCEPT ![h].quiet = past[h].named]
    /\ UNCHANGED <<now, heap, nextId, protect, frames, handle, reg, starts>>

(* clearTimeout(n) of a plain number: it need not be an id handed out yet.  *)
ClearNumber(n) ==
    /\ Running
    /\ canceled' = canceled \cup {n}
    /\ UNCHANGED <<now, heap, nextId, protect, frames, handle, reg, starts, past>>

(* h.refresh(): clear the timer, register it again under a new id.          *)
Refresh(h) ==
    /\ Running
    /\ handle[h].id # 0
    /\ canceled' = canceled \cup IdsOf(h)
    /\ Register(handle[h].ms, handle[h].isInterval)
    /\ handle' = [handle EXCEPT ![h].id = nextId]
    /\ past' = [past EXCEPT ![h] = [named |-> past[h].named \cup {nextId},
                                quiet |-> past[h].named]]
    /\ UNCHANGED <<now, frames, starts>>

(* require() of a module that is not ready blocks the turn in               *)
(* await_promise, and returns once the promise has settled.                 *)
Await ==
    /\ Running
    /\ Depth < MaxDepth
    /\ frames' = [frames EXCEPT ![Depth].waiting = TRUE]
    /\ UNCHANGED <<now, heap, canceled, nextId, protect, handle, reg, starts, past>>

Resume ==
    /\ Depth > 0
    /\ Top.waiting
    /\ frames' = [frames EXCEPT ![Depth].waiting = FALSE]
    /\ UNCHANGED <<now, heap, canceled, nextId, protect, handle, reg, starts, past>>

-----------------------------------------------------------------------------
(* Steps of an event loop                                                   *)

BeforeTiesReversed(x, y) ==         \* mutant: only the deadline is compared in reverse
    x.deadline < y.deadline \/ (x.deadline = y.deadline /\ x.id > y.id)
BeforeReversed(x, y) ==             \* mutant: the heap pops the largest entry
    x.deadline > y.deadline \/ (x.deadline = y.deadline /\ x.id > y.id)
Before(x, y) ==
    x.deadline < y.deadline \/ (x.deadline = y.deadline /\ x.id < y.id)

LiveAll == heap                     \* mutant: is_canceled is not asked
Live == {e \in heap : e.id \notin canceled}
First(e) == e \in Live /\ \A o \in Live : o = e \/ Before(e, o)

(* The entries taken out of the heap on the way to e, e included.           *)
PoppedPeek(e) == {x \in heap \ Live : Before(x, e)}     \* mutant: e is only peeked at
Popped(e) == {x \in heap \ Live : Before(x, e)} \cup {e}

UnprotectedLeak(gone) == protect    \* mutant: a dropped entry keeps its callback
Unprotected(gone) ==
    [i \in Id |-> IF \E x \in gone : x.id = i THEN protect[i] - 1 ELSE protect[i]]

Count(n) == IF n < 2 THEN n + 1 ELSE 2

(* run_one_tick drops the cleared entries ahead of the first live one and   *)
(* calls its callback, for it is due.                                       *)
TickFire(e) ==
    /\ Looping
    /\ Depth < MaxDepth
    /\ First(e)
    /\ e.deadline <= now
    /\ heap' = heap \ Popped(e)
    /\ protect' = Unprotected(Popped(e) \ {e})
    /\ frames' = Append(frames, [entry |-> e, waiting |-> FALSE])
    /\ starts' = [starts EXCEPT ![e.id] = Count(@)]
    /\ UNCHANGED <<now, canceled, nextId, handle, reg, past>>

(* run_one_tick finds no timer due, and drops the cleared entries it met.   *)
TickIdle ==
    LET gone == {x \in heap \ Live : \A e \in Live : Before(x, e)} IN
    /\ Looping
    /\ \A e \in Live : e.deadline > now
    /\ gone # {}
    /\ heap' = heap \ gone
    /\ protect' = Unprotected(gone)
    /\ UNCHANGED <<now, canceled, nextId, frames, handle, reg, starts, past>>

(* The loop calls into JavaScript for something that is not a timer.        *)
StartTask ==
    /\ Looping
    /\ Depth < MaxDepth
    /\ frames' = Append(frames, [entry |-> NoEntry, waiting |-> FALSE])
    /\ UNCHANGED <<now, heap, canceled, nextId, protect, handle, reg, starts, past>>

(* What a turn leaves behind: an interval is armed again, counted from the  *)
(* end of its turn, and the callback of any other timer is released.        *)
RearmedAll(e) ==                    \* mutant: every timer is armed again
    IF e.id # 0 THEN {[e EXCEPT !.deadline = now + e.delay]} ELSE {}
RearmedStale(e) ==                  \* mutant: the old deadline is kept
    IF e.id # 0 /\ e.repeating THEN {e} ELSE {}
Rearmed(e) ==
    IF e.id # 0 /\ e.repeating THEN {[e EXCEPT !.deadline = now + e.delay]} ELSE {}

Released(e) == IF e.id # 0 /\ ~e.repeating THEN {e} ELSE {}

EndTurnPrunes ==                     \* mutant: an id is forgotten with its timer's turn
    /\ Running
    /\ frames' = SubSeq(frames, 1, Depth - 1)
    /\ heap' = heap \cup Rearmed(Top.entry)
    /\ protect' = Unprotected(Released(Top.entry))
    /\ canceled' = canceled \ {Top.entry.id}
    /\ UNCHANGED <<now, nextId, handle, reg, starts, past>>
EndTurn ==
    /\ Running
    /\ frames' = SubSeq(frames, 1, Depth - 1)
    /\ heap' = heap \cup Rearmed(Top.entry)
    /\ protect' = Unprotected(Released(Top.entry))
    /\ UNCHANGED <<now, canceled, nextId, handle, reg, starts, past>>

-----------------------------------------------------------------------------
(* The rest of the process                                                  *)

AdvanceClock ==
    /\ now < MaxNow
    /\ now' = now + 1
    /\ UNCHANGED <<heap, canceled, nextId, protect, frames, handle, reg, starts, past>>

(* NEXT_ID is shared with the other JavaScript threads.                     *)
IdTakenElsewhere ==
    /\ nextId \in Id \cap Foreign
    /\ nextId' = nextId + 1
    /\ UNCHANGED <<now, heap, canceled, protect, frames, handle, reg, starts, past>>

Tick == (\E e \in heap : TickFire(e)) \/ TickIdle

Next ==
    \/ \E h \in Handle, d \in DelayTenths, every \in BOOLEAN : SetTimer(h, d, every)
    \/ \E h \in Handle : Clear(h)
    \/ \E n \in Number : ClearNumber(n)
    \/ \E h \in Handle : Refresh(h)
    \/ Await
    \/ Resume
    \/ \E e \in heap : TickFire(e)
    \/ TickIdle
    \/ StartTask
    \/ EndTurn
    \/ AdvanceClock
    \/ IdTakenElsewhere

Spec == Init /\ [][Next]_vars

(* Fairness.  A turn that is neither blocked nor preempted returns, at      *)
(* every depth of nesting; the promise a turn is blocked on settles; the    *)
(* outermost loop ticks once in every iteration; time passes.               *)
Fairness ==
    /\ \A n \in 1 .. MaxDepth :
          /\ SF_vars(Depth = n /\ EndTurn)
          /\ SF_vars(Depth = n /\ Resume)
    /\ SF_vars(Depth = 0 /\ Tick)
    /\ WF_vars(AdvanceClock)

FairSpec == Spec /\ Fairness

-----------------------------------------------------------------------------
(* Properties                                                               *)

InHeap(i) == \E e \in heap : e.id = i
InTurn(i) == \E k \in 1 .. Depth : frames[k].entry.id = i
OneShot(i) == reg[i].kind = "timeout"

(* The garbage collector may take a callback exactly when the runtime can   *)
(* no longer call it: register_timer protects once, and each way a timer    *)
(* ends (its turn, the reaping of a cleared entry) unprotects once.         *)
ProtectExact ==
    \A i \in Id : protect[i] = IF InHeap(i) \/ InTurn(i) THEN 1 ELSE 0

(* A timer is in one place: an id has one heap entry at most, and no entry  *)
(* while its callback runs, so an interval never re-enters its callback     *)
(* from a nested event loop.                                                *)
SingleOwner ==
    /\ \A x, y \in heap : x.id = y.id => x = y
    /\ \A k \in 1 .. Depth : frames[k].entry.id # 0 => ~InHeap(frames[k].entry.id)
    /\ \A j, k \in 1 .. Depth :
          frames[j].entry.id = frames[k].entry.id => j = k \/ frames[j].entry.id = 0

(* The callback of a setTimeout or setImmediate starts at most once.        *)
OneShotOnce == \A i \in Id : OneShot(i) => starts[i] <= 1

(* Timeouts fire in the order the script set them when the later one does   *)
(* not ask for a shorter delay, whatever ticks nest and clears intervene.   *)
SameDelayOrder ==
    \A a, b \in Id :
        /\ OneShot(a) /\ OneShot(b) /\ a < b
        /\ reg[a].delay <= reg[b].delay
        /\ starts[b] > 0
        => starts[a] > 0 \/ a \in canceled

(* However a handle is refreshed and cleared, it stands for one timer: of   *)
(* the timers it ever named, only the last can still start its callback.    *)
HandleOwnsLive ==
    /\ \A e \in heap : e.id \notin canceled => \E h \in Handle : handle[h].id = e.id
    /\ \A g, h \in Handle : handle[g].id = handle[h].id => g = h \/ handle[g].id = 0

(* A handle that was cleared is silent until it is refreshed, and then only *)
(* its new timer is heard: no timer it named up to then starts, in whatever *)
(* order clears, refreshes and nested turns came, and not even the interval *)
(* that is cleared inside its own callback and armed again at its end.      *)
ClearedStaysSilent ==
    [][\A h \in Handle : \A i \in past[h].quiet : starts'[i] = starts[i]]_vars

(* A callback never starts before the delay has gone by since the timer was *)
(* set, and an interval's never before a period since its last turn ended.  *)
NeverEarly ==
    [][\A i \in Id :
         /\ starts'[i] # starts[i] => now >= reg[i].deadline
         /\ InTurn(i) /\ ~InTurn(i)' /\ reg[i].kind = "interval"
            => \E e \in heap' : e.id = i /\ e.deadline >= now + reg[i].delay]_vars

(* A timeout that is never cleared fires: neither nested event loops, nor   *)
(* async tasks, nor an interval of period 0 starve it.                      *)
TimeoutsFire ==
    \A i \in Id : (OneShot(i) /\ i \notin canceled) ~> (starts[i] > 0 \/ i \in canceled)


StatusOf(i) ==
    IF reg[i].kind = "none" THEN "free"
    ELSE IF InHeap(i) THEN "armed"
    ELSE IF InTurn(i) THEN "running"
    ELSE "retired"

Service == INSTANCE TimerService WITH
    status <- [i \in Id |-> StatusOf(i)],
    repeating <- {i \in Id : reg[i].kind = "interval"},
    cleared <- canceled \cap Id

(* The registry implements the timer service.                               *)
ImplementsService == Service!ServiceSpec
=============================================================================
