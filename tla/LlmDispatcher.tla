----------------------------- MODULE LlmDispatcher -----------------------------
(***************************************************************************)
(* LlmDispatcherService: the in-memory queue of ONE llm_config that gates  *)
(* the calls of self-hosted models. Node runs one callback at a time, but  *)
(* a waiter that release() starts goes on in a microtask of its own: other *)
(* callbacks already queued run in between, and the slot is counted only   *)
(* when the waiter goes on.                                                *)
(***************************************************************************)
EXTENDS Integers, Sequences, SequencesExt, FiniteSets

CONSTANTS
  Calls,       \* callers; each makes one call at a time, any number of times
  Users,
  UserOf,      \* the user a caller works for ('anon' is a user)
  PriorityOf,  \* PRIORITY_RANK of its class: 0 interactive, 1 background, 2 batch
  Limits       \* the values maxConcurrency may take; 0 stands for null, no gate

ASSUME CallsAssumption == IsFiniteSet(Calls)
ASSUME UserOfAssumption == UserOf \in [Calls -> Users]
ASSUME PriorityOfAssumption == PriorityOf \in [Calls -> 0..2]
ASSUME LimitsAssumption == Limits \subseteq Nat /\ Limits # {}

VARIABLES
  maxConcurrency,  \* of the registry entry; 0 when there is none
  active,          \* q.active
  waiting,         \* q.waiting, oldest first, each with its effective rank
  rr,              \* q.rr: the users granted a slot, least recently granted first
  pc,              \* where each caller is
  slot             \* the streams whose __release is still set

vars == <<maxConcurrency, active, waiting, rr, pc, slot>>

\* "woken": its promise is resolved, its continuation is queued; "exhausted": the
\* iterator of the stream has said done and the consumer has not left it yet.
Pcs == {"idle", "waiting", "woken", "running", "streaming", "exhausted"}
Waiters == [call : Calls, rank : 0..2]

TypeOK ==
  /\ maxConcurrency \in Limits
  /\ active \in Nat
  /\ waiting \in Seq(Waiters)
  /\ rr \in Seq(Users)
  /\ pc \in [Calls -> Pcs]
  /\ slot \in SUBSET Calls

Init ==
  /\ maxConcurrency \in Limits
  /\ active = 0
  /\ waiting = <<>>
  /\ rr = <<>>
  /\ pc = [c \in Calls |-> "idle"]
  /\ slot = {}

-----------------------------------------------------------------------------
(* pickNext, grant, release *)

\* q.rr.get(userId) ?? 0
LastServed(u) == IF \E k \in DOMAIN rr : rr[k] = u THEN CHOOSE k \in DOMAIN rr : rr[k] = u ELSE 0

\* Variant: a tie goes to the waiter that came last.
BeforeLifo(i, j) ==
  LET v == waiting[i]  w == waiting[j]
      s == LastServed(UserOf[v.call])  r == LastServed(UserOf[w.call]) IN
  \/ v.rank < w.rank
  \/ v.rank = w.rank /\ s < r
  \/ v.rank = w.rank /\ s = r /\ i >= j

\* Waiter i goes before waiter j: class first, then the user served longest ago, then
\* the older.
Before(i, j) ==
  LET v == waiting[i]  w == waiting[j]
      s == LastServed(UserOf[v.call])  r == LastServed(UserOf[w.call]) IN
  \/ v.rank < w.rank
  \/ v.rank = w.rank /\ s < r
  \/ v.rank = w.rank /\ s = r /\ i <= j

\* grant(): u is now the user served last.
grant(u) ==
  Append(IF LastServed(u) = 0 THEN rr ELSE RemoveAt(rr, LastServed(u)), u)

\* pickNext(q)?.start(): the waiter leaves the queue; it counts only when it goes on.
PickNext(after) ==
  \/ waiting = <<>> /\ pc' = after /\ UNCHANGED waiting
  \/ \E i \in DOMAIN waiting :
       /\ \A j \in DOMAIN waiting : Before(i, j)
       /\ waiting' = RemoveAt(waiting, i)
       /\ pc' = [after EXCEPT ![waiting[i].call] = "woken"]

\* Variant: the cap is looked at before the slot is given back.
ReleaseBelowCap(after) ==
  /\ active' = active - 1
  /\ IF active < maxConcurrency THEN PickNext(after) ELSE pc' = after /\ UNCHANGED waiting
  /\ rr' = IF active' = 0 /\ waiting' = <<>> THEN <<>> ELSE rr

\* release(): after is pc once the releasing call has moved on.
release(after) ==
  /\ active' = active - 1
  /\ PickNext(after)
  /\ rr' = IF active' = 0 /\ waiting' = <<>> THEN <<>> ELSE rr

-----------------------------------------------------------------------------
(* schedule *)

\* register(): the config is edited and a model is built from it again; a cap of null
\* (or below 1) removes the entry, the queue and its waiters stay.
Register(m) ==
  /\ maxConcurrency' = m
  /\ UNCHANGED <<active, waiting, rr, pc, slot>>

\* A slot is taken: active++, grant().
TakeSlot(c) ==
  /\ active' = active + 1
  /\ rr' = grant(UserOf[c])
  /\ pc' = [pc EXCEPT ![c] = "running"]
  /\ UNCHANGED <<maxConcurrency, waiting, slot>>

\* invoke(), stream(): a call is gated while there is an entry. Without one it does not
\* touch the queue, and nothing of it is kept here.
Gated == maxConcurrency # 0

\* schedule() below the cap: the call runs at once.
Admit(c) ==
  /\ pc[c] = "idle" /\ Gated
  /\ active < maxConcurrency
  /\ TakeSlot(c)

\* schedule() at the cap: the call waits.
Enqueue(c) ==
  /\ pc[c] = "idle" /\ Gated
  /\ active >= maxConcurrency
  /\ waiting' = Append(waiting, [call |-> c, rank |-> PriorityOf[c]])
  /\ pc' = [pc EXCEPT ![c] = "waiting"]
  /\ UNCHANGED <<maxConcurrency, active, rr, slot>>

\* The continuation of a started waiter: it does not look at the cap again.
Resume(c) ==
  /\ pc[c] = "woken"
  /\ TakeSlot(c)

\* Variant: waiting does not promote anybody.
RankAfter(w) == w.rank

\* effRank: a waiter moves up one class per agingMs of wait, to the first at most.
Promoted(w) == IF w.rank = 0 THEN 0 ELSE w.rank - 1

\* Another agingMs of waiter i's wait has passed: of an older one's as well.
Age(i) ==
  LET w == waiting[i]
      classes(v) == PriorityOf[v.call] - v.rank IN
  /\ w.rank > 0
  /\ \A j \in 1..(i - 1) : waiting[j].rank = 0 \/ classes(waiting[j]) > classes(w)
  /\ waiting' = [waiting EXCEPT ![i].rank = Promoted(w)]
  /\ UNCHANGED <<maxConcurrency, active, rr, pc, slot>>

\* fn settles: the call is over, with a result or an error.
Settle(c) ==
  /\ pc[c] = "running"
  /\ release([pc EXCEPT ![c] = "idle"])
  /\ UNCHANGED <<maxConcurrency, slot>>

\* fn of a stream returns: the slot is handed to the iterator.
HandToStream(c) ==
  /\ pc[c] = "running"
  /\ pc' = [pc EXCEPT ![c] = "streaming"]
  /\ slot' = slot \cup {c}
  /\ UNCHANGED <<maxConcurrency, active, waiting, rr>>

\* Variant: done() does not remember that it has released the slot.
DoneEveryTime(c, after) == release(after) /\ slot' = slot \ {c}

\* done() of holdSlotUntilDone: the slot is released once.
Done(c, after) ==
  /\ IF c \in slot THEN release(after) ELSE pc' = after /\ UNCHANGED <<active, waiting, rr>>
  /\ slot' = slot \ {c}

\* next() says done; the consumer may still call return().
StreamEnds(c) ==
  /\ pc[c] = "streaming"
  /\ Done(c, [pc EXCEPT ![c] = "exhausted"])
  /\ UNCHANGED maxConcurrency

\* next() throws, or the consumer calls return() or throw().
StreamLeft(c) ==
  /\ pc[c] \in {"streaming", "exhausted"}
  /\ Done(c, [pc EXCEPT ![c] = "idle"])
  /\ UNCHANGED maxConcurrency

Next ==
  \/ \E m \in Limits : Register(m)
  \/ \E c \in Calls :
       \/ Admit(c) \/ Enqueue(c) \/ Resume(c)
       \/ Settle(c) \/ HandToStream(c) \/ StreamEnds(c) \/ StreamLeft(c)
  \/ \E i \in DOMAIN waiting : Age(i)

Spec == Init /\ [][Next]_vars

\* Microtasks run, providers answer, consumers leave their streams, time passes.
\* Nobody is obliged to call again.
Fairness ==
  /\ \A c \in Calls : /\ WF_vars(Resume(c))
                      /\ WF_vars(Settle(c) \/ HandToStream(c))
                      /\ WF_vars(StreamEnds(c) \/ StreamLeft(c))
  /\ WF_vars(\E i \in DOMAIN waiting : Age(i))

FairSpec == Spec /\ Fairness

-----------------------------------------------------------------------------
(* Properties *)

Woken == {c \in Calls : pc[c] = "woken"}
Holders == {c \in Calls : pc[c] = "running"} \cup slot

\* active is the number of calls that hold a slot: through errors, streams that end,
\* fail or are left halfway, no slot is released twice and none is lost.
SlotsCounted == active = Cardinality(Holders)

\* While somebody waits, the slots in use and those handed to woken waiters reach the
\* smallest cap that was ever declared: no release() forgets the queue.
NoLostWakeup ==
  waiting # <<>> => \E m \in Limits \ {0} : active + Cardinality(Woken) >= m

\* Of two waiters of one user and one class, the later never leaves the queue before
\* the earlier: aging and round-robin do not reorder a user's own calls.
FifoPerUser ==
  [][\A i, j \in DOMAIN waiting :
       LET v == waiting[i].call  w == waiting[j].call IN
       i < j /\ UserOf[v] = UserOf[w] /\ PriorityOf[v] = PriorityOf[w]
         => (pc'[w] = "waiting" \/ pc'[v] # "waiting")]_vars

\* "Runs fn respecting the per-config concurrency cap": an arriving call or a woken
\* waiter never takes the queue above the cap, while there is one.
CapRespected == [][active' > active /\ Gated => active' <= maxConcurrency]_vars

\* Whatever its class and its user, a waiter runs eventually: batch cannot starve.
WaiterServed == \A c \in Calls : pc[c] = "waiting" ~> pc[c] = "running"
=============================================================================
