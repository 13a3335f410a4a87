------------------------- MODULE RecordareOutboxProofs -------------------------
(***************************************************************************)
(* What RecordareOutbox keeps, for any number of messages, rows, attempts, *)
(* faults and drains: the interval's and any flushes beside it. Of a       *)
(* message two drains raced for (raced), only what ingests need is kept.   *)
(***************************************************************************)
EXTENDS RecordareOutbox, FiniteSetTheorems, WellFoundedInduction, TLAPS

\* The bound on rows leaves room for the changes whose rows are about to be enqueued.
RoomLeft == lastId + Cardinality(user.found) + Cardinality(user.truncated)
              + Cardinality(user.setting) + Cardinality(user.flagged) <= MaxRows

\* Truncations of the chat come one after the other.
OneTruncation == user.found # {} => user.truncated = {}

\* A row that is or was in the table is about a message, or about the conversation.
Made(r) == outbox[r].m \in Messages \/ outbox[r].op = "delete_conversation"
RowsKnown == \A r \in RowIds : Live(r) => Made(r)

\* Ids are new: the rows past the sequence do not exist yet.
FreshIds == \A r \in RowIds : r > lastId => ~Made(r)

\* A drain's rows were in the table; another drain may have removed them since.
RowsHeld == \A d \in Drainers : \A r \in Holds(d) : Made(r)

\* A request is about messages to ingest or about one row of another kind.
OneRequest == \A d \in Drainers :
  LET t == drain[d] IN
  /\ t.pc = "idle" <=> t.rows = {}
  /\ \A r \in t.others : outbox[r].op # "message" /\ r \notin t.rows
  /\ \/ \A r \in t.rows : outbox[r].op = "message"
     \/ \E r \in t.rows : /\ t.rows = {r} /\ outbox[r].op # "message"
                          /\ t.pc = "read" => outbox[r].op = "message_privacy"

\* A flag is sent of the messages of the request only.
FlagsOfRows == \A d \in Drainers : \A m \in Messages : drain[d].flags[m] # "none" =>
  \E r \in drain[d].rows : outbox[r].m = m /\ outbox[r].op \in {"message", "message_privacy"}

\* Rows of two drains that must keep their order are about a message known to be raced for.
RaceKnown == \A d, e \in Drainers : d # e =>
  \A r \in Holds(d), k \in Holds(e) :
    /\ outbox[r].m \in Messages /\ outbox[k].m = outbox[r].m
    /\ Conflict(outbox[r].op, outbox[k].op)
    => outbox[r].m \in raced

\* Of a message that does not exist yet nothing is known or sent.
NewUnknown == \A m \in Messages : messages[m] = "new" =>
  remote[m] = "none" /\ \A d \in Drainers : drain[d].flags[m] = "none"

GoneWithChat == chat = "deleted" => \A m \in Messages : ~Present(m)

\* The message is on its way to Recordare.
Ingesting(m) == \E d \in Drainers :
  /\ drain[d].pc = "send" /\ drain[d].flags[m] # "none"
  /\ \A r \in drain[d].rows : outbox[r].op = "message"

\* A message that was rewound while it was on its way has its deletion in the table too.
DeletionFollows == \A m \in Messages :
  chat = "present" /\ messages[m] = "deleted" /\ Ingesting(m) /\ m \notin unqueued \cup raced
    => m \in user.truncated \/ Queued("delete_message", m)

\* The row of a deletion is removed once Recordare has forgotten the message.
DeletionDone == \A d \in Drainers : \A r \in drain[d].rows :
  drain[d].pc = "remove" /\ outbox[r].op = "delete_message" /\ outbox[r].m \notin raced
    => remote[outbox[r].m] = "none"

\* Some other row than those in rows changes the privacy of m.
Corrected(m, rows) == \E r \in RowIds \ rows :
  Live(r) /\ outbox[r].op = "message_privacy" /\ outbox[r].m = m

\* A flag that is sent and is not the message's any more will be corrected, by another
\* row than the one that sends it.
FlagFollows == \A d \in Drainers : \A m \in Messages :
  /\ drain[d].pc \in {"send", "remove"} /\ drain[d].flags[m] # "none"
  /\ Present(m) /\ drain[d].flags[m] # messages[m] /\ m \notin unqueued \cup raced
  => m \in user.flagged \/ Corrected(m, drain[d].rows)

\* The row of a change of privacy is removed once Recordare has the flag that was sent.
FlagDone == \A d \in Drainers : \A r \in drain[d].rows :
  LET m == outbox[r].m IN
  /\ drain[d].pc = "remove" /\ outbox[r].op = "message_privacy"
  /\ Present(m) /\ remote[m] # "none" /\ m \notin raced
  => remote[m] = drain[d].flags[m]

RowsInv == /\ RoomLeft /\ OneTruncation /\ FreshIds /\ RowsKnown /\ RowsHeld
           /\ OneRequest /\ FlagsOfRows /\ RaceKnown
SentInv == /\ NewUnknown /\ GoneWithChat
           /\ DeletionQueued /\ DeletionFollows /\ DeletionDone
           /\ PrivacyQueued /\ FlagFollows /\ FlagDone
OutboxInv == TypeOK /\ RowsInv /\ SentInv

-----------------------------------------------------------------------------
(* Sets of messages, and the least of a set of rows *)

LEMMA MessageSets ==
  /\ Cardinality({}) = 0
  /\ \A m \in 0..MaxMessages : IsFiniteSet({m}) /\ Cardinality({m}) = 1
  /\ \A S \in SUBSET Messages :
       /\ IsFiniteSet(S) /\ Cardinality(S) \in Nat
       /\ \A m \in Messages : /\ Cardinality(S \cup {m}) <= Cardinality(S) + 1
                              /\ m \in S => Cardinality(S \ {m}) = Cardinality(S) - 1
<1>1. IsFiniteSet(Messages)
  BY FS_Interval, BoundsAssumption DEF Messages
<1>2. ASSUME NEW S \in SUBSET Messages
      PROVE  IsFiniteSet(S) /\ Cardinality(S) \in Nat
  BY <1>1, <1>2, FS_Subset, FS_CardinalityType
<1>3. ASSUME NEW S \in SUBSET Messages, NEW m \in Messages
      PROVE  /\ Cardinality(S \cup {m}) <= Cardinality(S) + 1
             /\ m \in S => Cardinality(S \ {m}) = Cardinality(S) - 1
  <2>1. IsFiniteSet(S) /\ Cardinality(S) \in Nat
    BY <1>2
  <2>2. Cardinality(S \cup {m}) = IF m \in S THEN Cardinality(S) ELSE Cardinality(S) + 1
    BY <2>1, FS_AddElement
  <2>3. Cardinality(S \ {m}) = IF m \in S THEN Cardinality(S) - 1 ELSE Cardinality(S)
    BY <2>1, FS_RemoveElement
  <2>. QED
    BY <2>1, <2>2, <2>3
<1>4. Cardinality({}) = 0
  BY FS_EmptySet
<1>5. \A m \in 0..MaxMessages : IsFiniteSet({m}) /\ Cardinality({m}) = 1
  BY FS_Singleton
<1>. QED
  BY <1>2, <1>3, <1>4, <1>5

LEMMA LeastRow ==
  ASSUME NEW rows \in SUBSET RowIds, rows # {}
  PROVE  Min(rows) \in rows
<1>. DEFINE Less == {ss \in Nat \X Nat : ss[1] < ss[2]}
<1>1. rows \subseteq Nat
  BY BoundsAssumption DEF RowIds
<1>2. IsWellFoundedOn(Less, Nat)
  BY NatLessThanWellFounded, Zenon DEF OpToRel
<1>3. PICK x \in rows : \A y \in rows : ~(<<y, x>> \in Less)
  <2>. HIDE DEF Less
  <2>. QED
    BY <1>1, <1>2, WFMin
<1>4. ASSUME NEW y \in rows
      PROVE  x <= y
  <2>1. x \in Nat /\ y \in Nat
    BY <1>1
  <2>2. ~(<<y, x>>[1] < <<y, x>>[2])
    BY <1>3, <2>1
  <2>. QED
    BY <2>1, <2>2
<1>. QED
  BY <1>4 DEF Min

-----------------------------------------------------------------------------
(* Enqueueing: the table grows past the sequence, the rows there are stay *)

NewRow(op, m) == [op |-> op, m |-> m, attempts |-> 0, state |-> "due"]

\* Rows are added past the sequence; the rows there are do not change.
Grown(op, targets) ==
  /\ lastId' \in lastId..MaxRows
  /\ outbox' \in [RowIds -> OutboxRows]
  /\ \A r \in RowIds : \/ outbox'[r] = outbox[r]
                       \/ /\ r > lastId /\ r <= lastId'
                          /\ \E m \in targets : outbox'[r] = NewRow(op, m)

LEMMA EnqueueGrows ==
  ASSUME TypeOK, NEW op \in Ops, NEW targets \in SUBSET (0..MaxMessages), IsFiniteSet(targets),
         lastId + Cardinality(targets) <= MaxRows, Enqueue(op, targets)
  PROVE  /\ Grown(op, targets)
         /\ lastId' <= lastId + Cardinality(targets)
         /\ chat # "deleted" => \A m \in targets : \E r \in RowIds :
                                  r > lastId /\ outbox'[r] = NewRow(op, m)
<1>. DEFINE n == Cardinality(targets)
<1>1. n \in Nat
  BY FS_CardinalityType
<1>2. lastId \in 0..MaxRows /\ outbox \in [RowIds -> OutboxRows]
  BY DEF TypeOK
<1>3. CASE chat = "deleted"
  BY <1>1, <1>2, <1>3, BoundsAssumption DEF Enqueue, Grown
<1>4. CASE chat # "deleted"
  <2>1. PICK at \in [targets -> (lastId + 1)..(lastId + n)] :
          /\ \A m, k \in targets : m # k => at[m] # at[k]
          /\ outbox' = [r \in RowIds |->
               IF \E m \in targets : at[m] = r
               THEN NewRow(op, CHOOSE m \in targets : at[m] = r) ELSE outbox[r]]
          /\ lastId' = lastId + n
    BY <1>4 DEF Enqueue, NewRow
  <2>2. ASSUME NEW m \in targets
        PROVE  /\ at[m] \in RowIds /\ at[m] > lastId /\ at[m] <= lastId'
               /\ outbox'[at[m]] = NewRow(op, m)
    <3>1. at[m] \in (lastId + 1)..(lastId + n)
      BY <2>1
    <3>2. at[m] \in RowIds /\ at[m] > lastId /\ at[m] <= lastId'
      BY <3>1, <2>1, <1>1, <1>2, BoundsAssumption DEF RowIds
    <3>3. \E k \in targets : at[k] = at[m]
      OBVIOUS
    <3>4. (CHOOSE k \in targets : at[k] = at[m]) = m
      BY <2>1, <3>3
    <3>. QED
      BY <2>1, <3>2, <3>3, <3>4
  <2>3. ASSUME NEW m \in targets
        PROVE  NewRow(op, m) \in OutboxRows
    BY BoundsAssumption DEF NewRow, OutboxRows
  <2>4. \A r \in RowIds : (\E m \in targets : at[m] = r) \/ outbox'[r] = outbox[r]
    BY <2>1
  <2>5. \A r \in RowIds : outbox'[r] \in OutboxRows
    BY <1>2, <2>2, <2>3, <2>4
  <2>6. outbox' \in [RowIds -> OutboxRows]
    BY <2>1, <2>5
  <2>7. \A r \in RowIds : \/ outbox'[r] = outbox[r]
                          \/ /\ r > lastId /\ r <= lastId'
                             /\ \E m \in targets : outbox'[r] = NewRow(op, m)
    BY <2>2, <2>4
  <2>8. lastId' \in lastId..MaxRows /\ lastId' <= lastId + n
    BY <1>1, <1>2, <2>1, BoundsAssumption
  <2>. QED
    BY <2>2, <2>6, <2>7, <2>8 DEF Grown
<1>. QED
  BY <1>3, <1>4

LEMMA NothingGrows ==
  ASSUME TypeOK, UNCHANGED <<outbox, lastId>>, NEW op, NEW targets
  PROVE  Grown(op, targets)
BY BoundsAssumption DEF Grown, TypeOK

\* A row that is or was there does not change when others are added.
LEMMA MadeStays ==
  ASSUME TypeOK, RowsKnown, FreshIds, NEW op, NEW targets, Grown(op, targets)
  PROVE  /\ FreshIds'
         /\ \A r \in RowIds : /\ Made(r) => outbox'[r] = outbox[r]
                              /\ Live(r) => outbox'[r] = outbox[r]
<1>1. lastId \in Nat /\ lastId' \in Nat /\ lastId' >= lastId /\ RowIds \subseteq Nat
  BY BoundsAssumption DEF TypeOK, Grown, RowIds
<1>2. \A r \in RowIds : /\ Made(r) => outbox'[r] = outbox[r]
                        /\ Live(r) => outbox'[r] = outbox[r]
  BY DEF FreshIds, RowsKnown, Grown
<1>3. ASSUME NEW r \in RowIds, r > lastId'
      PROVE  ~Made(r)'
  <2>1. r > lastId /\ ~(r <= lastId')
    BY <1>1, <1>3
  <2>2. outbox'[r] = outbox[r] /\ ~Made(r)
    BY <2>1 DEF Grown, FreshIds
  <2>. QED
    BY <2>2 DEF Made
<1>4. FreshIds'
  BY <1>3 DEF FreshIds, Made
<1>. QED
  BY <1>2, <1>4

LEMMA QueuedStays ==
  ASSUME TypeOK, RowsKnown, FreshIds, NEW op, NEW targets, Grown(op, targets), NEW k, NEW m
  PROVE  /\ Queued(k, m) => Queued(k, m)'
         /\ \A rows : Corrected(m, rows) => Corrected(m, rows)'
BY MadeStays DEF Queued, Corrected, Live

\* A drain's rows are the table's, older than any row that is added.
LEMMA HeldRows ==
  ASSUME TypeOK, RowsHeld, NEW d \in Drainers
  PROVE  /\ drain[d] \in DrainRecords
         /\ \A r \in Holds(d) : r \in RowIds /\ Made(r)
         /\ \A r \in drain[d].rows : r \in RowIds /\ Made(r)
         /\ \A r \in drain[d].others : r \in RowIds /\ Made(r)
BY DEF TypeOK, RowsHeld, Holds, DrainRecords

LEMMA AddedRow ==
  ASSUME TypeOK, FreshIds, RowsHeld, NEW op, NEW m, NEW r \in RowIds, r > lastId,
         outbox'[r] = NewRow(op, m), NEW d \in Drainers, UNCHANGED drain
  PROVE  /\ Queued(op, m)'
         /\ op = "message_privacy" => Corrected(m, drain[d].rows)'
<1>1. r \notin drain[d].rows
  BY HeldRows DEF FreshIds
<1>2. Live(r)' /\ outbox'[r].op = op /\ outbox'[r].m = m
  BY DEF Live, NewRow
<1>. QED
  BY <1>1, <1>2 DEF Queued, Corrected

LEMMA UserStepRows ==
  ASSUME TypeOK, RowsInv, NEW op, NEW targets, Grown(op, targets), UNCHANGED <<drain, raced>>,
         op = "delete_conversation" \/ targets \subseteq Messages
  PROVE  FreshIds' /\ RowsKnown' /\ RowsHeld' /\ OneRequest' /\ FlagsOfRows' /\ RaceKnown'
<1>1. FreshIds'
  BY MadeStays DEF RowsInv
<1>2. RowsKnown'
  <2>1. ASSUME NEW r \in RowIds, Live(r)'
        PROVE  Made(r)'
    <3>1. CASE outbox'[r] = outbox[r]
      BY <2>1, <3>1 DEF RowsInv, RowsKnown, Live, Made
    <3>2. CASE \E m \in targets : outbox'[r] = NewRow(op, m)
      BY <3>2 DEF NewRow, Made
    <3>. QED
      BY <3>1, <3>2 DEF Grown
  <2>. QED
    BY <2>1 DEF RowsKnown
<1>3. \A d \in Drainers : \A r \in Holds(d) : Made(r) /\ outbox'[r] = outbox[r]
  BY HeldRows, MadeStays DEF RowsInv
<1>4. \A d \in Drainers : Holds(d)' = Holds(d)
  BY DEF Holds
<1>5. \A d \in Drainers : /\ drain'[d] = drain[d]
                          /\ \A r \in drain[d].rows : outbox'[r] = outbox[r]
                          /\ \A r \in drain[d].others : outbox'[r] = outbox[r]
  BY <1>3 DEF Holds
<1>6. RowsHeld'
  BY <1>3, <1>4 DEF RowsHeld, Made
<1>7. OneRequest'
  BY <1>5 DEF RowsInv, OneRequest
<1>8. FlagsOfRows'
  BY <1>5 DEF RowsInv, FlagsOfRows
<1>9. RaceKnown'
  BY <1>3, <1>4 DEF RowsInv, RaceKnown
<1>. QED
  BY <1>1, <1>2, <1>6, <1>7, <1>8, <1>9

LEMMA UserStepSent ==
  ASSUME OutboxInv, NEW op, NEW targets, Grown(op, targets), UNCHANGED <<drain, remote, raced>>,
         \A m \in Messages : Present(m)' => Present(m) \/ messages[m] = "new"
  PROVE  /\ DeletionDone' /\ FlagDone'
         /\ \A m \in Messages : Ingesting(m)' => Ingesting(m)
<1>1. \A d \in Drainers : \A r \in drain[d].rows :
        outbox'[r] = outbox[r] /\ r \in RowIds /\ Made(r)
  BY HeldRows, MadeStays DEF OutboxInv, RowsInv
<1>2. DeletionDone'
  BY <1>1 DEF OutboxInv, SentInv, DeletionDone
<1>3. ASSUME NEW m \in Messages, Ingesting(m)'
      PROVE  Ingesting(m)
  BY <1>1, <1>3 DEF Ingesting
<1>4. ASSUME NEW d \in Drainers, NEW r \in drain[d].rows,
             drain[d].pc = "remove", outbox[r].op = "message_privacy",
             messages'[outbox[r].m] \in Kept, remote[outbox[r].m] # "none",
             outbox[r].m \notin raced
      PROVE  remote[outbox[r].m] = drain[d].flags[outbox[r].m]
  <2>1. outbox[r].m \in Messages
    BY <1>1, <1>4 DEF Made
  <2>2. Present(outbox[r].m)
    BY <1>4, <2>1 DEF OutboxInv, SentInv, NewUnknown, Present
  <2>. QED
    BY <1>4, <2>2 DEF OutboxInv, SentInv, FlagDone
<1>5. FlagDone'
  BY <1>1, <1>4 DEF FlagDone, Present
<1>. QED
  BY <1>2, <1>3, <1>5

-----------------------------------------------------------------------------
(* The steps that leave the drains and Recordare alone *)

Added(op, m) == \E r \in RowIds : r > lastId /\ outbox'[r] = NewRow(op, m)

\* Rows may be added, messages saved or changed; none comes back.
UserStep(op, targets) ==
  /\ Grown(op, targets) /\ (op = "delete_conversation" \/ targets \subseteq Messages)
  /\ UNCHANGED <<drain, remote, raced>>
  /\ \A m \in Messages : /\ Present(m)' => Present(m) \/ messages[m] = "new"
                         /\ messages'[m] = "new" => messages[m] = "new"

\* A deletion is about to be enqueued, is enqueued by the step, or was owed before it.
DeletionOwed == \A m \in Messages :
  chat' = "present" /\ messages'[m] = "deleted" /\ m \notin unqueued' =>
    \/ m \in user'.truncated \/ Added("delete_message", m)
    \/ /\ chat = "present" /\ messages[m] = "deleted"
       /\ m \notin unqueued /\ m \notin user.truncated

\* So is a change of privacy, or the message is new.
FlagOwed == \A m \in Messages :
  messages'[m] \in Kept /\ m \notin unqueued' =>
    \/ m \in user'.flagged \/ Added("message_privacy", m) \/ messages[m] = "new"
    \/ messages'[m] = messages[m] /\ m \notin unqueued /\ m \notin user.flagged

LEMMA UserStepDeletion ==
  ASSUME OutboxInv, NEW op, NEW targets, UserStep(op, targets), DeletionOwed
  PROVE  DeletionQueued' /\ DeletionFollows'
<1>1. SUFFICES ASSUME NEW m \in Messages,
                      chat' = "present", messages'[m] = "deleted", m \notin unqueued',
                      m \notin raced, remote[m] # "none" \/ Ingesting(m)'
               PROVE  m \in user'.truncated \/ Queued("delete_message", m)'
  BY DEF DeletionQueued, DeletionFollows, UserStep
<1>2. TypeOK /\ RowsKnown /\ FreshIds /\ RowsHeld
  BY DEF OutboxInv, RowsInv
<1>3. Grown(op, targets) /\ UNCHANGED <<drain, remote, raced>>
  BY DEF UserStep
<1>4. CASE Added("delete_message", m)
  BY <1>2, <1>3, <1>4 DEF Added, Queued, Live, NewRow
<1>5. CASE /\ chat = "present" /\ messages[m] = "deleted"
           /\ m \notin unqueued /\ m \notin user.truncated
  <2>1. remote[m] # "none" \/ Ingesting(m)
    BY <1>1, <1>3, UserStepSent DEF UserStep
  <2>2. Queued("delete_message", m)
    BY <1>1, <1>5, <2>1 DEF OutboxInv, SentInv, DeletionQueued, DeletionFollows
  <2>. QED
    BY <1>2, <1>3, <2>2, QueuedStays
<1>. QED
  BY <1>1, <1>4, <1>5 DEF DeletionOwed

LEMMA UserStepFlag ==
  ASSUME OutboxInv, NEW op, NEW targets, UserStep(op, targets), FlagOwed
  PROVE  PrivacyQueued' /\ FlagFollows'
<1>1. /\ TypeOK /\ RowsKnown /\ FreshIds /\ RowsHeld /\ Grown(op, targets)
      /\ UNCHANGED <<drain, remote, raced>>
  BY DEF OutboxInv, RowsInv, UserStep
<1>2. ASSUME NEW m \in Messages, messages'[m] \in Kept, m \notin unqueued', m \notin raced,
             remote[m] \in Kept, remote[m] # messages'[m], m \notin user'.flagged
      PROVE  Queued("message_privacy", m)'
  <2>1. CASE Added("message_privacy", m)
    BY <2>1 DEF Added, Queued, Live, NewRow
  <2>2. CASE messages[m] = "new"
    BY <1>2, <2>2 DEF OutboxInv, SentInv, NewUnknown, Kept
  <2>3. CASE messages'[m] = messages[m] /\ m \notin unqueued /\ m \notin user.flagged
    <3>1. Queued("message_privacy", m)
      BY <1>2, <2>3 DEF OutboxInv, SentInv, PrivacyQueued, Present
    <3>. QED
      BY <1>1, <3>1, QueuedStays
  <2>. QED
    BY <1>2, <2>1, <2>2, <2>3 DEF FlagOwed
<1>3. ASSUME NEW d \in Drainers, NEW m \in Messages, drain[d].pc \in {"send", "remove"},
             drain[d].flags[m] # "none", messages'[m] \in Kept, m \notin unqueued', m \notin raced,
             drain[d].flags[m] # messages'[m], m \notin user'.flagged
      PROVE  Corrected(m, drain[d].rows)'
  <2>1. CASE Added("message_privacy", m)
    BY <1>1, <2>1, AddedRow DEF Added
  <2>2. CASE messages[m] = "new"
    BY <1>3, <2>2 DEF OutboxInv, SentInv, NewUnknown
  <2>3. CASE messages'[m] = messages[m] /\ m \notin unqueued /\ m \notin user.flagged
    <3>1. Corrected(m, drain[d].rows)
      BY <1>3, <2>3 DEF OutboxInv, SentInv, FlagFollows, Present
    <3>. QED
      BY <1>1, <3>1, QueuedStays
  <2>. QED
    BY <1>3, <2>1, <2>2, <2>3 DEF FlagOwed
<1>4. PrivacyQueued'
  BY <1>1, <1>2 DEF PrivacyQueued, Present
<1>5. FlagFollows'
  BY <1>1, <1>3 DEF FlagFollows, Present
<1>. QED
  BY <1>4, <1>5

LEMMA UserStepKeeps ==
  ASSUME OutboxInv, NEW op, NEW targets, UserStep(op, targets), DeletionOwed, FlagOwed,
         chat' \in {"present", "removing", "deleted"},
         messages' \in [Messages -> Kept \cup {"new", "deleted"}],
         user' \in Requests, OneTruncation',
         unqueued' \in SUBSET Messages, faults' \in 0..MaxFaults,
         RoomLeft', GoneWithChat'
  PROVE  OutboxInv'
<1>1. TypeOK /\ RowsInv /\ Grown(op, targets) /\ UNCHANGED <<drain, remote, raced>>
  BY DEF OutboxInv, UserStep
<1>2. TypeOK'
  <2>1. \A r \in RowIds : outbox'[r].attempts = MaxAttempts => outbox'[r].state = "parked"
    BY <1>1, BoundsAssumption DEF TypeOK, Grown, NewRow
  <2>2. lastId' \in 0..MaxRows
    BY <1>1, BoundsAssumption DEF TypeOK, Grown
  <2>. QED
    BY <1>1, <2>1, <2>2 DEF TypeOK, Grown
<1>3. RowsInv'
  BY <1>1, UserStepRows DEF UserStep, RowsInv
<1>4. NewUnknown'
  BY <1>1 DEF OutboxInv, SentInv, NewUnknown, UserStep
<1>5. DeletionDone' /\ FlagDone'
  BY UserStepSent DEF UserStep
<1>. QED
  BY <1>2, <1>3, <1>4, <1>5, UserStepDeletion, UserStepFlag DEF OutboxInv, SentInv

-----------------------------------------------------------------------------
(* One lemma per step of the users *)

LEMMA FaultType == ASSUME TypeOK, Fault PROVE faults' \in 0..MaxFaults
BY BoundsAssumption DEF TypeOK, Fault

\* The sizes the bound on rows counts.
LEMMA Sizes ==
  ASSUME TypeOK
  PROVE  /\ lastId \in Nat
         /\ user.found \in SUBSET Messages /\ user.truncated \in SUBSET Messages
         /\ user.setting \in SUBSET Messages /\ user.flagged \in SUBSET Messages
         /\ Cardinality(user.found) \in Nat /\ Cardinality(user.truncated) \in Nat
         /\ Cardinality(user.setting) \in Nat /\ Cardinality(user.flagged) \in Nat
BY MessageSets, BoundsAssumption DEF TypeOK, Requests

LEMMA SaveKeeps ==
  ASSUME OutboxInv, NEW m \in Messages, NEW flag \in Kept, Save(m, flag)
  PROVE  OutboxInv'
<1>1. TypeOK /\ RowsInv /\ SentInv /\ messages[m] = "new" /\ chat # "deleted"
  BY DEF OutboxInv, Save
<1>2. Cardinality({m}) = 1 /\ IsFiniteSet({m}) /\ {m} \in SUBSET (0..MaxMessages)
  BY MessageSets, BoundsAssumption DEF Messages
<1>3. lastId + 1 <= MaxRows
  BY <1>1, Sizes, BoundsAssumption DEF Save, Room
<1>4. Grown("message", {m}) /\ lastId' <= lastId + 1
  <2>1. CASE Enqueue("message", {m})
    BY <1>1, <1>2, <1>3, <2>1, EnqueueGrows DEF Ops
  <2>2. CASE UNCHANGED <<outbox, lastId>>
    BY <1>1, <2>2, NothingGrows DEF TypeOK
  <2>. QED
    BY <2>1, <2>2 DEF Save
<1>5. messages' = [messages EXCEPT ![m] = flag] /\ UNCHANGED <<chat, user, drain, remote, raced>>
  BY DEF Save
<1>6. UserStep("message", {m})
  BY <1>1, <1>4, <1>5 DEF UserStep, Present, TypeOK, Kept
<1>7. unqueued' \in SUBSET Messages /\ faults' \in 0..MaxFaults /\ unqueued \subseteq unqueued'
  BY <1>1, FaultType DEF Save, TypeOK
<1>8. DeletionOwed
  BY <1>1, <1>5, <1>7 DEF DeletionOwed, TypeOK, Kept, SentInv
<1>9. FlagOwed
  BY <1>1, <1>5, <1>7 DEF FlagOwed, TypeOK
<1>10. RoomLeft' /\ OneTruncation'
  <2>1. lastId' \in Nat
    BY <1>1, <1>4, Sizes, BoundsAssumption DEF Grown
  <2>. QED
    BY <1>1, <1>4, <1>5, <2>1, Sizes, BoundsAssumption
       DEF RoomLeft, OneTruncation, RowsInv, Save, Room
<1>11. messages' \in [Messages -> Kept \cup {"new", "deleted"}]
  BY <1>1, <1>5 DEF TypeOK
<1>12. GoneWithChat'
  BY <1>1, <1>5 DEF GoneWithChat
<1>. QED
  BY <1>1, <1>5, <1>6, <1>7, <1>8, <1>9, <1>10, <1>11, <1>12, UserStepKeeps DEF TypeOK

\* A step that enqueues nothing and owes what was owed before, at least.
LEMMA UserChangeKeeps ==
  ASSUME OutboxInv, UNCHANGED <<chat, outbox, lastId, drain, remote, unqueued, raced, faults>>,
         \A m \in Messages : \/ messages'[m] = messages[m]
                             \/ messages'[m] = "deleted" /\ m \in user'.truncated
                             \/ Present(m) /\ messages'[m] \in Kept /\ m \in user'.flagged,
         messages' \in [Messages -> Kept \cup {"new", "deleted"}], user' \in Requests,
         user.truncated \subseteq user'.truncated, user.flagged \subseteq user'.flagged,
         RoomLeft', OneTruncation'
  PROVE  OutboxInv'
<1>1. TypeOK /\ SentInv
  BY DEF OutboxInv
<1>2. UserStep("message", {})
  BY <1>1, NothingGrows DEF UserStep, Present, Kept
<1>3. DeletionOwed
  BY DEF DeletionOwed, Kept
<1>4. FlagOwed
  BY DEF FlagOwed, Kept
<1>5. GoneWithChat'
  BY <1>1 DEF SentInv, GoneWithChat, Present, Kept
<1>. QED
  BY <1>1, <1>2, <1>3, <1>4, <1>5, UserStepKeeps DEF TypeOK

LEMMA TruncateFindKeeps ==
  ASSUME OutboxInv, NEW m \in Messages, TruncateFind(m)
  PROVE  OutboxInv'
<1>. DEFINE toDelete == {k \in m..MaxMessages : Present(k)}
<1>1. /\ TypeOK /\ user.found = {} /\ user.truncated = {}
      /\ UNCHANGED <<chat, messages, outbox, lastId, drain, remote, unqueued, raced, faults>>
  BY DEF OutboxInv, TruncateFind
<1>2. toDelete \in SUBSET Messages
  BY BoundsAssumption DEF Messages
<1>3. user' = [user EXCEPT !.found = toDelete] /\ Room(Cardinality(toDelete))
  BY DEF TruncateFind
<1>. HIDE DEF toDelete
<1>4. /\ user' \in Requests /\ user'.found = toDelete /\ user'.truncated = user.truncated
      /\ user'.setting = user.setting /\ user'.flagged = user.flagged
  BY <1>1, <1>2, <1>3 DEF TypeOK, Requests
<1>5. RoomLeft' /\ OneTruncation'
  <2>1. Cardinality(toDelete) \in Nat /\ Cardinality({}) = 0
    BY <1>2, MessageSets
  <2>2. lastId + Cardinality(toDelete) + Cardinality(user.truncated)
          + Cardinality(user.setting) + Cardinality(user.flagged) <= MaxRows
    BY <1>1, <1>3, <2>1, Sizes, BoundsAssumption DEF Room
  <2>. QED
    BY <1>1, <1>4, <2>2 DEF RoomLeft, OneTruncation
<1>. QED
  BY <1>1, <1>4, <1>5, UserChangeKeeps DEF TypeOK

LEMMA TruncateFromKeeps ==
  ASSUME OutboxInv, TruncateFrom
  PROVE  OutboxInv'
<1>1. /\ TypeOK /\ RowsInv /\ user.found # {} /\ user.truncated = {}
      /\ messages' = [k \in Messages |-> IF k \in user.found THEN "deleted" ELSE messages[k]]
      /\ UNCHANGED <<chat, outbox, lastId, drain, remote, unqueued, raced, faults>>
  BY DEF OutboxInv, TruncateFrom, RowsInv, OneTruncation
<1>2. /\ user' \in Requests /\ user'.found = {} /\ user'.truncated = user.found
      /\ user'.setting = user.setting /\ user'.flagged = user.flagged
  BY <1>1 DEF TruncateFrom, TypeOK, Requests
<1>3. RoomLeft' /\ OneTruncation'
  <2>1. Cardinality({}) = 0
    BY MessageSets
  <2>. QED
    BY <1>1, <1>2, <2>1, Sizes, BoundsAssumption DEF RowsInv, RoomLeft, OneTruncation
<1>. QED
  BY <1>1, <1>2, <1>3, Sizes, UserChangeKeeps DEF TypeOK

LEMMA QueueDeletesKeeps ==
  ASSUME OutboxInv, QueueDeletes
  PROVE  OutboxInv'
<1>. DEFINE truncated == user.truncated
<1>1. TypeOK /\ RowsInv /\ SentInv /\ UNCHANGED <<chat, messages, drain, remote, raced>>
  BY DEF OutboxInv, QueueDeletes
<1>2. truncated \in SUBSET Messages /\ truncated \in SUBSET (0..MaxMessages) /\ IsFiniteSet(truncated)
  BY <1>1, Sizes, MessageSets, BoundsAssumption DEF Messages
<1>3. lastId + Cardinality(truncated) <= MaxRows
  BY <1>1, Sizes, BoundsAssumption DEF RowsInv, RoomLeft
<1>4. /\ user' \in Requests /\ user'.found = user.found /\ user'.truncated = {}
      /\ user'.setting = user.setting /\ user'.flagged = user.flagged
  BY <1>1, Sizes DEF QueueDeletes, TypeOK, Requests
<1>5. /\ Grown("delete_message", truncated) /\ lastId' <= lastId + Cardinality(truncated)
      /\ chat = "present" => \A m \in truncated : m \in unqueued' \/ Added("delete_message", m)
      /\ unqueued' \in SUBSET Messages /\ faults' \in 0..MaxFaults /\ unqueued \subseteq unqueued'
  <2>1. CASE Enqueue("delete_message", truncated) /\ UNCHANGED <<unqueued, faults>>
    BY <1>1, <1>2, <1>3, <2>1, EnqueueGrows DEF Ops, Added, TypeOK
  <2>2. CASE /\ Fault /\ unqueued' = unqueued \cup truncated
             /\ UNCHANGED <<outbox, lastId>>
    BY <1>1, <1>2, <2>2, FaultType, NothingGrows, Sizes DEF TypeOK
  <2>. QED
    BY <2>1, <2>2 DEF QueueDeletes
<1>6. UserStep("delete_message", truncated)
  BY <1>1, <1>2, <1>5 DEF UserStep, Present
<1>7. DeletionOwed
  BY <1>1, <1>5 DEF DeletionOwed
<1>8. FlagOwed
  BY <1>1, <1>4, <1>5 DEF FlagOwed
<1>9. RoomLeft' /\ OneTruncation'
  <2>1. Cardinality({}) = 0 /\ lastId' \in Nat
    BY <1>1, <1>5, Sizes, MessageSets, BoundsAssumption DEF Grown
  <2>. QED
    BY <1>1, <1>4, <1>5, <2>1, Sizes, BoundsAssumption DEF RoomLeft, OneTruncation, RowsInv
<1>10. GoneWithChat'
  BY <1>1 DEF GoneWithChat, SentInv, Present
<1>. QED
  BY <1>1, <1>4, <1>5, <1>6, <1>7, <1>8, <1>9, <1>10, UserStepKeeps DEF TypeOK

LEMMA SetPrivateKeeps ==
  ASSUME OutboxInv, NEW m \in Messages, SetPrivate(m)
  PROVE  OutboxInv'
<1>1. /\ TypeOK /\ RowsInv
      /\ UNCHANGED <<chat, messages, outbox, lastId, drain, remote, unqueued, raced, faults>>
  BY DEF OutboxInv, SetPrivate
<1>2. /\ user' \in Requests /\ user'.found = user.found /\ user'.truncated = user.truncated
      /\ user'.setting = user.setting \cup {m} /\ user'.flagged = user.flagged
  BY <1>1 DEF SetPrivate, TypeOK, Requests
<1>3. RoomLeft' /\ OneTruncation'
  <2>1. /\ Cardinality(user.setting \cup {m}) <= Cardinality(user.setting) + 1
        /\ Cardinality(user.setting \cup {m}) \in Nat
    BY <1>1, Sizes, MessageSets
  <2>. QED
    BY <1>1, <1>2, <2>1, Sizes, BoundsAssumption
       DEF RowsInv, RoomLeft, OneTruncation, SetPrivate, Room
<1>. QED
  BY <1>1, <1>2, <1>3, UserChangeKeeps DEF TypeOK

LEMMA WriteFlagKeeps ==
  ASSUME OutboxInv, NEW m \in Messages, NEW flag \in Kept, WriteFlag(m, flag)
  PROVE  OutboxInv'
<1>1. /\ TypeOK /\ RowsInv /\ m \in user.setting
      /\ messages' = [messages EXCEPT ![m] = IF Present(m) THEN flag ELSE @]
      /\ UNCHANGED <<chat, outbox, lastId, drain, remote, unqueued, raced, faults>>
  BY DEF OutboxInv, WriteFlag
<1>2. /\ user' \in Requests /\ user'.found = user.found /\ user'.truncated = user.truncated
      /\ user'.setting = user.setting \ {m} /\ user'.flagged = user.flagged \cup {m}
  BY <1>1 DEF WriteFlag, TypeOK, Requests
<1>3. RoomLeft' /\ OneTruncation'
  <2>1. /\ Cardinality(user.flagged \cup {m}) <= Cardinality(user.flagged) + 1
        /\ Cardinality(user.flagged \cup {m}) \in Nat
        /\ Cardinality(user.setting \ {m}) = Cardinality(user.setting) - 1
    BY <1>1, Sizes, MessageSets
  <2>. QED
    BY <1>1, <1>2, <2>1, Sizes, BoundsAssumption DEF RowsInv, RoomLeft, OneTruncation
<1>4. \A k \in Messages : \/ messages'[k] = messages[k]
                          \/ Present(k) /\ messages'[k] \in Kept /\ k \in user'.flagged
  BY <1>1, <1>2 DEF TypeOK
<1>5. messages' \in [Messages -> Kept \cup {"new", "deleted"}]
  BY <1>1 DEF TypeOK
<1>. QED
  BY <1>1, <1>2, <1>3, <1>4, <1>5, UserChangeKeeps

LEMMA QueuePrivacyKeeps ==
  ASSUME OutboxInv, NEW m \in Messages, QueuePrivacy(m)
  PROVE  OutboxInv'
<1>1. /\ TypeOK /\ RowsInv /\ SentInv /\ m \in user.flagged
      /\ UNCHANGED <<chat, messages, drain, remote, raced>>
  BY DEF OutboxInv, QueuePrivacy
<1>2. IsFiniteSet({m}) /\ {m} \in SUBSET (0..MaxMessages) /\ Cardinality({m}) = 1
  BY MessageSets, BoundsAssumption DEF Messages
<1>3. /\ user' \in Requests /\ user'.found = user.found /\ user'.truncated = user.truncated
      /\ user'.setting = user.setting /\ user'.flagged = user.flagged \ {m}
  BY <1>1 DEF QueuePrivacy, TypeOK, Requests
<1>4. /\ Cardinality(user.flagged \ {m}) = Cardinality(user.flagged) - 1
      /\ Cardinality(user.flagged \ {m}) \in Nat
  BY <1>1, Sizes, MessageSets
<1>5. lastId + 1 <= MaxRows
  BY <1>1, <1>4, Sizes, BoundsAssumption DEF RowsInv, RoomLeft
<1>6. /\ Grown("message_privacy", {m}) /\ lastId' <= lastId + 1
      /\ chat # "deleted" => m \in unqueued' \/ Added("message_privacy", m)
      /\ unqueued' \in SUBSET Messages /\ faults' \in 0..MaxFaults /\ unqueued \subseteq unqueued'
  <2>1. CASE Enqueue("message_privacy", {m}) /\ UNCHANGED <<unqueued, faults>>
    BY <1>1, <1>2, <1>5, <2>1, EnqueueGrows DEF Ops, Added, TypeOK
  <2>2. CASE /\ Fault /\ unqueued' = unqueued \cup {m}
             /\ UNCHANGED <<outbox, lastId>>
    BY <1>1, <2>2, FaultType, NothingGrows, Sizes DEF TypeOK
  <2>. QED
    BY <2>1, <2>2 DEF QueuePrivacy
<1>7. UserStep("message_privacy", {m})
  BY <1>1, <1>6 DEF UserStep, Present
<1>8. DeletionOwed
  BY <1>1, <1>3, <1>6 DEF DeletionOwed
<1>9. FlagOwed
  BY <1>1, <1>3, <1>6 DEF FlagOwed, SentInv, GoneWithChat, Present
<1>10. RoomLeft' /\ OneTruncation'
  <2>1. lastId' \in Nat
    BY <1>1, <1>6, Sizes, BoundsAssumption DEF Grown
  <2>. QED
    BY <1>1, <1>3, <1>4, <1>6, <2>1, Sizes, BoundsAssumption
       DEF RoomLeft, OneTruncation, RowsInv
<1>11. GoneWithChat'
  BY <1>1 DEF GoneWithChat, SentInv, Present
<1>. QED
  BY <1>1, <1>3, <1>6, <1>7, <1>8, <1>9, <1>10, <1>11, UserStepKeeps DEF TypeOK

LEMMA QueueConversationDeleteKeeps ==
  ASSUME OutboxInv, QueueConversationDelete
  PROVE  OutboxInv'
<1>1. /\ TypeOK /\ RowsInv /\ SentInv /\ chat' = "removing"
      /\ UNCHANGED <<messages, user, drain, remote, raced>>
  BY DEF OutboxInv, QueueConversationDelete
<1>2. IsFiniteSet({0}) /\ {0} \in SUBSET (0..MaxMessages) /\ Cardinality({0}) = 1
  BY MessageSets, BoundsAssumption
<1>3. lastId + 1 <= MaxRows
  BY <1>1, Sizes, BoundsAssumption DEF QueueConversationDelete, Room
<1>4. /\ Grown("delete_conversation", {0}) /\ lastId' <= lastId + 1
      /\ unqueued' \in SUBSET Messages /\ faults' \in 0..MaxFaults /\ unqueued \subseteq unqueued'
  <2>1. CASE Enqueue("delete_conversation", {0}) /\ UNCHANGED <<unqueued, faults>>
    BY <1>1, <1>2, <1>3, <2>1, EnqueueGrows DEF Ops, TypeOK
  <2>2. CASE Fault /\ unqueued' = Messages /\ UNCHANGED <<outbox, lastId>>
    BY <1>1, <2>2, FaultType, NothingGrows DEF TypeOK
  <2>. QED
    BY <2>1, <2>2 DEF QueueConversationDelete
<1>5. UserStep("delete_conversation", {0})
  BY <1>1, <1>4 DEF UserStep, Present
<1>6. DeletionOwed /\ GoneWithChat'
  BY <1>1 DEF DeletionOwed, GoneWithChat
<1>7. FlagOwed
  BY <1>1, <1>4 DEF FlagOwed
<1>8. RoomLeft' /\ OneTruncation'
  <2>1. lastId' \in Nat
    BY <1>1, <1>4, Sizes, BoundsAssumption DEF Grown
  <2>. QED
    BY <1>1, <1>4, <2>1, Sizes, BoundsAssumption
       DEF RoomLeft, OneTruncation, RowsInv, QueueConversationDelete, Room
<1>. QED
  BY <1>1, <1>4, <1>5, <1>6, <1>7, <1>8, UserStepKeeps DEF TypeOK

LEMMA RemoveChatKeeps ==
  ASSUME OutboxInv, RemoveChat
  PROVE  OutboxInv'
<1>1. /\ TypeOK /\ RowsInv /\ SentInv /\ chat' = "deleted"
      /\ messages' = [m \in Messages |-> IF Present(m) THEN "deleted" ELSE messages[m]]
      /\ UNCHANGED <<outbox, lastId, user, drain, remote, unqueued, raced, faults>>
  BY DEF OutboxInv, RemoveChat
<1>2. \A m \in Messages : messages'[m] \notin Kept
  BY <1>1 DEF Present, Kept
<1>3. UserStep("message", {})
  BY <1>1, <1>2, NothingGrows DEF UserStep, Present
<1>4. DeletionOwed /\ FlagOwed /\ GoneWithChat'
  BY <1>1, <1>2 DEF DeletionOwed, FlagOwed, GoneWithChat, Present
<1>5. messages' \in [Messages -> Kept \cup {"new", "deleted"}]
  BY <1>1 DEF TypeOK
<1>6. RoomLeft' /\ OneTruncation'
  BY <1>1 DEF RoomLeft, OneTruncation, RowsInv
<1>. QED
  BY <1>1, <1>3, <1>4, <1>5, <1>6, UserStepKeeps DEF TypeOK

LEMMA CrashKeeps ==
  ASSUME OutboxInv, Crash
  PROVE  OutboxInv'
<1>1. /\ TypeOK /\ RowsInv /\ SentInv
      /\ drain' = [d \in Drainers |-> NoDrain]
      /\ user' = NoRequest /\ user' \in Requests
      /\ UNCHANGED <<messages, outbox, lastId, remote, raced>>
  BY DEF OutboxInv, Crash, NoRequest, Requests
<1>2. /\ unqueued \subseteq unqueued' /\ user.truncated \subseteq unqueued'
      /\ user.flagged \subseteq unqueued' /\ unqueued' \in SUBSET Messages
      /\ chat = "removing" => unqueued' = Messages
      /\ chat' \in {"present", "deleted"} /\ (chat' = "present" => chat \in {"present", "removing"})
      /\ (chat' = "deleted" => chat = "deleted")
  BY <1>1, Sizes DEF Crash, TypeOK
<1>3. NoDrain \in DrainRecords
  BY BoundsAssumption DEF NoDrain, Nothing, DrainRecords
<1>4. TypeOK'
  <2>1. faults' \in 0..MaxFaults
    BY <1>1, FaultType DEF Crash
  <2>2. drain' \in [Drainers -> DrainRecords]
    BY <1>1, <1>3
  <2>. QED
    BY <1>1, <1>2, <2>1, <2>2 DEF TypeOK
<1>5. RowsInv'
  <2>1. RoomLeft' /\ OneTruncation'
    BY <1>1, Sizes, MessageSets, BoundsAssumption DEF RowsInv, RoomLeft, OneTruncation, NoRequest
  <2>2. FreshIds' /\ RowsKnown'
    BY <1>1 DEF RowsInv, FreshIds, RowsKnown, Live, Made
  <2>3. RowsHeld' /\ OneRequest' /\ FlagsOfRows' /\ RaceKnown'
    BY <1>1 DEF RowsHeld, OneRequest, FlagsOfRows, RaceKnown, Holds, NoDrain, Nothing
  <2>. QED
    BY <2>1, <2>2, <2>3 DEF RowsInv
<1>6. NewUnknown' /\ GoneWithChat'
  BY <1>1, <1>2 DEF SentInv, NewUnknown, GoneWithChat, NoDrain, Nothing, Present
<1>7. DeletionFollows' /\ DeletionDone' /\ FlagFollows' /\ FlagDone'
  BY <1>1 DEF DeletionFollows, Ingesting, DeletionDone, FlagFollows, FlagDone, NoDrain
<1>8. DeletionQueued'
  BY <1>1, <1>2 DEF SentInv, DeletionQueued, Queued, Live
<1>9. PrivacyQueued'
  BY <1>1, <1>2 DEF SentInv, PrivacyQueued, Queued, Live, Present
<1>. QED
  BY <1>4, <1>5, <1>6, <1>7, <1>8, <1>9 DEF OutboxInv, SentInv

-----------------------------------------------------------------------------
(* The steps of a drain: the others stay where they are *)

\* One request, of rows that are or were in the table, as the step leaves it.
RequestOf(t) ==
  /\ t \in DrainRecords
  /\ \A r \in t.rows \cup t.others : Made(r)'
  /\ t.pc = "idle" <=> t.rows = {}
  /\ \A r \in t.others : outbox'[r].op # "message" /\ r \notin t.rows
  /\ \/ \A r \in t.rows : outbox'[r].op = "message"
     \/ \E r \in t.rows : /\ t.rows = {r} /\ outbox'[r].op # "message"
                          /\ t.pc = "read" => outbox'[r].op = "message_privacy"
  /\ \A m \in Messages : t.flags[m] # "none" => \E r \in t.rows :
       outbox'[r].m = m /\ outbox'[r].op \in {"message", "message_privacy"}

\* Users, messages and ids stay; the table's rows keep what they are about.
DrainFrame ==
  /\ UNCHANGED <<chat, messages, lastId, user, unqueued>>
  /\ raced \subseteq raced' /\ raced' \in SUBSET Messages /\ faults' \in 0..MaxFaults
  /\ outbox' \in [RowIds -> OutboxRows]
  /\ \A r \in RowIds : /\ outbox'[r].attempts = MaxAttempts => outbox'[r].state = "parked"
                       /\ Live(r)' => Live(r)
                       /\ outbox'[r].op = outbox[r].op /\ outbox'[r].m = outbox[r].m

LEMMA SameTable ==
  ASSUME TypeOK, UNCHANGED <<chat, messages, outbox, lastId, user, unqueued, raced>>,
         faults' \in 0..MaxFaults
  PROVE  DrainFrame /\ \A r \in RowIds : Live(r)' <=> Live(r)
BY DEF DrainFrame, TypeOK, Live

\* No row is removed.
LEMMA RowsStay ==
  ASSUME DrainFrame, \A r \in RowIds : Live(r)' <=> Live(r)
  PROVE  /\ \A op, m : Queued(op, m)' <=> Queued(op, m)
         /\ \A m, rows : Corrected(m, rows)' <=> Corrected(m, rows)
BY DEF DrainFrame, Queued, Corrected

LEMMA Conflicts ==
  /\ \A op, other : Conflict(op, other) <=> Conflict(other, op)
  /\ Conflict("message", "delete_message") /\ Conflict("message", "message_privacy")
  /\ Conflict("message_privacy", "message_privacy")
<1>1. \A op, other : {op, other} = {other, op}
  OBVIOUS
<1>2. {"message_privacy", "message_privacy"} = {"message_privacy"}
  OBVIOUS
<1>. QED
  BY <1>1, <1>2, Zenon DEF Conflict

\* Rows of two drains about one message: an ingest beside a deletion, or a flag that is
\* sent beside a change of privacy.
LEMMA RaceOf ==
  ASSUME TypeOK, RowsInv, NEW d \in Drainers, NEW e \in Drainers, d # e,
         NEW r \in drain[d].rows, NEW k \in drain[e].rows,
         outbox[r].m \in Messages, outbox[k].m = outbox[r].m
  PROVE  /\ outbox[r].op = "delete_message" /\ outbox[k].op = "message"
              => outbox[r].m \in raced
         /\ outbox[r].op = "message_privacy" /\ outbox[k].op \in {"message", "message_privacy"}
              => outbox[r].m \in raced
<1>1. r \in Holds(d) /\ k \in Holds(e)
  BY DEF Holds
<1>2. Conflict(outbox[k].op, outbox[r].op) => outbox[r].m \in raced
  BY <1>1 DEF RowsInv, RaceKnown
<1>. QED
  BY <1>2, Conflicts

\* A drain that holds no other rows than before races for nothing new.
LEMMA RacesStay ==
  ASSUME TypeOK, RowsInv, NEW d \in Drainers, DrainFrame,
         NEW t, drain' = [drain EXCEPT ![d] = t], t.rows \cup t.others \subseteq Holds(d)
  PROVE  RaceKnown'
<1>1. \A e \in Drainers : Holds(e)' \subseteq Holds(e)
  BY DEF TypeOK, Holds
<1>2. \A e \in Drainers : \A r \in Holds(e) :
        outbox'[r].op = outbox[r].op /\ outbox'[r].m = outbox[r].m
  BY HeldRows DEF DrainFrame, RowsInv
<1>3. raced \subseteq raced'
  BY DEF DrainFrame
<1>. QED
  BY <1>1, <1>2, <1>3 DEF RowsInv, RaceKnown

LEMMA DrainRows ==
  ASSUME OutboxInv, NEW d \in Drainers, DrainFrame,
         NEW t, drain' = [drain EXCEPT ![d] = t], RequestOf(t), RaceKnown',
         remote' \in [Messages -> Kept \cup {"none"}]
  PROVE  /\ TypeOK' /\ RowsInv' /\ GoneWithChat'
         /\ drain'[d] = t /\ \A e \in Drainers \ {d} : drain'[e] = drain[e]
<1>1. TypeOK /\ RowsInv
  BY DEF OutboxInv
<1>2. drain'[d] = t /\ \A e \in Drainers \ {d} : drain'[e] = drain[e]
  BY <1>1 DEF TypeOK
<1>3. drain' \in [Drainers -> DrainRecords]
  BY <1>1 DEF TypeOK, RequestOf
<1>4. TypeOK'
  BY <1>1, <1>3 DEF TypeOK, DrainFrame
<1>5. RoomLeft' /\ OneTruncation' /\ GoneWithChat'
  BY DEF DrainFrame, OutboxInv, RowsInv, SentInv, RoomLeft, OneTruncation, GoneWithChat, Present
<1>6. FreshIds' /\ RowsKnown'
  BY <1>1 DEF DrainFrame, RowsInv, FreshIds, RowsKnown, Made
<1>7. \A e \in Drainers : \A r \in drain[e].rows \cup drain[e].others :
        /\ outbox'[r].op = outbox[r].op /\ outbox'[r].m = outbox[r].m
        /\ Made(r)'
  BY <1>1, HeldRows DEF RowsInv, DrainFrame, Made
<1>8. RowsHeld'
  BY <1>2, <1>7 DEF RowsHeld, RequestOf, Holds
<1>9. OneRequest'
  <2>1. ASSUME NEW e \in Drainers \ {d}
        PROVE  LET u == drain[e] IN
          /\ u.pc = "idle" <=> u.rows = {}
          /\ \A r \in u.others : outbox'[r].op # "message" /\ r \notin u.rows
          /\ \/ \A r \in u.rows : outbox'[r].op = "message"
             \/ \E r \in u.rows : /\ u.rows = {r} /\ outbox'[r].op # "message"
                                  /\ u.pc = "read" => outbox'[r].op = "message_privacy"
    BY <1>1, <1>7 DEF RowsInv, OneRequest
  <2>. QED
    BY <1>2, <2>1 DEF OneRequest, RequestOf
<1>10. FlagsOfRows'
  <2>1. ASSUME NEW e \in Drainers \ {d}, NEW m \in Messages, drain[e].flags[m] # "none"
        PROVE  \E r \in drain[e].rows :
                 outbox'[r].m = m /\ outbox'[r].op \in {"message", "message_privacy"}
    BY <1>1, <1>7, <2>1 DEF RowsInv, FlagsOfRows
  <2>. QED
    BY <1>2, <2>1 DEF FlagsOfRows, RequestOf
<1>. QED
  BY <1>2, <1>4, <1>5, <1>6, <1>8, <1>9, <1>10 DEF RowsInv

\* The next request of a drain: the least of the rows that follow.
LEMMA AfterRequest ==
  ASSUME NEW t \in DrainRecords,
         \A r \in t.others : /\ outbox[r].op # "message" /\ outbox'[r].op = outbox[r].op
                             /\ Made(r)'
  PROVE  /\ RequestOf(After(t)) /\ After(t).flags = Nothing
         /\ After(t).pc \in {"idle", "read", "send"}
         /\ After(t).rows \cup After(t).others \subseteq t.others
<1>1. CASE t.others = {}
  <2>1. After(t) = NoDrain
    BY <1>1 DEF After
  <2>2. NoDrain \in DrainRecords
    BY BoundsAssumption DEF NoDrain, Nothing, DrainRecords
  <2>. QED
    BY <2>1, <2>2 DEF NoDrain, Nothing, RequestOf
<1>2. CASE t.others # {}
  <2>. DEFINE r == Min(t.others)
  <2>1. r \in t.others /\ t.others \in SUBSET RowIds
    BY <1>2, LeastRow DEF DrainRecords
  <2>. HIDE DEF r
  <2>2. After(t) = [t EXCEPT !.pc = IF outbox[r].op = "message_privacy" THEN "read" ELSE "send",
                             !.rows = {r}, !.others = @ \ {r}, !.flags = Nothing]
    BY <1>2 DEF After, r
  <2>3. After(t) \in DrainRecords
    <3>1. After(t) = [pc |-> IF outbox[r].op = "message_privacy" THEN "read" ELSE "send",
                      rows |-> {r}, others |-> t.others \ {r}, flags |-> Nothing,
                      attempts |-> t.attempts]
      BY <2>2 DEF DrainRecords
    <3>2. {r} \in SUBSET RowIds /\ t.others \ {r} \in SUBSET RowIds
      BY <2>1
    <3>3. t.attempts \in [RowIds -> 0..(MaxAttempts - 1)]
      BY DEF DrainRecords
    <3>. QED
      BY <3>1, <3>2, <3>3 DEF DrainRecords, Nothing
  <2>4. /\ After(t).rows = {r} /\ After(t).others = t.others \ {r}
        /\ After(t).flags = Nothing /\ After(t).pc \in {"read", "send"}
        /\ After(t).pc = "read" => outbox[r].op = "message_privacy"
    BY <2>2 DEF DrainRecords
  <2>5. \A m \in Messages : After(t).flags[m] = "none"
    BY <2>4 DEF Nothing
  <2>. QED
    BY <2>1, <2>3, <2>4, <2>5 DEF RequestOf
<1>. QED
  BY <1>1, <1>2

\* A request that is not sent yet breaks nothing that is known of Recordare, if the rows
\* that go were about nothing another drain is sending.
LEMMA FreshRequest ==
  ASSUME OutboxInv, NEW d \in Drainers, DrainFrame,
         NEW t, drain' = [drain EXCEPT ![d] = t], RequestOf(t), RaceKnown',
         t.flags = Nothing, t.pc \in {"idle", "read", "send"}, UNCHANGED remote,
         DeletionQueued', PrivacyQueued',
         \A e \in Drainers \ {d} : \A m \in Messages \ raced :
           drain[e].flags[m] # "none" =>
             /\ (\A r \in drain[e].rows : outbox[r].op = "message")
                /\ Queued("delete_message", m) => Queued("delete_message", m)'
             /\ Corrected(m, drain[e].rows) => Corrected(m, drain[e].rows)'
  PROVE  OutboxInv'
<1>1. TypeOK /\ RowsInv /\ SentInv
  BY DEF OutboxInv
<1>2. /\ TypeOK' /\ RowsInv' /\ GoneWithChat'
      /\ drain'[d] = t /\ \A e \in Drainers \ {d} : drain'[e] = drain[e]
  BY <1>1, DrainRows DEF TypeOK
<1>3. UNCHANGED <<chat, messages, user, unqueued>> /\ raced \subseteq raced'
  BY DEF DrainFrame
<1>4. \A e \in Drainers : \A r \in drain[e].rows :
        outbox'[r].op = outbox[r].op /\ outbox'[r].m = outbox[r].m
  BY <1>1, HeldRows DEF RowsInv, DrainFrame
<1>5. NewUnknown'
  BY <1>1, <1>2, <1>3 DEF SentInv, NewUnknown, Nothing
<1>6. DeletionFollows'
  <2>1. ASSUME NEW m \in Messages, chat = "present", messages[m] = "deleted",
               Ingesting(m)', m \notin unqueued \cup raced', m \notin user.truncated
        PROVE  Queued("delete_message", m)'
    <3>1. PICK e \in Drainers : /\ drain'[e].pc = "send" /\ drain'[e].flags[m] # "none"
                                /\ \A r \in drain'[e].rows : outbox'[r].op = "message"
      BY <2>1 DEF Ingesting
    <3>2. e # d
      BY <1>2, <3>1 DEF Nothing
    <3>3. /\ drain[e].pc = "send" /\ drain[e].flags[m] # "none"
          /\ \A r \in drain[e].rows : outbox[r].op = "message"
      BY <1>2, <1>4, <3>1, <3>2
    <3>4. Queued("delete_message", m)
      BY <1>1, <1>3, <2>1, <3>3 DEF SentInv, DeletionFollows, Ingesting
    <3>. QED
      BY <1>3, <2>1, <3>2, <3>3, <3>4
  <2>. QED
    BY <1>3, <2>1 DEF DeletionFollows
<1>7. FlagFollows'
  <2>1. ASSUME NEW e \in Drainers, NEW m \in Messages,
               drain'[e].pc \in {"send", "remove"}, drain'[e].flags[m] # "none",
               Present(m), drain'[e].flags[m] # messages[m], m \notin unqueued \cup raced',
               m \notin user.flagged
        PROVE  Corrected(m, drain[e].rows)' /\ drain'[e] = drain[e]
    <3>1. e # d
      BY <1>2, <2>1 DEF Nothing
    <3>2. drain'[e] = drain[e]
      BY <1>2, <3>1
    <3>3. Corrected(m, drain[e].rows)
      BY <1>1, <1>3, <2>1, <3>2 DEF SentInv, FlagFollows
    <3>4. Corrected(m, drain[e].rows) => Corrected(m, drain[e].rows)'
      BY <1>3, <2>1, <3>1, <3>2
    <3>. QED
      BY <3>2, <3>3, <3>4
  <2>. QED
    BY <1>3, <2>1 DEF FlagFollows, Present
<1>8. DeletionDone'
  BY <1>1, <1>2, <1>3, <1>4 DEF SentInv, DeletionDone
<1>9. FlagDone'
  BY <1>1, <1>2, <1>3, <1>4 DEF SentInv, FlagDone, Present
<1>. QED
  BY <1>2, <1>5, <1>6, <1>7, <1>8, <1>9 DEF OutboxInv, SentInv

\* The same when no row goes.
LEMMA FreshRequestKeeps ==
  ASSUME OutboxInv, NEW d \in Drainers, DrainFrame, \A r \in RowIds : Live(r)' <=> Live(r),
         NEW t, drain' = [drain EXCEPT ![d] = t], RequestOf(t), RaceKnown',
         t.flags = Nothing, t.pc \in {"idle", "read", "send"}, UNCHANGED remote
  PROVE  OutboxInv'
<1>1. /\ \A op, m : Queued(op, m)' <=> Queued(op, m)
      /\ \A m, rows : Corrected(m, rows)' <=> Corrected(m, rows)
  BY RowsStay
<1>2. DeletionQueued' /\ PrivacyQueued'
  BY <1>1 DEF OutboxInv, SentInv, DrainFrame, DeletionQueued, PrivacyQueued, Present
<1>3. \A e \in Drainers \ {d} : drain'[e] = drain[e]
  BY DEF OutboxInv, TypeOK
<1>4. ASSUME NEW e \in Drainers \ {d}, NEW m
      PROVE  Corrected(m, drain[e].rows) => Corrected(m, drain[e].rows)'
  BY <1>3 DEF Corrected, DrainFrame
<1>. QED
  BY <1>1, <1>2, <1>4, FreshRequest

LEMMA SelectKeeps ==
  ASSUME OutboxInv, NEW d \in Drainers, Select(d)
  PROVE  OutboxInv'
<1>. DEFINE due == {r \in RowIds : outbox[r].state = "due"}
            first == {r \in due : outbox[r].op = "message"}
            at == [r \in RowIds |-> IF r \in due THEN outbox[r].attempts ELSE 0]
            selected == [NoDrain EXCEPT !.attempts = at]
            rest == due \ first
            waiting == [selected EXCEPT !.others = due]
            reading == [selected EXCEPT !.pc = "read", !.rows = first, !.others = rest]
            t == IF first = {} THEN After(waiting) ELSE reading
<1>1. /\ TypeOK /\ RowsInv /\ drain[d].pc = "idle"
      /\ UNCHANGED <<chat, messages, outbox, lastId, user, remote, unqueued, faults>>
      /\ drain' = [drain EXCEPT ![d] = t]
      /\ raced' = raced \cup {m \in Messages :
           \E e \in Drainers \ {d} : \E k \in Holds(e), r \in due :
             outbox[k].m = m /\ outbox[r].m = m /\ Conflict(outbox[k].op, outbox[r].op)}
  BY DEF OutboxInv, Select
<1>2. DrainFrame /\ \A r \in RowIds : Live(r)' <=> Live(r)
  BY <1>1 DEF DrainFrame, TypeOK, Live
<1>3. \A r \in due : outbox'[r] = outbox[r] /\ Made(r)'
  BY <1>1 DEF RowsInv, RowsKnown, Live, Made
<1>4. at \in [RowIds -> 0..(MaxAttempts - 1)]
  <2>1. ASSUME NEW r \in due
        PROVE  outbox[r].attempts \in 0..(MaxAttempts - 1)
    <3>1. outbox[r].attempts \in 0..MaxAttempts /\ outbox[r].attempts # MaxAttempts
      BY <1>1 DEF TypeOK, OutboxRows
    <3>. QED
      BY <3>1, BoundsAssumption
  <2>. QED
    BY <2>1, BoundsAssumption
<1>. HIDE DEF at
<1>5. /\ waiting \in DrainRecords /\ waiting.others = due
      /\ reading \in DrainRecords /\ reading.flags = Nothing /\ reading.pc = "read"
      /\ reading.rows = first /\ reading.others = rest
  <2>1. selected = [pc |-> "idle", rows |-> {}, others |-> {}, flags |-> Nothing, attempts |-> at]
    BY DEF NoDrain
  <2>2. /\ selected \in DrainRecords /\ selected.flags = Nothing
        /\ due \in SUBSET RowIds /\ first \in SUBSET RowIds /\ rest \in SUBSET RowIds
    BY <1>4, <2>1 DEF DrainRecords, Nothing
  <2>. HIDE DEF selected, due, first, rest
  <2>. QED
    BY <2>2 DEF DrainRecords
<1>6. /\ RequestOf(t) /\ t.flags = Nothing /\ t.pc \in {"idle", "read", "send"}
      /\ t.rows \cup t.others \subseteq due
  <2>1. CASE first = {}
    <3>1. \A r \in due : /\ outbox[r].op # "message" /\ outbox'[r].op = outbox[r].op
                         /\ Made(r)'
      BY <1>3, <2>1
    <3>. HIDE DEF due, waiting, first
    <3>. QED
      BY <1>5, <2>1, <3>1, AfterRequest
  <2>2. CASE first # {}
    <3>1. \A m \in Messages : reading.flags[m] = "none"
      BY <1>5 DEF Nothing
    <3>. HIDE DEF reading
    <3>2. RequestOf(reading)
      BY <1>1, <1>3, <1>5, <2>2, <3>1 DEF RequestOf
    <3>3. first \cup rest \subseteq due
      OBVIOUS
    <3>. HIDE DEF due, first, rest
    <3>. QED
      BY <1>5, <2>2, <3>2, <3>3
  <2>. HIDE DEF t, first
  <2>. QED
    BY <2>1, <2>2
<1>. HIDE DEF t
<1>7. RaceKnown'
  <2>1. /\ Holds(d)' \subseteq due
        /\ \A e \in Drainers \ {d} : Holds(e)' = Holds(e)
    BY <1>1, <1>6 DEF TypeOK, Holds
  <2>2. ASSUME NEW e \in Drainers \ {d}, NEW r \in due, NEW k \in Holds(e),
               outbox[r].m \in Messages, outbox[k].m = outbox[r].m,
               Conflict(outbox[r].op, outbox[k].op) \/ Conflict(outbox[k].op, outbox[r].op)
        PROVE  outbox[r].m \in raced'
    <3>1. Conflict(outbox[k].op, outbox[r].op)
      BY <2>2, Conflicts
    <3>. QED
      BY <1>1, <2>2, <3>1
  <2>. HIDE DEF due
  <2>3. \A e, g \in Drainers \ {d} : e # g => \A r \in Holds(e), k \in Holds(g) :
          outbox[r].m \in Messages /\ outbox[k].m = outbox[r].m /\ Conflict(outbox[r].op, outbox[k].op)
          => outbox[r].m \in raced'
    BY <1>1 DEF RowsInv, RaceKnown
  <2>. QED
    BY <1>1, <2>1, <2>2, <2>3 DEF RaceKnown
<1>. QED
  BY <1>1, <1>2, <1>6, <1>7, FreshRequestKeeps

LEMMA ReadKeeps ==
  ASSUME OutboxInv, NEW d \in Drainers, Read(d)
  PROVE  OutboxInv'
<1>. DEFINE t == drain[d]
            pc == IF CurrentFlags(t) = Nothing THEN "remove" ELSE "send"
            read == [t EXCEPT !.flags = CurrentFlags(t), !.pc = pc]
<1>1. /\ TypeOK /\ RowsInv /\ SentInv /\ t.pc = "read" /\ t \in DrainRecords
      /\ UNCHANGED <<chat, messages, outbox, lastId, user, remote, unqueued, raced, faults>>
  BY DEF OutboxInv, Read, TypeOK
<1>2. drain' = [drain EXCEPT ![d] = read]
  BY <1>1 DEF Read, TypeOK
<1>3. DrainFrame
  BY <1>1, SameTable DEF TypeOK
<1>4. /\ CurrentFlags(t) \in [Messages -> Kept \cup {"none"}]
      /\ \A m \in Messages : CurrentFlags(t)[m] # "none" =>
           Present(m) /\ CurrentFlags(t)[m] = messages[m] /\ \E r \in t.rows : outbox[r].m = m
      /\ \A r \in t.rows : outbox[r].m \in Messages /\ Present(outbox[r].m) =>
           CurrentFlags(t)[outbox[r].m] = messages[outbox[r].m]
  BY DEF CurrentFlags, Present, Kept
<1>5. /\ read \in DrainRecords /\ read.rows = t.rows /\ read.others = t.others
      /\ read.flags = CurrentFlags(t) /\ read.pc = pc
  BY <1>1, <1>4 DEF DrainRecords
<1>. HIDE DEF read
<1>6. \A r \in t.rows : r \in RowIds /\ Made(r) /\ outbox[r].op \in {"message", "message_privacy"}
  BY <1>1, HeldRows DEF RowsInv, OneRequest
<1>7. RequestOf(read)
  <2>1. \A r \in read.rows \cup read.others : Made(r)'
    BY <1>1, <1>5, HeldRows DEF RowsInv, Made
  <2>2. \A m \in Messages : read.flags[m] # "none" => \E r \in read.rows :
          outbox'[r].m = m /\ outbox'[r].op \in {"message", "message_privacy"}
    BY <1>1, <1>4, <1>5, <1>6
  <2>. HIDE DEF pc
  <2>3. pc \in {"remove", "send"}
    BY DEF pc
  <2>. QED
    BY <1>1, <1>5, <2>1, <2>2, <2>3 DEF RequestOf, RowsInv, OneRequest
<1>8. RaceKnown'
  BY <1>1, <1>2, <1>3, <1>5, RacesStay DEF Holds
<1>9. /\ TypeOK' /\ RowsInv' /\ GoneWithChat'
      /\ drain'[d] = read /\ \A e \in Drainers \ {d} : drain'[e] = drain[e]
  BY <1>1, <1>2, <1>3, <1>7, <1>8, DrainRows DEF TypeOK
<1>10. NewUnknown'
  BY <1>1, <1>4, <1>5, <1>9 DEF SentInv, NewUnknown, Present, Kept
<1>11. DeletionQueued' /\ PrivacyQueued'
  BY <1>1 DEF SentInv, DeletionQueued, PrivacyQueued, Queued, Live, Present
<1>12. DeletionFollows'
  <2>1. ASSUME NEW m \in Messages, messages[m] = "deleted", Ingesting(m)'
        PROVE  Ingesting(m)
    BY <1>1, <1>4, <1>5, <1>9, <2>1 DEF Ingesting, Present, Kept
  <2>. QED
    BY <1>1, <2>1 DEF SentInv, DeletionFollows, Queued, Live
<1>13. FlagFollows'
  <2>1. ASSUME NEW m \in Messages, read.flags[m] # "none"
        PROVE  read.flags[m] = messages[m]
    BY <1>4, <1>5, <2>1
  <2>2. \A m, rows : Corrected(m, rows) => Corrected(m, rows)'
    BY <1>1 DEF Corrected, Live
  <2>. QED
    BY <1>1, <1>9, <2>1, <2>2 DEF SentInv, FlagFollows, Present
<1>14. DeletionDone'
  BY <1>1, <1>5, <1>6, <1>9 DEF SentInv, DeletionDone
<1>15. FlagDone'
  <2>1. ASSUME NEW r \in t.rows, outbox[r].op = "message_privacy", pc = "remove"
        PROVE  ~Present(outbox[r].m)
    <3>1. outbox[r].m \in Messages
      BY <1>6, <2>1 DEF Made
    <3>2. CurrentFlags(t)[outbox[r].m] = "none"
      BY <2>1, <3>1 DEF Nothing
    <3>. QED
      BY <1>4, <3>1, <3>2 DEF Present, Kept
  <2>. HIDE DEF pc
  <2>. QED
    BY <1>1, <1>5, <1>9, <2>1 DEF SentInv, FlagDone, Present
<1>. QED
  BY <1>9, <1>10, <1>11, <1>12, <1>13, <1>14, <1>15 DEF OutboxInv, SentInv

\* What one request makes of what Recordare holds.
LEMMA AppliedIs ==
  ASSUME OutboxInv, NEW d \in Drainers, drain[d].pc = "send"
  PROVE  /\ Applied(drain[d]) \in [Messages -> Kept \cup {"none"}]
         /\ \A m \in Messages :
              /\ Applied(drain[d])[m] \in {remote[m], "none", drain[d].flags[m]}
              /\ Applied(drain[d])[m] # "none" =>
                   \/ remote[m] # "none"
                   \/ /\ drain[d].flags[m] # "none"
                      /\ \A r \in drain[d].rows : outbox[r].op = "message"
         /\ \A r \in drain[d].rows : outbox[r].m \in Messages =>
              /\ outbox[r].op = "delete_message" => Applied(drain[d])[outbox[r].m] = "none"
              /\ outbox[r].op = "message_privacy" =>
                   Applied(drain[d])[outbox[r].m] \in {"none", drain[d].flags[outbox[r].m]}
<1>. DEFINE t == drain[d]
            op == outbox[CHOOSE r \in t.rows : TRUE].op
            about == {outbox[r].m : r \in t.rows}
<1>1. t \in DrainRecords /\ remote \in [Messages -> Kept \cup {"none"}] /\ t.rows # {}
  BY DEF OutboxInv, TypeOK, RowsInv, OneRequest
<1>2. (CHOOSE r \in t.rows : TRUE) \in t.rows
  BY <1>1
<1>3. op \in Ops
  BY <1>1, <1>2 DEF OutboxInv, TypeOK, DrainRecords, OutboxRows
<1>4. \A r \in t.rows : outbox[r].op = op
  BY <1>2 DEF OutboxInv, RowsInv, OneRequest
<1>. DEFINE Left(m) ==
               CASE op = "message" -> IF remote[m] = "none" THEN t.flags[m] ELSE remote[m]
                 [] op = "message_privacy" -> IF m \in about /\ remote[m] # "none" THEN t.flags[m]
                                              ELSE remote[m]
                 [] op = "delete_message" -> IF m \in about THEN "none" ELSE remote[m]
                 [] op = "delete_conversation" -> "none"
<1>5. Applied(t) = [m \in Messages |-> Left(m)]
  BY DEF Applied
<1>6. \A r \in t.rows : outbox[r].m \in about
  OBVIOUS
<1>7. t.flags \in [Messages -> Kept \cup {"none"}]
  BY <1>1 DEF DrainRecords
<1>. HIDE DEF op, about
<1>8. ASSUME NEW m \in Messages
      PROVE  /\ Applied(t)[m] \in {remote[m], "none", t.flags[m]}
             /\ Applied(t)[m] # "none" => remote[m] # "none" \/ (t.flags[m] # "none" /\ op = "message")
             /\ op = "delete_message" /\ m \in about => Applied(t)[m] = "none"
             /\ op = "message_privacy" /\ m \in about => Applied(t)[m] \in {"none", t.flags[m]}
  BY <1>3, <1>5 DEF Ops
<1>9. Applied(t) \in [Messages -> Kept \cup {"none"}]
  <2>1. \A m \in Messages : Applied(t)[m] \in Kept \cup {"none"}
    BY <1>1, <1>7, <1>8
  <2>. HIDE DEF Left
  <2>. QED
    BY <1>5, <2>1
<1>. QED
  BY <1>4, <1>6, <1>8, <1>9

LEMMA RequestEnds ==
  ASSUME OutboxInv, NEW d \in Drainers, drain[d].pc = "send",
         UNCHANGED <<chat, messages, outbox, lastId, user, unqueued, raced>>,
         faults' \in 0..MaxFaults, NEW pc, drain' = [drain EXCEPT ![d].pc = pc],
         \/ pc = "remove" /\ remote' = Applied(drain[d])
         \/ pc = "fail" /\ remote' \in {remote, Applied(drain[d])}
  PROVE  OutboxInv'
<1>. DEFINE t == drain[d]
            done == [t EXCEPT !.pc = pc]
<1>1. TypeOK /\ RowsInv /\ SentInv /\ t \in DrainRecords
  BY DEF OutboxInv, TypeOK
<1>2. /\ done \in DrainRecords /\ done.rows = t.rows /\ done.others = t.others
      /\ done.flags = t.flags /\ done.pc = pc /\ drain' = [drain EXCEPT ![d] = done]
  BY <1>1 DEF DrainRecords, TypeOK
<1>. HIDE DEF done
<1>3. DrainFrame
  BY <1>1, SameTable
<1>4. RequestOf(done) /\ RaceKnown'
  <2>1. \A r \in done.rows \cup done.others : Made(r)'
    BY <1>1, <1>2, HeldRows DEF RowsInv, Made
  <2>2. RequestOf(done)
    BY <1>1, <1>2, <2>1 DEF RequestOf, RowsInv, OneRequest, FlagsOfRows
  <2>3. RaceKnown'
    BY <1>1, <1>2, <1>3, RacesStay DEF Holds
  <2>. QED
    BY <2>2, <2>3
<1>5. /\ remote' \in [Messages -> Kept \cup {"none"}]
      /\ \A m \in Messages :
           /\ remote'[m] \in {remote[m], "none", t.flags[m]}
           /\ remote'[m] # "none" =>
                \/ remote[m] # "none"
                \/ t.flags[m] # "none" /\ \A r \in t.rows : outbox[r].op = "message"
  BY <1>1, AppliedIs DEF TypeOK
<1>6. /\ TypeOK' /\ RowsInv' /\ GoneWithChat'
      /\ drain'[d] = done /\ \A e \in Drainers \ {d} : drain'[e] = drain[e]
  BY <1>2, <1>3, <1>4, <1>5, DrainRows
<1>7. NewUnknown'
  BY <1>1, <1>2, <1>5, <1>6 DEF SentInv, NewUnknown
<1>8. DeletionQueued'
  <2>1. ASSUME NEW m \in Messages, chat = "present", messages[m] = "deleted",
               remote'[m] # "none", m \notin unqueued \cup raced
        PROVE  m \in user.truncated \/ Queued("delete_message", m)
    BY <1>1, <1>5, <2>1 DEF SentInv, DeletionQueued, DeletionFollows, Ingesting
  <2>. QED
    BY <2>1 DEF DeletionQueued, Queued, Live
<1>9. PrivacyQueued'
  <2>1. ASSUME NEW m \in Messages, Present(m), remote'[m] \in Kept,
               remote'[m] # messages[m], m \notin unqueued \cup raced
        PROVE  m \in user.flagged \/ Queued("message_privacy", m)
    <3>1. CASE remote'[m] = remote[m]
      BY <1>1, <2>1, <3>1 DEF SentInv, PrivacyQueued
    <3>2. CASE remote'[m] = t.flags[m]
      <4>1. m \in user.flagged \/ Corrected(m, t.rows)
        BY <1>1, <2>1, <3>2 DEF SentInv, FlagFollows, Kept
      <4>. QED
        BY <4>1 DEF Corrected, Queued
    <3>. QED
      BY <1>5, <2>1, <3>1, <3>2 DEF Kept
  <2>. QED
    BY <2>1 DEF PrivacyQueued, Queued, Live, Present
<1>10. DeletionFollows'
  <2>1. ASSUME NEW m \in Messages, Ingesting(m)'
        PROVE  Ingesting(m)
    BY <1>2, <1>6, <2>1 DEF Ingesting
  <2>. QED
    BY <1>1, <2>1 DEF SentInv, DeletionFollows, Queued, Live
<1>11. FlagFollows'
  <2>1. \A m, rows : Corrected(m, rows) => Corrected(m, rows)'
    BY DEF Corrected, Live
  <2>. QED
    BY <1>1, <1>2, <1>6, <2>1 DEF SentInv, FlagFollows, Present
<1>12. DeletionDone'
  <2>1. ASSUME NEW r \in t.rows, pc = "remove", outbox[r].op = "delete_message"
        PROVE  remote'[outbox[r].m] = "none"
    BY <1>1, <2>1, HeldRows, AppliedIs DEF RowsInv, Made
  <2>2. ASSUME NEW e \in Drainers \ {d}, NEW r \in drain[e].rows, drain[e].pc = "remove",
               outbox[r].op = "delete_message", outbox[r].m \notin raced
        PROVE  remote'[outbox[r].m] = "none"
    <3>1. outbox[r].m \in Messages /\ remote[outbox[r].m] = "none"
      BY <1>1, <2>2, HeldRows DEF RowsInv, Made, SentInv, DeletionDone
    <3>2. CASE t.flags[outbox[r].m] # "none" /\ \A k \in t.rows : outbox[k].op = "message"
      <4>1. PICK k \in t.rows : outbox[k].m = outbox[r].m
        BY <1>1, <3>1, <3>2 DEF RowsInv, FlagsOfRows
      <4>. QED
        BY <1>1, <2>2, <3>1, <3>2, <4>1, RaceOf
    <3>. QED
      BY <1>5, <3>1, <3>2
  <2>. QED
    BY <1>2, <1>6, <2>1, <2>2 DEF DeletionDone
<1>13. FlagDone'
  <2>1. ASSUME NEW r \in t.rows, pc = "remove", outbox[r].op = "message_privacy",
               remote'[outbox[r].m] # "none"
        PROVE  remote'[outbox[r].m] = t.flags[outbox[r].m]
    BY <1>1, <2>1, HeldRows, AppliedIs DEF RowsInv, Made
  <2>2. ASSUME NEW e \in Drainers \ {d}, NEW r \in drain[e].rows, drain[e].pc = "remove",
               outbox[r].op = "message_privacy", outbox[r].m \notin raced,
               Present(outbox[r].m), remote'[outbox[r].m] # "none"
        PROVE  remote'[outbox[r].m] = drain[e].flags[outbox[r].m]
    <3>1. outbox[r].m \in Messages
      BY <1>1, <2>2, HeldRows DEF RowsInv, Made
    <3>2. CASE t.flags[outbox[r].m] # "none"
      <4>1. PICK k \in t.rows : /\ outbox[k].m = outbox[r].m
                                /\ outbox[k].op \in {"message", "message_privacy"}
        BY <1>1, <3>1, <3>2 DEF RowsInv, FlagsOfRows
      <4>. QED
        BY <1>1, <2>2, <3>1, <4>1, RaceOf
    <3>3. CASE t.flags[outbox[r].m] = "none"
      <4>1. remote'[outbox[r].m] = remote[outbox[r].m]
        BY <1>5, <2>2, <3>1, <3>3
      <4>. QED
        BY <1>1, <2>2, <4>1 DEF SentInv, FlagDone
    <3>. QED
      BY <3>2, <3>3
  <2>. QED
    BY <1>2, <1>6, <2>1, <2>2 DEF FlagDone, Present
<1>. QED
  BY <1>6, <1>7, <1>8, <1>9, <1>10, <1>11, <1>12, <1>13 DEF OutboxInv, SentInv

LEMMA SendKeeps ==
  ASSUME OutboxInv, NEW d \in Drainers, Send(d) \/ SendFails(d)
  PROVE  OutboxInv'
<1>1. TypeOK
  BY DEF OutboxInv
<1>2. CASE Send(d)
  BY <1>1, <1>2, RequestEnds DEF Send, TypeOK
<1>3. CASE SendFails(d)
  <2>1. faults' \in 0..MaxFaults
    BY <1>1, <1>3, FaultType DEF SendFails
  <2>. QED
    BY <1>3, <2>1, RequestEnds DEF SendFails
<1>. QED
  BY <1>2, <1>3

LEMMA RemoveFrame ==
  ASSUME OutboxInv, NEW d \in Drainers, Remove(d)
  PROVE  DrainFrame
<1>. DEFINE t == drain[d]
<1>1. /\ TypeOK /\ RowsInv /\ SentInv /\ t.pc = "remove" /\ t \in DrainRecords
      /\ UNCHANGED <<chat, messages, lastId, user, remote, unqueued, raced, faults>>
      /\ drain' = [drain EXCEPT ![d] = After(t)]
      /\ outbox' = [r \in RowIds |-> IF r \in t.rows THEN Gone(outbox[r]) ELSE outbox[r]]
  BY DEF OutboxInv, Remove, Sent, TypeOK
<1>2. \A r \in RowIds : outbox[r] \in OutboxRows
  BY <1>1 DEF TypeOK
<1>3. ASSUME NEW r \in RowIds
      PROVE  /\ outbox'[r] \in OutboxRows
             /\ outbox'[r].attempts = MaxAttempts => outbox'[r].state = "parked"
             /\ Live(r)' => Live(r)
             /\ outbox'[r].op = outbox[r].op /\ outbox'[r].m = outbox[r].m
  <2>1. CASE r \in t.rows
    <3>1. outbox'[r] = Gone(outbox[r])
      BY <1>1, <2>1
    <3>2. 0 \in 0..MaxAttempts /\ 0 # MaxAttempts
      BY BoundsAssumption
    <3>3. /\ outbox'[r].attempts = 0 /\ outbox'[r].state = "gone"
          /\ outbox'[r].op = outbox[r].op /\ outbox'[r].m = outbox[r].m
      BY <1>2, <3>1 DEF OutboxRows, Gone
    <3>4. outbox'[r] \in OutboxRows
      BY <1>2, <3>1, <3>2 DEF OutboxRows, Gone
    <3>. QED
      BY <3>2, <3>3, <3>4 DEF Live
  <2>2. CASE r \notin t.rows
    <3>1. outbox'[r] = outbox[r]
      BY <1>1, <2>2
    <3>. QED
      BY <1>1, <1>2, <3>1 DEF TypeOK, Live
  <2>. QED
    BY <2>1, <2>2
<1>. QED
  BY <1>1, <1>3 DEF DrainFrame, TypeOK

LEMMA RemoveKeeps ==
  ASSUME OutboxInv, NEW d \in Drainers, Remove(d)
  PROVE  OutboxInv'
<1>. DEFINE t == drain[d]
<1>1. /\ TypeOK /\ RowsInv /\ SentInv /\ t.pc = "remove" /\ t \in DrainRecords
      /\ UNCHANGED <<chat, messages, lastId, user, remote, unqueued, raced, faults>>
      /\ drain' = [drain EXCEPT ![d] = After(t)]
      /\ outbox' = [r \in RowIds |-> IF r \in t.rows THEN Gone(outbox[r]) ELSE outbox[r]]
  BY DEF OutboxInv, Remove, Sent, TypeOK
<1>2. \A r \in RowIds \ t.rows : outbox'[r] = outbox[r]
  BY <1>1
<1>3. DrainFrame
  BY RemoveFrame
<1>4. \A r \in t.others : /\ outbox[r].op # "message" /\ outbox'[r].op = outbox[r].op
                          /\ Made(r)'
  BY <1>1, <1>3, HeldRows DEF RowsInv, OneRequest, DrainFrame, Made
<1>5. DeletionQueued'
  <2>1. ASSUME NEW m \in Messages, chat = "present", messages[m] = "deleted",
               remote[m] # "none", m \notin unqueued \cup raced, m \notin user.truncated
        PROVE  Queued("delete_message", m)'
    <3>1. PICK r \in RowIds : Live(r) /\ outbox[r].op = "delete_message" /\ outbox[r].m = m
      BY <1>1, <2>1 DEF SentInv, DeletionQueued, Queued
    <3>2. r \notin t.rows
      BY <1>1, <2>1, <3>1 DEF SentInv, DeletionDone
    <3>. QED
      BY <1>2, <3>1, <3>2 DEF Queued, Live
  <2>. QED
    BY <1>1, <2>1 DEF DeletionQueued
<1>6. PrivacyQueued'
  <2>1. ASSUME NEW m \in Messages, Present(m), remote[m] \in Kept, remote[m] # messages[m],
               m \notin unqueued \cup raced, m \notin user.flagged
        PROVE  Queued("message_privacy", m)'
    <3>1. PICK r \in RowIds : Live(r) /\ outbox[r].op = "message_privacy" /\ outbox[r].m = m
      BY <1>1, <2>1 DEF SentInv, PrivacyQueued, Queued
    <3>2. CASE r \notin t.rows
      BY <1>2, <3>1, <3>2 DEF Queued, Live
    <3>3. CASE r \in t.rows
      <4>1. t.flags[m] = remote[m]
        BY <1>1, <2>1, <3>1, <3>3 DEF SentInv, FlagDone, Kept
      <4>2. Corrected(m, t.rows)
        BY <1>1, <2>1, <4>1 DEF SentInv, FlagFollows, Kept
      <4>. QED
        BY <1>2, <4>2 DEF Corrected, Queued, Live
    <3>. QED
      BY <3>2, <3>3
  <2>. QED
    BY <1>1, <2>1 DEF PrivacyQueued, Present
<1>7. /\ RequestOf(After(t)) /\ After(t).flags = Nothing
      /\ After(t).pc \in {"idle", "read", "send"}
      /\ After(t).rows \cup After(t).others \subseteq t.others
  BY <1>1, <1>4, AfterRequest
<1>8. RaceKnown'
  BY <1>1, <1>3, <1>7, RacesStay DEF Holds
<1>9. ASSUME NEW e \in Drainers \ {d}, NEW m \in Messages \ raced, drain[e].flags[m] # "none"
      PROVE  /\ (\A r \in drain[e].rows : outbox[r].op = "message")
                /\ Queued("delete_message", m) => Queued("delete_message", m)'
             /\ Corrected(m, drain[e].rows) => Corrected(m, drain[e].rows)'
  <2>1. PICK k \in drain[e].rows :
          outbox[k].m = m /\ outbox[k].op \in {"message", "message_privacy"}
    BY <1>1, <1>9 DEF RowsInv, FlagsOfRows
  <2>2. \A r \in t.rows : outbox[r].m = m => outbox[r].op # "message_privacy"
    BY <1>1, <1>9, <2>1, RaceOf
  <2>3. (\A r \in drain[e].rows : outbox[r].op = "message") =>
          \A r \in t.rows : outbox[r].m = m => outbox[r].op # "delete_message"
    BY <1>1, <1>9, <2>1, RaceOf
  <2>4. drain'[e] = drain[e]
    BY <1>1 DEF TypeOK
  <2>5. (\A r \in drain[e].rows : outbox[r].op = "message")
          /\ Queued("delete_message", m) => Queued("delete_message", m)'
    BY <1>2, <2>3 DEF Queued, Live
  <2>6. Corrected(m, drain[e].rows) => Corrected(m, drain[e].rows)'
    BY <1>2, <2>2, <2>4 DEF Corrected, Live
  <2>. QED
    BY <2>5, <2>6
<1>. HIDE DEF t
<1>. QED
  BY <1>1, <1>3, <1>5, <1>6, <1>7, <1>8, <1>9, FreshRequest

LEMMA FailFrame ==
  ASSUME OutboxInv, NEW d \in Drainers, Fail(d)
  PROVE  DrainFrame /\ \A r \in RowIds : Live(r)' <=> Live(r)
<1>. DEFINE t == drain[d]
<1>1. /\ TypeOK /\ RowsInv /\ SentInv /\ t.pc = "fail" /\ t \in DrainRecords
      /\ UNCHANGED <<chat, messages, lastId, user, remote, unqueued, raced, faults>>
      /\ drain' = [drain EXCEPT ![d] = After(t)]
  BY DEF OutboxInv, Fail, TypeOK
<1>2. PICK rejected \in BOOLEAN :
        outbox' = [r \in RowIds |-> IF r \in t.rows /\ Live(r)
                                    THEN Failed(outbox[r], t.attempts[r] + 1, rejected)
                                    ELSE outbox[r]]
  BY DEF Fail
<1>3. \A r \in RowIds : outbox[r] \in OutboxRows
  BY <1>1 DEF TypeOK
<1>4. ASSUME NEW r \in RowIds
      PROVE  /\ outbox'[r] \in OutboxRows
             /\ outbox'[r].attempts = MaxAttempts => outbox'[r].state = "parked"
             /\ Live(r)' <=> Live(r)
             /\ outbox'[r].op = outbox[r].op /\ outbox'[r].m = outbox[r].m
  <2>1. CASE r \in t.rows /\ Live(r)
    <3>1. outbox'[r] = Failed(outbox[r], t.attempts[r] + 1, rejected)
      BY <1>2, <2>1
    <3>2. t.attempts[r] \in 0..(MaxAttempts - 1)
      BY <1>1 DEF DrainRecords
    <3>3. t.attempts[r] + 1 \in 0..MaxAttempts
      BY <3>2, BoundsAssumption
    <3>4. t.attempts[r] + 1 = MaxAttempts => Parks(t.attempts[r] + 1)
      BY <3>3, BoundsAssumption DEF Parks
    <3>. QED
      BY <1>3, <2>1, <3>1, <3>3, <3>4 DEF OutboxRows, Live, Failed
  <2>2. CASE ~(r \in t.rows /\ Live(r))
    <3>1. outbox'[r] = outbox[r]
      BY <1>2, <2>2
    <3>. QED
      BY <1>1, <1>3, <3>1 DEF TypeOK, Live
  <2>. QED
    BY <2>1, <2>2
<1>5. outbox' \in [RowIds -> OutboxRows]
  BY <1>2, <1>4
<1>6. DrainFrame
  BY <1>1, <1>4, <1>5 DEF DrainFrame, TypeOK
<1>. QED
  BY <1>4, <1>6

LEMMA FailKeeps ==
  ASSUME OutboxInv, NEW d \in Drainers, Fail(d)
  PROVE  OutboxInv'
<1>. DEFINE t == drain[d]
<1>1. /\ TypeOK /\ RowsInv /\ t \in DrainRecords /\ UNCHANGED remote
      /\ drain' = [drain EXCEPT ![d] = After(t)]
  BY DEF OutboxInv, Fail, TypeOK
<1>2. DrainFrame /\ \A r \in RowIds : Live(r)' <=> Live(r)
  BY FailFrame
<1>3. \A r \in t.others : /\ outbox[r].op # "message" /\ outbox'[r].op = outbox[r].op
                          /\ Made(r)'
  BY <1>1, <1>2, HeldRows DEF RowsInv, OneRequest, DrainFrame, Made
<1>4. /\ RequestOf(After(t)) /\ After(t).flags = Nothing
      /\ After(t).pc \in {"idle", "read", "send"}
      /\ After(t).rows \cup After(t).others \subseteq t.others
  BY <1>1, <1>3, AfterRequest
<1>5. RaceKnown'
  BY <1>1, <1>2, <1>4, RacesStay DEF Holds
<1>. HIDE DEF t
<1>. QED
  BY <1>1, <1>2, <1>4, <1>5, FreshRequestKeeps

LEMMA QueryFailsKeeps ==
  ASSUME OutboxInv, NEW d \in Drainers, QueryFails(d)
  PROVE  OutboxInv'
<1>. DEFINE t == drain[d]
            failed == [t EXCEPT !.pc = "fail"]
<1>1. /\ TypeOK /\ RowsInv /\ SentInv /\ t \in DrainRecords /\ t.pc \in {"read", "remove", "fail"}
      /\ UNCHANGED <<chat, messages, outbox, lastId, user, remote, unqueued, raced>>
      /\ \/ drain' = [drain EXCEPT ![d] = failed]
         \/ drain' = [drain EXCEPT ![d] = NoDrain]
  BY DEF OutboxInv, QueryFails, TypeOK
<1>2. DrainFrame /\ \A r \in RowIds : Live(r)' <=> Live(r)
  BY <1>1, FaultType, SameTable DEF QueryFails
<1>3. CASE drain' = [drain EXCEPT ![d] = NoDrain]
  <2>1. RequestOf(NoDrain) /\ NoDrain.flags = Nothing /\ NoDrain.pc = "idle"
        /\ NoDrain.rows \cup NoDrain.others = {}
    BY BoundsAssumption DEF RequestOf, NoDrain, Nothing, DrainRecords
  <2>2. RaceKnown'
    BY <1>1, <1>2, <1>3, <2>1, RacesStay
  <2>. QED
    BY <1>1, <1>2, <1>3, <2>1, <2>2, FreshRequestKeeps
<1>4. CASE drain' = [drain EXCEPT ![d] = failed]
  <2>1. /\ failed \in DrainRecords /\ failed.rows = t.rows /\ failed.others = t.others
        /\ failed.flags = t.flags /\ failed.pc = "fail"
    BY <1>1 DEF DrainRecords
  <2>. HIDE DEF failed
  <2>2. \A r \in failed.rows \cup failed.others : Made(r)'
    BY <1>1, <2>1, HeldRows DEF RowsInv, Made
  <2>3. RequestOf(failed)
    BY <1>1, <2>1, <2>2 DEF RequestOf, RowsInv, OneRequest, FlagsOfRows
  <2>4. RaceKnown'
    BY <1>1, <1>2, <1>4, <2>1, RacesStay DEF Holds
  <2>5. /\ TypeOK' /\ RowsInv' /\ GoneWithChat'
        /\ drain'[d] = failed /\ \A e \in Drainers \ {d} : drain'[e] = drain[e]
    BY <1>1, <1>2, <1>4, <2>3, <2>4, DrainRows DEF TypeOK
  <2>6. NewUnknown' /\ DeletionQueued' /\ PrivacyQueued'
    BY <1>1, <2>1, <2>5 DEF SentInv, NewUnknown, DeletionQueued, PrivacyQueued, Queued, Live, Present
  <2>7. DeletionFollows'
    <3>1. \A m \in Messages : Ingesting(m)' => Ingesting(m)
      BY <1>1, <2>1, <2>5 DEF Ingesting
    <3>. QED
      BY <1>1, <3>1 DEF SentInv, DeletionFollows, Queued, Live
  <2>8. FlagFollows'
    <3>1. \A m, rows : Corrected(m, rows) => Corrected(m, rows)'
      BY <1>1 DEF Corrected, Live
    <3>. QED
      BY <1>1, <2>1, <2>5, <3>1 DEF SentInv, FlagFollows, Present
  <2>9. DeletionDone' /\ FlagDone'
    BY <1>1, <2>1, <2>5 DEF SentInv, DeletionDone, FlagDone, Present
  <2>. QED
    BY <2>5, <2>6, <2>7, <2>8, <2>9 DEF OutboxInv, SentInv
<1>. QED
  BY <1>1, <1>3, <1>4

LEMMA DueKeeps ==
  ASSUME OutboxInv, NEW r \in RowIds, Due(r)
  PROVE  OutboxInv'
<1>1. /\ TypeOK /\ RowsInv /\ SentInv /\ outbox[r].state = "later"
      /\ UNCHANGED <<chat, messages, lastId, user, drain, remote, unqueued, raced, faults>>
      /\ outbox' = [outbox EXCEPT ![r].state = "due"]
  BY DEF OutboxInv, Due
<1>2. ASSUME NEW k \in RowIds
      PROVE  /\ outbox'[k] \in OutboxRows
             /\ outbox'[k].attempts = MaxAttempts => outbox'[k].state = "parked"
             /\ Live(k)' <=> Live(k)
             /\ outbox'[k].op = outbox[k].op /\ outbox'[k].m = outbox[k].m
  BY <1>1 DEF TypeOK, OutboxRows, Live
<1>3. TypeOK'
  BY <1>1, <1>2 DEF TypeOK
<1>4. \A d \in Drainers : /\ \A k \in Holds(d) : k \in RowIds
                          /\ \A k \in drain[d].rows : k \in RowIds
                          /\ \A k \in drain[d].others : k \in RowIds
  BY <1>1, HeldRows DEF RowsInv
<1>5. RowsInv'
  <2>1. RoomLeft' /\ OneTruncation' /\ FreshIds' /\ RowsKnown'
    BY <1>1, <1>2 DEF RowsInv, RoomLeft, OneTruncation, FreshIds, RowsKnown, Made
  <2>2. \A d \in Drainers : Holds(d)' = Holds(d)
    BY <1>1 DEF Holds
  <2>3. RowsHeld' /\ RaceKnown'
    BY <1>1, <1>2, <1>4, <2>2 DEF RowsInv, RowsHeld, RaceKnown, Made
  <2>4. OneRequest' /\ FlagsOfRows'
    BY <1>1, <1>2, <1>4 DEF RowsInv, OneRequest, FlagsOfRows
  <2>. QED
    BY <2>1, <2>3, <2>4 DEF RowsInv
<1>6. /\ \A op, m : Queued(op, m)' <=> Queued(op, m)
      /\ \A m, rows : Corrected(m, rows)' <=> Corrected(m, rows)
  BY <1>2 DEF Queued, Corrected
<1>7. NewUnknown' /\ GoneWithChat' /\ DeletionQueued' /\ PrivacyQueued'
  BY <1>1, <1>6 DEF SentInv, NewUnknown, GoneWithChat, DeletionQueued, PrivacyQueued, Present
<1>8. DeletionFollows'
  BY <1>1, <1>2, <1>4, <1>6 DEF SentInv, DeletionFollows, Ingesting
<1>9. FlagFollows'
  BY <1>1, <1>2 DEF SentInv, FlagFollows, Corrected, Present
<1>10. DeletionDone' /\ FlagDone'
  BY <1>1, <1>2, <1>4 DEF SentInv, DeletionDone, FlagDone, Present
<1>. QED
  BY <1>3, <1>5, <1>7, <1>8, <1>9, <1>10 DEF OutboxInv, SentInv

-----------------------------------------------------------------------------
(* The theorems *)

LEMMA InitOutboxInv ==
  ASSUME Init
  PROVE  OutboxInv
<1>1. TypeOK
  BY BoundsAssumption DEF Init, TypeOK, NoRow, OutboxRows, Ops, NoDrain, DrainRecords, Nothing,
    Kept, NoRequest, Requests
<1>2. RowsInv
  <2>1. RoomLeft /\ OneTruncation
    BY MessageSets, BoundsAssumption DEF Init, RoomLeft, OneTruncation, NoRequest
  <2>2. FreshIds /\ RowsKnown
    BY BoundsAssumption DEF Init, FreshIds, RowsKnown, Live, Made, NoRow, Messages
  <2>3. RowsHeld /\ OneRequest /\ FlagsOfRows /\ RaceKnown
    BY DEF Init, RowsHeld, OneRequest, FlagsOfRows, RaceKnown, Holds, NoDrain, Nothing
  <2>. QED
    BY <2>1, <2>2, <2>3 DEF RowsInv
<1>3. NewUnknown /\ GoneWithChat /\ DeletionQueued /\ PrivacyQueued
  BY DEF Init, NewUnknown, NoDrain, Nothing, GoneWithChat, DeletionQueued, PrivacyQueued, Present, Kept
<1>4. DeletionFollows /\ DeletionDone /\ FlagFollows /\ FlagDone
  BY DEF Init, DeletionFollows, Ingesting, DeletionDone, FlagFollows, FlagDone, NoDrain
<1>. QED
  BY <1>1, <1>2, <1>3, <1>4 DEF OutboxInv, SentInv

LEMMA StepKeepsOutboxInv ==
  ASSUME OutboxInv, [Next]_vars
  PROVE  OutboxInv'
<1>1. CASE Next
  <2>1. ASSUME NEW m \in Messages, NEW flag \in Kept, Save(m, flag) \/ WriteFlag(m, flag)
        PROVE  OutboxInv'
    BY <2>1, SaveKeeps, WriteFlagKeeps
  <2>2. ASSUME NEW m \in Messages, TruncateFind(m) \/ SetPrivate(m) \/ QueuePrivacy(m)
        PROVE  OutboxInv'
    BY <2>2, TruncateFindKeeps, SetPrivateKeeps, QueuePrivacyKeeps
  <2>3. CASE TruncateFrom \/ QueueDeletes \/ QueueConversationDelete \/ RemoveChat \/ Crash
    BY <2>3, TruncateFromKeeps, QueueDeletesKeeps, QueueConversationDeleteKeeps, RemoveChatKeeps,
       CrashKeeps
  <2>4. ASSUME NEW d \in Drainers, DrainStep(d)
        PROVE  OutboxInv'
    BY <2>4, SelectKeeps, ReadKeeps, SendKeeps, RemoveKeeps, FailKeeps, QueryFailsKeeps
       DEF DrainStep
  <2>5. ASSUME NEW r \in RowIds, Due(r)
        PROVE  OutboxInv'
    BY <2>5, DueKeeps
  <2>. QED
    BY <1>1, <2>1, <2>2, <2>3, <2>4, <2>5 DEF Next
<1>2. CASE UNCHANGED vars
  <2>1. TypeOK' /\ RowsInv'
    BY <1>2 DEF vars, OutboxInv, TypeOK, RowsInv, RoomLeft, OneTruncation, FreshIds, RowsKnown,
      Live, Made, RowsHeld, Holds, OneRequest, FlagsOfRows, RaceKnown
  <2>2. SentInv'
    BY <1>2 DEF vars, OutboxInv, SentInv, NewUnknown, GoneWithChat, Present, DeletionQueued,
      DeletionFollows, Ingesting, Queued, Live, DeletionDone, PrivacyQueued, FlagFollows, Corrected,
      FlagDone
  <2>. QED
    BY <2>1, <2>2 DEF OutboxInv
<1>. QED
  BY <1>1, <1>2

\* The inductive invariant holds, whatever fails, wherever the backend stops and however
\* many drains are in progress.
THEOREM OutboxInvariant == Spec => []OutboxInv
<1>1. Init => OutboxInv
  BY InitOutboxInv
<1>2. OutboxInv /\ [Next]_vars => OutboxInv'
  BY StepKeepsOutboxInv
<1>. QED
  BY <1>1, <1>2, PTL DEF Spec

\* The state keeps its types, and a row that used up its attempts is parked and never sent
\* again, for any number of messages, rows, attempts, faults and drains, although a drain
\* counts from the attempts it saw when it selected the row.
THEOREM OutboxTypeCorrect == Spec => []TypeOK
<1>1. OutboxInv => TypeOK
  BY DEF OutboxInv
<1>. QED
  BY <1>1, OutboxInvariant, PTL

\* What the user rewound is never forgotten by the table while Recordare has it, however
\* many drains there are, unless one had its ingest while another had its deletion.
THEOREM DeletionsNotLost == Spec => []DeletionQueued
<1>1. OutboxInv => DeletionQueued
  BY DEF OutboxInv, SentInv
<1>. QED
  BY <1>1, OutboxInvariant, PTL

\* A flag that Recordare has wrong is always about to be corrected, however many drains
\* there are, unless two of them had rows that send it.
THEOREM PrivacyNotLost == Spec => []PrivacyQueued
<1>1. OutboxInv => PrivacyQueued
  BY DEF OutboxInv, SentInv
<1>. QED
  BY <1>1, OutboxInvariant, PTL

-----------------------------------------------------------------------------
(* Ingests *)

\* A chat whose deletion is or was in the table is going, or the removal was cut short.
ChatGoing == \A r \in RowIds :
  chat = "present" /\ outbox[r].op = "delete_conversation" => unqueued = Messages

\* Only what was rewound is deleted, and nothing is said of what was never saved.
RowsMeant == \A r \in RowIds : outbox[r].m \in Messages =>
  /\ outbox[r].op \in {"message", "message_privacy"} => messages[outbox[r].m] # "new"
  /\ outbox[r].op = "delete_message" => messages[outbox[r].m] = "deleted"

\* Nor of it is anything about to be said.
ChangesMeant ==
  /\ \A m \in user.truncated : messages[m] = "deleted"
  /\ \A m \in user.found \cup user.setting \cup user.flagged : messages[m] # "new"

\* A request speaks of all its messages that are still there, and once it is answered
\* Recordare has those that were to be ingested.
IngestSent == \A d \in Drainers : \A r \in drain[d].rows :
  outbox[r].m \in Messages /\ Present(outbox[r].m) =>
    /\ drain[d].pc = "send" /\ outbox[r].op \in {"message", "message_privacy"}
         => drain[d].flags[outbox[r].m] # "none"
    /\ (/\ drain[d].pc = "remove" /\ outbox[r].op = "message"
        /\ chat = "present" /\ outbox[r].m \notin unqueued)
         => remote[outbox[r].m] # "none"

IngestInv == ChatGoing /\ RowsMeant /\ ChangesMeant /\ IngestSent /\ IngestQueued

\* A message of the chat was one before the step, or its ingest is enqueued by it.
IngestOwed == \A m \in Messages :
  messages'[m] \in Kept /\ m \notin unqueued' => Present(m) \/ Added("message", m)

\* A row of the operation may speak of m, as the step leaves it.
Means(op, m) ==
  /\ op \in {"message", "message_privacy"} => messages'[m] # "new"
  /\ op = "delete_message" => messages'[m] = "deleted"
  /\ op = "delete_conversation" => chat' # "present"

\* What the users' steps have in common, as far as ingests go.
UserFrame ==
  /\ \A m \in Messages : messages[m] = "deleted" => messages'[m] = "deleted"
  /\ unqueued \subseteq unqueued' /\ unqueued' \in SUBSET Messages
  /\ chat' = "present" => chat = "present"

LEMMA UserStepIngest ==
  ASSUME OutboxInv, IngestInv, NEW op, NEW targets, UserStep(op, targets),
         \A m \in targets : Means(op, m), UserFrame, ChangesMeant', IngestOwed
  PROVE  IngestInv'
<1>1. TypeOK /\ FreshIds /\ RowsHeld /\ RowsKnown
  BY DEF OutboxInv, RowsInv
<1>2. /\ Grown(op, targets) /\ UNCHANGED <<drain, remote>>
      /\ \A m \in Messages : /\ messages'[m] \in Kept => Present(m) \/ messages[m] = "new"
                             /\ messages'[m] = "new" => messages[m] = "new"
                             /\ messages[m] = "deleted" => messages'[m] = "deleted"
  BY DEF UserStep, UserFrame, Present
<1>3. ASSUME NEW r \in RowIds
      PROVE  \/ outbox'[r] = outbox[r]
             \/ \E m \in targets : outbox'[r].op = op /\ outbox'[r].m = m
  <2>1. CASE outbox'[r] = outbox[r]
    BY <2>1
  <2>2. CASE \E m \in targets : outbox'[r] = NewRow(op, m)
    BY <2>2 DEF NewRow
  <2>. QED
    BY <1>2, <2>1, <2>2 DEF Grown
<1>4. ChatGoing'
  <2>1. ASSUME NEW r \in RowIds, chat' = "present", outbox'[r].op = "delete_conversation"
        PROVE  unqueued' = Messages
    <3>1. CASE outbox'[r] = outbox[r]
      BY <2>1, <3>1 DEF IngestInv, ChatGoing, UserFrame
    <3>2. CASE \E m \in targets : outbox'[r].op = op /\ outbox'[r].m = m
      BY <2>1, <3>2 DEF Means
    <3>. QED
      BY <1>3, <3>1, <3>2
  <2>. QED
    BY <2>1 DEF ChatGoing
<1>5. RowsMeant'
  <2>1. ASSUME NEW r \in RowIds, outbox'[r].m \in Messages
        PROVE  /\ outbox'[r].op \in {"message", "message_privacy"} => messages'[outbox'[r].m] # "new"
               /\ outbox'[r].op = "delete_message" => messages'[outbox'[r].m] = "deleted"
    <3>1. CASE outbox'[r] = outbox[r]
      BY <1>2, <2>1, <3>1 DEF IngestInv, RowsMeant
    <3>2. CASE \E m \in targets : outbox'[r].op = op /\ outbox'[r].m = m
      BY <3>2 DEF Means
    <3>. QED
      BY <1>3, <3>1, <3>2
  <2>. QED
    BY <2>1 DEF RowsMeant
<1>6. IngestSent'
  <2>1. \A d \in Drainers : \A r \in drain[d].rows : r \in RowIds /\ outbox'[r] = outbox[r]
    BY <1>1, <1>2, HeldRows, MadeStays
  <2>2. ASSUME NEW d \in Drainers, NEW r \in drain[d].rows, outbox[r].m \in Messages,
               messages'[outbox[r].m] \in Kept, outbox[r].op \in {"message", "message_privacy"}
        PROVE  Present(outbox[r].m)
    BY <1>2, <2>1, <2>2 DEF IngestInv, RowsMeant
  <2>. QED
    BY <1>2, <2>1, <2>2 DEF IngestInv, IngestSent, Present, UserFrame
<1>7. IngestQueued'
  <2>1. ASSUME NEW m \in Messages, chat' = "present", messages'[m] \in Kept,
               remote[m] = "none", m \notin unqueued'
        PROVE  Queued("message", m)'
    <3>1. CASE Added("message", m)
      BY <3>1 DEF Added, Queued, Live, NewRow
    <3>2. CASE Present(m)
      <4>1. Queued("message", m)
        BY <2>1, <3>2 DEF IngestInv, IngestQueued, UserFrame
      <4>. QED
        BY <1>1, <1>2, <4>1, QueuedStays
    <3>. QED
      BY <2>1, <3>1, <3>2 DEF IngestOwed
  <2>. QED
    BY <1>2, <2>1 DEF IngestQueued, Present
<1>. QED
  BY <1>4, <1>5, <1>6, <1>7 DEF IngestInv

LEMMA SaveIngest ==
  ASSUME OutboxInv, IngestInv, NEW m \in Messages, NEW flag \in Kept, Save(m, flag)
  PROVE  IngestInv'
<1>1. /\ TypeOK /\ messages[m] = "new" /\ chat # "deleted"
      /\ messages' = [messages EXCEPT ![m] = flag]
      /\ UNCHANGED <<chat, user, drain, remote, raced>>
  BY DEF OutboxInv, Save
<1>2. Cardinality({m}) = 1 /\ IsFiniteSet({m}) /\ {m} \in SUBSET (0..MaxMessages)
  BY MessageSets, BoundsAssumption DEF Messages
<1>3. lastId + 1 <= MaxRows
  BY <1>1, Sizes, BoundsAssumption DEF Save, Room
<1>4. /\ Grown("message", {m})
      /\ m \in unqueued' \/ Added("message", m)
      /\ unqueued \subseteq unqueued' /\ unqueued' \in SUBSET Messages
  <2>1. CASE Enqueue("message", {m}) /\ UNCHANGED unqueued
    BY <1>1, <1>2, <1>3, <2>1, EnqueueGrows DEF Ops, Added, TypeOK
  <2>2. CASE UNCHANGED <<outbox, lastId>> /\ unqueued' = unqueued \cup {m}
    BY <1>1, <2>2, NothingGrows DEF TypeOK
  <2>. QED
    BY <2>1, <2>2 DEF Save
<1>5. UserStep("message", {m})
  BY <1>1, <1>4 DEF UserStep, Present, TypeOK, Kept
<1>6. UserFrame /\ Means("message", m)
  BY <1>1, <1>4 DEF UserFrame, Means, TypeOK, Kept
<1>7. ChangesMeant'
  BY <1>1, Sizes DEF IngestInv, ChangesMeant, TypeOK, Kept
<1>8. IngestOwed
  BY <1>1, <1>4 DEF IngestOwed, TypeOK, Present
<1>. QED
  BY <1>5, <1>6, <1>7, <1>8, UserStepIngest

\* A step that enqueues nothing and saves no message.
LEMMA UserChangeIngest ==
  ASSUME OutboxInv, IngestInv, UNCHANGED <<chat, outbox, lastId, drain, remote, unqueued, raced>>,
         \A m \in Messages : \/ messages'[m] = messages[m]
                             \/ messages'[m] = "deleted"
                             \/ Present(m) /\ messages'[m] \in Kept,
         ChangesMeant'
  PROVE  IngestInv'
<1>1. TypeOK
  BY DEF OutboxInv
<1>2. UserStep("message", {})
  BY <1>1, NothingGrows DEF UserStep, Present, Kept
<1>3. UserFrame
  BY <1>1 DEF UserFrame, TypeOK, Present, Kept
<1>4. IngestOwed
  BY DEF IngestOwed, Present, Kept
<1>. QED
  BY <1>2, <1>3, <1>4, UserStepIngest

LEMMA TruncateIngest ==
  ASSUME OutboxInv, IngestInv, TruncateFrom \/ \E m \in Messages : TruncateFind(m)
  PROVE  IngestInv'
<1>1. TypeOK /\ ChangesMeant /\ UNCHANGED <<chat, outbox, lastId, drain, remote, unqueued, raced>>
  BY DEF OutboxInv, IngestInv, TruncateFrom, TruncateFind
<1>2. CASE TruncateFrom
  <2>1. /\ messages' = [k \in Messages |-> IF k \in user.found THEN "deleted" ELSE messages[k]]
        /\ user'.found = {} /\ user'.truncated = user.found
        /\ user'.setting = user.setting /\ user'.flagged = user.flagged
    BY <1>1, <1>2 DEF TruncateFrom, TypeOK, Requests
  <2>2. ChangesMeant'
    BY <1>1, <2>1, Sizes DEF ChangesMeant
  <2>. QED
    BY <1>1, <2>1, <2>2, UserChangeIngest
<1>3. ASSUME NEW m \in Messages, TruncateFind(m)
      PROVE  IngestInv'
  <2>. DEFINE toDelete == {k \in m..MaxMessages : Present(k)}
  <2>1. UNCHANGED messages /\ user' = [user EXCEPT !.found = toDelete]
    BY <1>3 DEF TruncateFind
  <2>2. \A k \in toDelete : messages[k] # "new"
    BY DEF Present, Kept
  <2>. HIDE DEF toDelete
  <2>3. /\ user'.found = toDelete /\ user'.truncated = user.truncated
        /\ user'.setting = user.setting /\ user'.flagged = user.flagged
    BY <1>1, <2>1 DEF TypeOK, Requests
  <2>4. ChangesMeant'
    BY <1>1, <2>1, <2>2, <2>3 DEF ChangesMeant
  <2>. QED
    BY <1>1, <2>1, <2>4, UserChangeIngest
<1>. QED
  BY <1>2, <1>3

LEMMA QueueDeletesIngest ==
  ASSUME OutboxInv, IngestInv, QueueDeletes
  PROVE  IngestInv'
<1>. DEFINE truncated == user.truncated
<1>1. /\ TypeOK /\ RowsInv /\ UNCHANGED <<chat, messages, drain, remote, raced>>
      /\ user' = [user EXCEPT !.truncated = {}]
  BY DEF OutboxInv, QueueDeletes
<1>2. truncated \in SUBSET Messages /\ truncated \in SUBSET (0..MaxMessages) /\ IsFiniteSet(truncated)
  BY <1>1, Sizes, MessageSets, BoundsAssumption DEF Messages
<1>3. lastId + Cardinality(truncated) <= MaxRows
  BY <1>1, Sizes, BoundsAssumption DEF RowsInv, RoomLeft
<1>4. /\ Grown("delete_message", truncated)
      /\ unqueued \subseteq unqueued' /\ unqueued' \in SUBSET Messages
  <2>1. CASE Enqueue("delete_message", truncated) /\ UNCHANGED unqueued
    BY <1>1, <1>2, <1>3, <2>1, EnqueueGrows DEF Ops, TypeOK
  <2>2. CASE unqueued' = unqueued \cup truncated /\ UNCHANGED <<outbox, lastId>>
    BY <1>1, <1>2, <2>2, NothingGrows DEF TypeOK
  <2>. QED
    BY <2>1, <2>2 DEF QueueDeletes
<1>5. UserStep("delete_message", truncated)
  BY <1>1, <1>2, <1>4 DEF UserStep, Present
<1>6. UserFrame /\ \A m \in truncated : Means("delete_message", m)
  BY <1>1, <1>4 DEF UserFrame, Means, IngestInv, ChangesMeant
<1>7. ChangesMeant'
  BY <1>1 DEF IngestInv, ChangesMeant, TypeOK, Requests
<1>8. IngestOwed
  BY <1>1 DEF IngestOwed, Present
<1>. QED
  BY <1>5, <1>6, <1>7, <1>8, UserStepIngest

LEMMA FlagIngest ==
  ASSUME OutboxInv, IngestInv, NEW m \in Messages,
         SetPrivate(m) \/ \E flag \in Kept : WriteFlag(m, flag)
  PROVE  IngestInv'
<1>1. TypeOK /\ ChangesMeant /\ UNCHANGED <<chat, outbox, lastId, drain, remote, unqueued, raced>>
  BY DEF OutboxInv, IngestInv, SetPrivate, WriteFlag
<1>2. CASE SetPrivate(m)
  <2>1. /\ Present(m) /\ UNCHANGED messages
        /\ user'.found = user.found /\ user'.truncated = user.truncated
        /\ user'.setting = user.setting \cup {m} /\ user'.flagged = user.flagged
    BY <1>1, <1>2 DEF SetPrivate, TypeOK, Requests
  <2>2. ChangesMeant'
    BY <1>1, <2>1 DEF ChangesMeant, Present, Kept
  <2>. QED
    BY <1>1, <2>1, <2>2, UserChangeIngest
<1>3. ASSUME NEW flag \in Kept, WriteFlag(m, flag)
      PROVE  IngestInv'
  <2>1. /\ messages' = [messages EXCEPT ![m] = IF Present(m) THEN flag ELSE @]
        /\ m \in user.setting
        /\ user'.found = user.found /\ user'.truncated = user.truncated
        /\ user'.setting = user.setting \ {m} /\ user'.flagged = user.flagged \cup {m}
    BY <1>1, <1>3 DEF WriteFlag, TypeOK, Requests
  <2>2. ASSUME NEW k \in Messages
        PROVE  messages'[k] = messages[k] \/ (Present(k) /\ messages'[k] \in Kept)
    BY <1>1, <1>3, <2>1 DEF TypeOK
  <2>3. ChangesMeant'
    BY <1>1, <2>1, <2>2, Sizes DEF ChangesMeant, Present, Kept
  <2>. QED
    BY <1>1, <2>2, <2>3, UserChangeIngest
<1>. QED
  BY <1>2, <1>3

LEMMA QueuePrivacyIngest ==
  ASSUME OutboxInv, IngestInv, NEW m \in Messages, QueuePrivacy(m)
  PROVE  IngestInv'
<1>1. /\ TypeOK /\ RowsInv /\ m \in user.flagged /\ UNCHANGED <<chat, messages, drain, remote, raced>>
      /\ user' = [user EXCEPT !.flagged = user.flagged \ {m}]
  BY DEF OutboxInv, QueuePrivacy
<1>2. IsFiniteSet({m}) /\ {m} \in SUBSET (0..MaxMessages) /\ Cardinality({m}) = 1
  BY MessageSets, BoundsAssumption DEF Messages
<1>3. lastId + 1 <= MaxRows
  <2>1. /\ Cardinality(user.flagged \ {m}) = Cardinality(user.flagged) - 1
        /\ Cardinality(user.flagged \ {m}) \in Nat
    BY <1>1, Sizes, MessageSets
  <2>. QED
    BY <1>1, <2>1, Sizes, BoundsAssumption DEF RowsInv, RoomLeft
<1>4. /\ Grown("message_privacy", {m})
      /\ unqueued \subseteq unqueued' /\ unqueued' \in SUBSET Messages
  <2>1. CASE Enqueue("message_privacy", {m}) /\ UNCHANGED unqueued
    BY <1>1, <1>2, <1>3, <2>1, EnqueueGrows DEF Ops, TypeOK
  <2>2. CASE unqueued' = unqueued \cup {m} /\ UNCHANGED <<outbox, lastId>>
    BY <1>1, <2>2, NothingGrows DEF TypeOK
  <2>. QED
    BY <2>1, <2>2 DEF QueuePrivacy
<1>5. UserStep("message_privacy", {m})
  BY <1>1, <1>4 DEF UserStep, Present
<1>6. UserFrame /\ Means("message_privacy", m)
  BY <1>1, <1>4 DEF UserFrame, Means, IngestInv, ChangesMeant
<1>7. ChangesMeant'
  BY <1>1 DEF IngestInv, ChangesMeant, TypeOK, Requests
<1>8. IngestOwed
  BY <1>1 DEF IngestOwed, Present
<1>. QED
  BY <1>5, <1>6, <1>7, <1>8, UserStepIngest

LEMMA ChatRemovalIngest ==
  ASSUME OutboxInv, IngestInv, QueueConversationDelete \/ RemoveChat
  PROVE  IngestInv'
<1>1. TypeOK /\ UNCHANGED <<user, drain, remote, raced>>
  BY DEF OutboxInv, QueueConversationDelete, RemoveChat
<1>2. CASE QueueConversationDelete
  <2>1. chat' = "removing" /\ UNCHANGED messages
    BY <1>2 DEF QueueConversationDelete
  <2>2. IsFiniteSet({0}) /\ {0} \in SUBSET (0..MaxMessages) /\ Cardinality({0}) = 1
    BY MessageSets, BoundsAssumption
  <2>3. lastId + 1 <= MaxRows
    BY <1>1, <1>2, Sizes, BoundsAssumption DEF QueueConversationDelete, Room
  <2>4. /\ Grown("delete_conversation", {0})
        /\ unqueued \subseteq unqueued' /\ unqueued' \in SUBSET Messages
    <3>1. CASE Enqueue("delete_conversation", {0}) /\ UNCHANGED unqueued
      BY <1>1, <2>2, <2>3, <3>1, EnqueueGrows DEF Ops, TypeOK
    <3>2. CASE unqueued' = Messages /\ UNCHANGED <<outbox, lastId>>
      BY <1>1, <3>2, NothingGrows DEF TypeOK
    <3>. QED
      BY <1>2, <3>1, <3>2 DEF QueueConversationDelete
  <2>5. UserStep("delete_conversation", {0})
    BY <1>1, <2>1, <2>4 DEF UserStep, Present
  <2>6. UserFrame /\ Means("delete_conversation", 0) /\ ChangesMeant' /\ IngestOwed
    BY <1>1, <2>1, <2>4 DEF UserFrame, Means, IngestInv, ChangesMeant, IngestOwed, Present
  <2>. QED
    BY <2>5, <2>6, UserStepIngest
<1>3. CASE RemoveChat
  <2>1. /\ chat' = "deleted" /\ UNCHANGED <<outbox, lastId, unqueued>>
        /\ messages' = [m \in Messages |-> IF Present(m) THEN "deleted" ELSE messages[m]]
    BY <1>3 DEF RemoveChat
  <2>2. \A m \in Messages : messages'[m] \notin Kept
    BY <2>1 DEF Present, Kept
  <2>3. UserStep("message", {})
    BY <1>1, <2>1, <2>2, NothingGrows DEF UserStep, Present
  <2>4. UserFrame /\ ChangesMeant' /\ IngestOwed
    BY <1>1, <2>1, <2>2, Sizes DEF UserFrame, TypeOK, IngestInv, ChangesMeant, IngestOwed, Present
  <2>. QED
    BY <2>3, <2>4, UserStepIngest
<1>. QED
  BY <1>2, <1>3

LEMMA CrashIngest ==
  ASSUME OutboxInv, IngestInv, Crash
  PROVE  IngestInv'
<1>1. /\ TypeOK /\ drain' = [d \in Drainers |-> NoDrain] /\ user' = NoRequest
      /\ UNCHANGED <<messages, outbox, lastId, remote>>
  BY DEF OutboxInv, Crash
<1>2. /\ unqueued \subseteq unqueued' /\ unqueued' \in SUBSET Messages
      /\ chat = "removing" => unqueued' = Messages
      /\ chat' = "present" => chat \in {"present", "removing"}
  BY <1>1, Sizes DEF Crash, TypeOK
<1>3. ChatGoing' /\ RowsMeant' /\ ChangesMeant'
  BY <1>1, <1>2 DEF IngestInv, ChatGoing, RowsMeant, ChangesMeant, NoRequest
<1>4. IngestSent'
  BY <1>1 DEF IngestSent, NoDrain
<1>5. IngestQueued'
  BY <1>1, <1>2 DEF IngestInv, IngestQueued, Queued, Live, Present
<1>. QED
  BY <1>3, <1>4, <1>5 DEF IngestInv

\* A step of a drain: what the rows mean does not change.
LEMMA DrainStepIngest ==
  ASSUME IngestInv, DrainFrame, IngestSent', IngestQueued'
  PROVE  IngestInv'
<1>1. ChatGoing' /\ RowsMeant' /\ ChangesMeant'
  BY DEF IngestInv, DrainFrame, ChatGoing, RowsMeant, ChangesMeant
<1>. QED
  BY <1>1 DEF IngestInv

\* What IngestSent says of one request, as a step of its drain leaves it.
SaysAll(t) == \A r \in t.rows :
  outbox[r].m \in Messages /\ Present(outbox[r].m) =>
    /\ t.pc = "send" /\ outbox[r].op \in {"message", "message_privacy"}
         => t.flags[outbox[r].m] # "none"
    /\ (/\ t.pc = "remove" /\ outbox[r].op = "message"
        /\ chat = "present" /\ outbox[r].m \notin unqueued)
         => remote'[outbox[r].m] # "none"

\* The requests of the other drains say what they said, and Recordare keeps what they sent.
LEMMA OthersIngest ==
  ASSUME OutboxInv, IngestInv, NEW d \in Drainers, DrainFrame,
         NEW t, drain' = [drain EXCEPT ![d] = t], t.rows \subseteq RowIds, SaysAll(t),
         \A m \in Messages :
           chat = "present" /\ Present(m) /\ m \notin unqueued /\ remote[m] # "none"
             => remote'[m] # "none"
  PROVE  IngestSent'
<1>1. TypeOK /\ RowsInv
  BY DEF OutboxInv
<1>2. drain'[d] = t /\ \A e \in Drainers \ {d} : drain'[e] = drain[e]
  BY <1>1 DEF TypeOK
<1>3. \A e \in Drainers : \A r \in drain'[e].rows :
        r \in RowIds /\ outbox'[r].op = outbox[r].op /\ outbox'[r].m = outbox[r].m
  BY <1>1, <1>2, HeldRows DEF RowsInv, DrainFrame
<1>4. \A e \in Drainers : SaysAll(drain'[e])
  <2>1. ASSUME NEW e \in Drainers \ {d}
        PROVE  SaysAll(drain[e])
    BY DEF IngestInv, IngestSent, SaysAll
  <2>. QED
    BY <1>2, <2>1
<1>. QED
  BY <1>3, <1>4 DEF IngestSent, SaysAll, DrainFrame, Present

\* What one request takes from Recordare was to be deleted, and what it ingests is there.
LEMMA AppliedKeeps ==
  ASSUME OutboxInv, NEW d \in Drainers, drain[d].pc = "send", NEW m \in Messages
  PROVE  /\ Applied(drain[d])[m] = "none" =>
              \/ remote[m] = "none"
              \/ \E r \in drain[d].rows : outbox[r].op = "delete_conversation"
              \/ \E r \in drain[d].rows : outbox[r].m = m /\
                   \/ outbox[r].op = "delete_message"
                   \/ outbox[r].op = "message_privacy" /\ drain[d].flags[m] = "none"
         /\ (\E r \in drain[d].rows : outbox[r].op = "message") /\ drain[d].flags[m] # "none"
              => Applied(drain[d])[m] # "none"
<1>. DEFINE t == drain[d]
            op == outbox[CHOOSE r \in t.rows : TRUE].op
            about == {outbox[r].m : r \in t.rows}
<1>1. t \in DrainRecords /\ t.rows # {}
  BY DEF OutboxInv, TypeOK, RowsInv, OneRequest
<1>2. (CHOOSE r \in t.rows : TRUE) \in t.rows
  BY <1>1
<1>3. op \in Ops
  BY <1>1, <1>2 DEF OutboxInv, TypeOK, DrainRecords, OutboxRows
<1>4. \A r \in t.rows : outbox[r].op = op
  BY <1>2 DEF OutboxInv, RowsInv, OneRequest
<1>5. Applied(t)[m] =
        CASE op = "message" -> IF remote[m] = "none" THEN t.flags[m] ELSE remote[m]
          [] op = "message_privacy" -> IF m \in about /\ remote[m] # "none" THEN t.flags[m]
                                       ELSE remote[m]
          [] op = "delete_message" -> IF m \in about THEN "none" ELSE remote[m]
          [] op = "delete_conversation" -> "none"
  BY DEF Applied
<1>6. \A x \in about : \E r \in t.rows : outbox[r].m = x /\ outbox[r].op = op
  BY <1>4
<1>7. \E r \in t.rows : outbox[r].op = op
  BY <1>2
<1>. HIDE DEF op, about
<1>8. CASE op = "message"
  BY <1>4, <1>5, <1>8
<1>9. CASE op = "message_privacy"
  BY <1>4, <1>5, <1>6, <1>9
<1>10. CASE op = "delete_message"
  BY <1>4, <1>5, <1>6, <1>10
<1>11. CASE op = "delete_conversation"
  BY <1>4, <1>5, <1>7, <1>11
<1>. QED
  BY <1>3, <1>8, <1>9, <1>10, <1>11 DEF Ops

LEMMA RequestEndsIngest ==
  ASSUME OutboxInv, IngestInv, NEW d \in Drainers, Send(d) \/ SendFails(d)
  PROVE  IngestInv'
<1>. DEFINE t == drain[d]
<1>1. /\ TypeOK /\ RowsInv /\ t.pc = "send" /\ t \in DrainRecords
      /\ UNCHANGED <<chat, messages, outbox, lastId, user, unqueued, raced>>
  BY DEF OutboxInv, TypeOK, Send, SendFails
<1>2. PICK pc : /\ drain' = [drain EXCEPT ![d].pc = pc]
                /\ \/ pc = "remove" /\ remote' = Applied(t)
                   \/ pc = "fail" /\ remote' \in {remote, Applied(t)}
  BY DEF Send, SendFails
<1>. DEFINE done == [t EXCEPT !.pc = pc]
<1>3. /\ drain' = [drain EXCEPT ![d] = done]
      /\ done.rows = t.rows /\ done.pc = pc /\ done.flags = t.flags
  BY <1>1, <1>2 DEF TypeOK, DrainRecords
<1>. HIDE DEF done
<1>4. \A r \in t.rows : r \in RowIds
  BY <1>1, HeldRows DEF RowsInv
<1>5. ASSUME NEW m \in Messages, chat = "present", Present(m), m \notin unqueued,
             remote[m] # "none"
      PROVE  remote'[m] # "none"
  <2>1. \A r \in t.rows : outbox[r].op # "delete_conversation"
    BY <1>4, <1>5 DEF IngestInv, ChatGoing
  <2>2. ASSUME NEW r \in t.rows, outbox[r].m = m
        PROVE  /\ outbox[r].op # "delete_message"
               /\ outbox[r].op = "message_privacy" => t.flags[m] # "none"
    BY <1>1, <1>4, <1>5, <2>2 DEF IngestInv, RowsMeant, IngestSent, Present, Kept
  <2>3. Applied(t)[m] # "none"
    BY <1>1, <1>5, <2>1, <2>2, AppliedKeeps
  <2>. QED
    BY <1>2, <1>5, <2>3
<1>6. SaysAll(done)
  <2>1. ASSUME NEW r \in t.rows, outbox[r].m \in Messages, Present(outbox[r].m),
               pc = "remove", outbox[r].op = "message"
        PROVE  remote'[outbox[r].m] # "none"
    <3>1. t.flags[outbox[r].m] # "none"
      BY <1>1, <2>1 DEF IngestInv, IngestSent
    <3>. QED
      BY <1>1, <1>2, <2>1, <3>1, AppliedKeeps
  <2>. QED
    BY <1>2, <1>3, <2>1 DEF SaysAll
<1>7. IngestQueued'
  BY <1>1, <1>5 DEF IngestInv, IngestQueued, Present, Queued, Live
<1>8. DrainFrame
  <2>1. faults' \in 0..MaxFaults
    BY <1>1, FaultType DEF Send, SendFails, TypeOK
  <2>. QED
    BY <1>1, <2>1, SameTable
<1>9. IngestSent'
  BY <1>3, <1>4, <1>5, <1>6, <1>8, OthersIngest
<1>. QED
  BY <1>7, <1>8, <1>9, DrainStepIngest

\* A drain that has just begun its next request, failed or ended.
LEMMA FreshIngest ==
  ASSUME OutboxInv, IngestInv, NEW d \in Drainers, DrainFrame, UNCHANGED remote,
         NEW t, drain' = [drain EXCEPT ![d] = t], t.rows \subseteq RowIds,
         t.pc \in {"idle", "read", "send", "fail"},
         t.pc = "send" => \A r \in t.rows :
           outbox[r].op \notin {"message", "message_privacy"},
         \A m \in Messages : Queued("message", m) => Queued("message", m)'
  PROVE  IngestInv'
<1>1. SaysAll(t)
  BY DEF SaysAll
<1>2. IngestSent'
  BY <1>1, OthersIngest
<1>3. IngestQueued'
  BY DEF IngestInv, IngestQueued, DrainFrame, Present
<1>. QED
  BY <1>2, <1>3, DrainStepIngest

\* The next row is sent without being read again only when it is a deletion.
LEMMA AfterSends ==
  ASSUME NEW t \in DrainRecords, \A r \in t.others : outbox[r].op # "message"
  PROVE  /\ After(t).pc \in {"idle", "read", "send"} /\ After(t).rows \subseteq RowIds
         /\ After(t).pc = "send" => \A r \in After(t).rows :
              outbox[r].op \notin {"message", "message_privacy"}
<1>1. CASE t.others = {}
  BY <1>1 DEF After, NoDrain
<1>2. CASE t.others # {}
  <2>. DEFINE r == Min(t.others)
  <2>1. r \in t.others /\ t.others \in SUBSET RowIds
    BY <1>2, LeastRow DEF DrainRecords
  <2>. HIDE DEF r
  <2>2. After(t) = [t EXCEPT !.pc = IF outbox[r].op = "message_privacy" THEN "read" ELSE "send",
                             !.rows = {r}, !.others = @ \ {r}, !.flags = Nothing]
    BY <1>2 DEF After, r
  <2>3. /\ After(t).rows = {r} /\ After(t).pc \in {"read", "send"}
        /\ After(t).pc = "send" => outbox[r].op # "message_privacy"
    BY <2>2 DEF DrainRecords
  <2>. QED
    BY <2>1, <2>3
<1>. QED
  BY <1>1, <1>2

LEMMA SelectIngest ==
  ASSUME OutboxInv, IngestInv, NEW d \in Drainers, Select(d)
  PROVE  IngestInv'
<1>. DEFINE due == {r \in RowIds : outbox[r].state = "due"}
            first == {r \in due : outbox[r].op = "message"}
            at == [r \in RowIds |-> IF r \in due THEN outbox[r].attempts ELSE 0]
            selected == [NoDrain EXCEPT !.attempts = at]
            rest == due \ first
            waiting == [selected EXCEPT !.others = due]
            reading == [selected EXCEPT !.pc = "read", !.rows = first, !.others = rest]
            t == IF first = {} THEN After(waiting) ELSE reading
<1>1. /\ TypeOK /\ UNCHANGED <<chat, messages, outbox, lastId, user, remote, unqueued, faults>>
      /\ drain' = [drain EXCEPT ![d] = t]
      /\ raced \subseteq raced' /\ raced' \in SUBSET Messages
  BY DEF OutboxInv, Select, TypeOK
<1>2. DrainFrame /\ \A m : Queued("message", m)' <=> Queued("message", m)
  BY <1>1 DEF DrainFrame, TypeOK, Live, Queued
<1>3. at \in [RowIds -> 0..(MaxAttempts - 1)]
  <2>1. ASSUME NEW r \in due
        PROVE  outbox[r].attempts \in 0..(MaxAttempts - 1)
    <3>1. outbox[r].attempts \in 0..MaxAttempts /\ outbox[r].attempts # MaxAttempts
      BY <1>1 DEF TypeOK, OutboxRows
    <3>. QED
      BY <3>1, BoundsAssumption
  <2>. QED
    BY <2>1, BoundsAssumption
<1>. HIDE DEF at
<1>4. /\ waiting \in DrainRecords /\ waiting.others = due
      /\ reading.pc = "read" /\ reading.rows = first
  <2>1. selected = [pc |-> "idle", rows |-> {}, others |-> {}, flags |-> Nothing, attempts |-> at]
    BY DEF NoDrain
  <2>2. selected \in DrainRecords /\ due \in SUBSET RowIds
    BY <1>3, <2>1 DEF DrainRecords, Nothing
  <2>. HIDE DEF selected, due, first, rest
  <2>. QED
    BY <2>2 DEF DrainRecords
<1>5. /\ t.rows \subseteq RowIds /\ t.pc \in {"idle", "read", "send"}
      /\ t.pc = "send" => \A r \in t.rows : outbox[r].op \notin {"message", "message_privacy"}
  <2>1. CASE first = {}
    <3>1. \A r \in due : outbox[r].op # "message"
      BY <2>1
    <3>. HIDE DEF due, waiting, first
    <3>. QED
      BY <1>4, <2>1, <3>1, AfterSends
  <2>2. CASE first # {}
    <3>1. first \subseteq RowIds
      OBVIOUS
    <3>. HIDE DEF waiting, reading, first
    <3>2. t = reading
      BY <2>2
    <3>. QED
      BY <1>4, <3>1, <3>2
  <2>. HIDE DEF t, first
  <2>. QED
    BY <2>1, <2>2
<1>. HIDE DEF t
<1>. QED
  BY <1>1, <1>2, <1>5, FreshIngest

LEMMA ReadIngest ==
  ASSUME OutboxInv, IngestInv, NEW d \in Drainers, Read(d)
  PROVE  IngestInv'
<1>. DEFINE t == drain[d]
            pc == IF CurrentFlags(t) = Nothing THEN "remove" ELSE "send"
            read == [t EXCEPT !.flags = CurrentFlags(t), !.pc = pc]
<1>1. /\ TypeOK /\ RowsInv /\ t \in DrainRecords
      /\ UNCHANGED <<chat, messages, outbox, lastId, user, remote, unqueued, raced, faults>>
      /\ drain' = [drain EXCEPT ![d].flags = CurrentFlags(t), ![d].pc = pc]
  BY DEF OutboxInv, Read, TypeOK
<1>2. ASSUME NEW r \in t.rows, outbox[r].m \in Messages, Present(outbox[r].m)
      PROVE  CurrentFlags(t)[outbox[r].m] # "none" /\ pc = "send"
  <2>1. CurrentFlags(t)[outbox[r].m] = messages[outbox[r].m]
    BY <1>2 DEF CurrentFlags
  <2>. QED
    BY <1>2, <2>1 DEF Present, Kept, Nothing
<1>. HIDE DEF pc
<1>3. /\ drain' = [drain EXCEPT ![d] = read]
      /\ read.rows = t.rows /\ read.pc = pc /\ read.flags = CurrentFlags(t)
  BY <1>1 DEF TypeOK, DrainRecords
<1>. HIDE DEF read
<1>4. SaysAll(read)
  BY <1>2, <1>3 DEF SaysAll
<1>5. DrainFrame
  BY <1>1, SameTable DEF TypeOK
<1>6. read.rows \subseteq RowIds
  BY <1>1, <1>3 DEF DrainRecords
<1>7. IngestSent'
  BY <1>1, <1>3, <1>4, <1>5, <1>6, OthersIngest
<1>8. IngestQueued'
  BY <1>1 DEF IngestInv, IngestQueued, Present, Queued, Live
<1>. QED
  BY <1>5, <1>7, <1>8, DrainStepIngest

LEMMA RemoveIngest ==
  ASSUME OutboxInv, IngestInv, NEW d \in Drainers, Remove(d)
  PROVE  IngestInv'
<1>. DEFINE t == drain[d]
<1>1. /\ TypeOK /\ RowsInv /\ t.pc = "remove" /\ t \in DrainRecords
      /\ UNCHANGED <<chat, messages, lastId, user, remote, unqueued, raced, faults>>
      /\ drain' = [drain EXCEPT ![d] = After(t)]
      /\ outbox' = [r \in RowIds |-> IF r \in t.rows THEN Gone(outbox[r]) ELSE outbox[r]]
  BY DEF OutboxInv, Remove, Sent, TypeOK
<1>2. DrainFrame
  BY RemoveFrame
<1>3. ASSUME NEW m \in Messages, chat = "present", Present(m), remote[m] = "none",
             m \notin unqueued
      PROVE  Queued("message", m)'
  <2>1. PICK r \in RowIds : Live(r) /\ outbox[r].op = "message" /\ outbox[r].m = m
    BY <1>3 DEF IngestInv, IngestQueued, Queued
  <2>2. r \notin t.rows
    BY <1>1, <1>3, <2>1 DEF IngestInv, IngestSent
  <2>. QED
    BY <1>1, <2>1, <2>2 DEF Queued, Live
<1>4. IngestQueued'
  BY <1>1, <1>3 DEF IngestQueued, Present
<1>5. \A r \in t.others : outbox[r].op # "message"
  BY <1>1 DEF RowsInv, OneRequest
<1>. HIDE DEF t
<1>6. SaysAll(After(t)) /\ After(t).rows \subseteq RowIds
  BY <1>1, <1>5, AfterSends DEF SaysAll
<1>7. IngestSent'
  BY <1>1, <1>2, <1>6, OthersIngest
<1>. QED
  BY <1>2, <1>4, <1>7, DrainStepIngest

LEMMA FailIngest ==
  ASSUME OutboxInv, IngestInv, NEW d \in Drainers, Fail(d)
  PROVE  IngestInv'
<1>. DEFINE t == drain[d]
<1>1. /\ TypeOK /\ RowsInv /\ t \in DrainRecords /\ UNCHANGED remote
      /\ drain' = [drain EXCEPT ![d] = After(t)]
  BY DEF OutboxInv, Fail, TypeOK
<1>2. DrainFrame /\ \A r \in RowIds : Live(r)' <=> Live(r)
  BY FailFrame
<1>3. \A m \in Messages : Queued("message", m) => Queued("message", m)'
  BY <1>2, RowsStay
<1>4. \A r \in t.others : outbox[r].op # "message"
  BY <1>1 DEF RowsInv, OneRequest
<1>. HIDE DEF t
<1>. QED
  BY <1>1, <1>2, <1>3, <1>4, AfterSends, FreshIngest

LEMMA QueryFailsIngest ==
  ASSUME OutboxInv, IngestInv, NEW d \in Drainers, QueryFails(d)
  PROVE  IngestInv'
<1>. DEFINE t == drain[d]
            failed == [t EXCEPT !.pc = "fail"]
<1>1. /\ TypeOK /\ t \in DrainRecords
      /\ UNCHANGED <<chat, messages, outbox, lastId, user, remote, unqueued, raced>>
      /\ \/ drain' = [drain EXCEPT ![d] = failed]
         \/ drain' = [drain EXCEPT ![d] = NoDrain]
  BY DEF OutboxInv, QueryFails, TypeOK
<1>2. DrainFrame /\ \A r \in RowIds : Live(r)' <=> Live(r)
  BY <1>1, FaultType, SameTable DEF QueryFails
<1>3. \A m \in Messages : Queued("message", m) => Queued("message", m)'
  BY <1>2, RowsStay
<1>4. failed.pc = "fail" /\ failed.rows \subseteq RowIds
  BY <1>1 DEF DrainRecords
<1>5. NoDrain.pc = "idle" /\ NoDrain.rows \subseteq RowIds
  BY DEF NoDrain
<1>. HIDE DEF failed
<1>. QED
  BY <1>1, <1>2, <1>3, <1>4, <1>5, FreshIngest

LEMMA DueIngest ==
  ASSUME OutboxInv, IngestInv, NEW r \in RowIds, Due(r)
  PROVE  IngestInv'
<1>1. /\ TypeOK /\ RowsInv /\ outbox[r].state = "later"
      /\ UNCHANGED <<chat, messages, lastId, user, drain, remote, unqueued, faults>>
      /\ outbox' = [outbox EXCEPT ![r].state = "due"]
  BY DEF OutboxInv, Due
<1>2. \A k \in RowIds : /\ Live(k)' <=> Live(k)
                       /\ outbox'[k].op = outbox[k].op /\ outbox'[k].m = outbox[k].m
  BY <1>1 DEF TypeOK, OutboxRows, Live
<1>3. \A d \in Drainers : \A k \in drain[d].rows : k \in RowIds
  BY <1>1, HeldRows DEF RowsInv
<1>4. ChatGoing' /\ RowsMeant' /\ ChangesMeant'
  BY <1>1, <1>2 DEF IngestInv, ChatGoing, RowsMeant, ChangesMeant
<1>5. IngestSent'
  BY <1>1, <1>2, <1>3 DEF IngestInv, IngestSent, Present
<1>6. IngestQueued'
  BY <1>1, <1>2 DEF IngestInv, IngestQueued, Queued, Present
<1>. QED
  BY <1>4, <1>5, <1>6 DEF IngestInv

LEMMA InitIngest ==
  ASSUME Init
  PROVE  IngestInv
BY BoundsAssumption DEF Init, IngestInv, ChatGoing, RowsMeant, ChangesMeant, IngestSent,
       IngestQueued, Messages, NoRow, NoDrain, NoRequest, Present, Kept

LEMMA StepKeepsIngest ==
  ASSUME OutboxInv, IngestInv, [Next]_vars
  PROVE  IngestInv'
<1>1. ASSUME NEW m \in Messages, NEW flag \in Kept, Save(m, flag) \/ WriteFlag(m, flag)
      PROVE  IngestInv'
  BY <1>1, SaveIngest, FlagIngest
<1>2. ASSUME NEW m \in Messages, TruncateFind(m) \/ SetPrivate(m) \/ QueuePrivacy(m)
      PROVE  IngestInv'
  BY <1>2, TruncateIngest, FlagIngest, QueuePrivacyIngest
<1>3. CASE TruncateFrom \/ QueueDeletes \/ QueueConversationDelete \/ RemoveChat \/ Crash
  BY <1>3, TruncateIngest, QueueDeletesIngest, ChatRemovalIngest, CrashIngest
<1>4. ASSUME NEW d \in Drainers, DrainStep(d)
      PROVE  IngestInv'
  BY <1>4, SelectIngest, ReadIngest, RequestEndsIngest, RemoveIngest, FailIngest,
     QueryFailsIngest DEF DrainStep
<1>5. ASSUME NEW r \in RowIds, Due(r)
      PROVE  IngestInv'
  BY <1>5, DueIngest
<1>6. CASE UNCHANGED vars
  BY <1>6 DEF vars, IngestInv, ChatGoing, RowsMeant, ChangesMeant, IngestSent, IngestQueued,
              Live, Present, Queued
<1>. QED
  BY <1>1, <1>2, <1>3, <1>4, <1>5, <1>6 DEF Next

\* What the ingests need holds in every state: a message that should be in the memory is
\* there, or has a row in the table that will send it, however many drains there are.
THEOREM IngestInvariant == Spec => []IngestInv
<1>1. Init => IngestInv
  BY InitIngest
<1>2. OutboxInv /\ IngestInv /\ [Next]_vars => IngestInv'
  BY StepKeepsIngest
<1>. QED
  BY <1>1, <1>2, OutboxInvariant, PTL DEF Spec

\* What the user wrote is never forgotten by the table while Recordare lacks it: a request
\* that fails, a crash before the row is removed, or two drains that send it, cost a second
\* request and never the message.
THEOREM IngestsNotLost == Spec => []IngestQueued
<1>1. IngestInv => IngestQueued
  BY DEF IngestInv
<1>. QED
  BY <1>1, IngestInvariant, PTL

\* With nothing queued of it and nothing about to be, a message no two drains raced for is
\* in step.
LEMMA RestIsInStep ==
  ASSUME OutboxInv, IngestQueued
  PROVE  RestInStep
<1>1. SUFFICES ASSUME AtRest, NEW m \in Messages, m \notin unqueued \cup raced, chat = "present",
                      \A r \in RowIds : outbox[r].state = "parked" => outbox[r].m \notin {0, m}
               PROVE  \/ messages[m] \in {"new", "deleted"} /\ remote[m] = "none"
                      \/ Present(m) /\ remote[m] = messages[m]
  BY DEF RestInStep, InStep
<1>2. \A op : ~Queued(op, m)
  BY <1>1 DEF AtRest, Queued, Live
<1>3. /\ m \notin user.truncated /\ m \notin user.flagged
      /\ messages[m] \in Kept \cup {"new", "deleted"} /\ remote[m] \in Kept \cup {"none"}
  BY <1>1 DEF AtRest, OutboxInv, TypeOK, NoRequest
<1>4. CASE messages[m] = "new"
  BY <1>4 DEF OutboxInv, SentInv, NewUnknown
<1>5. CASE messages[m] = "deleted"
  BY <1>1, <1>2, <1>3, <1>5 DEF OutboxInv, SentInv, DeletionQueued
<1>6. CASE Present(m)
  <2>1. remote[m] # "none"
    BY <1>1, <1>2, <1>6 DEF IngestQueued
  <2>2. remote[m] = messages[m]
    BY <1>1, <1>2, <1>3, <1>6, <2>1 DEF OutboxInv, SentInv, PrivacyQueued
  <2>. QED
    BY <1>6, <2>2
<1>. QED
  BY <1>3, <1>4, <1>5, <1>6 DEF Present

\* Whenever the outbox comes to rest, Recordare and the chat agree, but for what two drains
\* raced for, what was parked or never enqueued: what Settles needs besides the outbox
\* coming to rest. It holds however many drains there are.
THEOREM RestAgrees == Spec => []RestInStep
<1>1. OutboxInv /\ IngestQueued => RestInStep
  BY RestIsInStep
<1>. QED
  BY <1>1, OutboxInvariant, IngestsNotLost, PTL
=============================================================================
