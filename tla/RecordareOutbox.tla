---------------------------- MODULE RecordareOutbox ----------------------------
(***************************************************************************)
(* The outbox that keeps Recordare, an external episodic memory, in step   *)
(* with the messages of ONE chat: what messages.service, chats.service and *)
(* the message subscriber enqueue, and the worker that drains the table.   *)
(*                                                                         *)
(* A drain is a sequence of queries and HTTP calls: the state changes      *)
(* under it between any two. "tick" is the interval's drain, which never   *)
(* overlaps itself; the others are flushChat()s, which do not wait for it. *)
(* The owner's episodic memory is on, and Recordare is configured.         *)
(***************************************************************************)
EXTENDS Naturals, FiniteSets, FiniteSetsExt

CONSTANTS
  MaxMessages,  \* bound: messages the chat may ever have
  MaxRows,      \* bound: rows the table may ever have
  MaxAttempts,  \* attempts before a row is parked
  Drainers,     \* the drains that may be in progress together
  MaxFaults,    \* bound: failed calls, lost answers, failed enqueues, crashes
  SavedAs       \* the flags messages are saved with: those the chat has in turn

ASSUME BoundsAssumption == /\ MaxMessages \in Nat /\ MaxRows \in Nat /\ MaxFaults \in Nat
                           /\ MaxAttempts \in Nat \ {0}
                           /\ SavedAs \subseteq {"public", "private"}

VARIABLES
  chat,      \* the row of chats
  messages,  \* the rows of messages, oldest first, with isPrivate
  outbox,    \* the rows of recordare_outbox, by id
  lastId,    \* of the table's sequence
  user,      \* the user's requests in progress: what each has found or written
  drain,     \* the drains in progress
  remote,    \* what Recordare holds of the chat
  unqueued,  \* history: messages whose change lost its row to a failed enqueue or a crash
  raced,     \* history: messages two drains had rows of that must keep their order
  faults     \* what is left of the bound

vars == <<chat, messages, outbox, lastId, user, drain, remote, unqueued, raced, faults>>

Messages == 1..MaxMessages
RowIds == 1..MaxRows
Kept == {"public", "private"}
Ops == {"message", "delete_message", "delete_conversation", "message_privacy"}

\* m is 0 for a row about the conversation; "later" waits for nextAttemptAt.
OutboxRows == [op : Ops, m : 0..MaxMessages, attempts : 0..MaxAttempts,
               state : {"due", "later", "parked", "gone"}]
NoRow == [op |-> "message", m |-> 0, attempts |-> 0, state |-> "gone"]

\* rows: the rows being sent; others: the rows that follow; flags: what is being sent;
\* attempts: those of each row when it was selected.
DrainRecords == [pc : {"idle", "read", "send", "remove", "fail"}, rows : SUBSET RowIds,
                 others : SUBSET RowIds, flags : [Messages -> Kept \cup {"none"}],
                 attempts : [RowIds -> 0..(MaxAttempts - 1)]]
Nothing == [m \in Messages |-> "none"]
NoDrain == [pc |-> "idle", rows |-> {}, others |-> {}, flags |-> Nothing,
            attempts |-> [r \in RowIds |-> 0]]

\* found: the messages a truncation will delete; truncated: those it deleted; setting:
\* those whose flag is about to be written; flagged: those whose flag was. Rows are
\* still to be enqueued for all of them.
Requests == [found : SUBSET Messages, truncated : SUBSET Messages,
             setting : SUBSET Messages, flagged : SUBSET Messages]
NoRequest == [found |-> {}, truncated |-> {}, setting |-> {}, flagged |-> {}]

TypeOK ==
  /\ chat \in {"present", "removing", "deleted"}
  /\ messages \in [Messages -> Kept \cup {"new", "deleted"}]
  /\ outbox \in [RowIds -> OutboxRows]
  /\ \A r \in RowIds : outbox[r].attempts = MaxAttempts => outbox[r].state = "parked"
  /\ lastId \in 0..MaxRows
  /\ user \in Requests
  /\ drain \in [Drainers -> DrainRecords]
  /\ remote \in [Messages -> Kept \cup {"none"}]
  /\ unqueued \in SUBSET Messages
  /\ raced \in SUBSET Messages
  /\ faults \in 0..MaxFaults

Init ==
  /\ chat = "present"
  /\ messages = [m \in Messages |-> "new"]
  /\ outbox = [r \in RowIds |-> NoRow]
  /\ lastId = 0
  /\ user = NoRequest
  /\ drain = [d \in Drainers |-> NoDrain]
  /\ remote = Nothing
  /\ unqueued = {}
  /\ raced = {}
  /\ faults = MaxFaults

Fault == faults > 0 /\ faults' = faults - 1
Present(m) == messages[m] \in Kept
Live(r) == outbox[r].state # "gone"

\* The bound on rows leaves room for n more, and for those of the requests in progress.
Room(n) == lastId + n + Cardinality(user.found) + Cardinality(user.truncated)
             + Cardinality(user.setting) + Cardinality(user.flagged) <= MaxRows

-----------------------------------------------------------------------------
(* Enqueueing: messages.service, chats.service, the message subscriber *)

\* One INSERT: a row per element of targets, in any order of ids; none when the chat's
\* row is gone, since the statement selects from it.
Enqueue(op, targets) ==
  LET n == Cardinality(targets) IN
  IF chat = "deleted" THEN UNCHANGED <<outbox, lastId>>
  ELSE /\ \E at \in [targets -> (lastId + 1)..(lastId + n)] :
            /\ \A m, k \in targets : m # k => at[m] # at[k]
            /\ outbox' = [r \in RowIds |->
                 IF \E m \in targets : at[m] = r
                 THEN [op |-> op, m |-> CHOOSE m \in targets : at[m] = r,
                       attempts |-> 0, state |-> "due"]
                 ELSE outbox[r]]
       /\ lastId' = lastId + n

\* A message is saved: its row is inserted in the same transaction, under a savepoint.
Save(m, flag) ==
  /\ chat # "deleted" /\ messages[m] = "new" /\ flag \in SavedAs /\ Room(1)
  /\ \A k \in 1..(m - 1) : messages[k] # "new"
  /\ messages' = [messages EXCEPT ![m] = flag]
  /\ \/ Enqueue("message", {m}) /\ UNCHANGED <<unqueued, faults>>
     \/ Fault /\ unqueued' = unqueued \cup {m} /\ UNCHANGED <<outbox, lastId>>
  /\ UNCHANGED <<chat, user, drain, remote, raced>>

\* truncateFrom(): the message and all that follow are found ...
TruncateFind(m) ==
  LET toDelete == {k \in m..MaxMessages : Present(k)} IN
  /\ chat # "deleted" /\ Present(m) /\ Room(Cardinality(toDelete))
  /\ user.found = {} /\ user.truncated = {}
  /\ user' = [user EXCEPT !.found = toDelete]
  /\ UNCHANGED <<chat, messages, outbox, lastId, drain, remote, unqueued, raced, faults>>

\* ... deleted, in one statement ...
TruncateFrom ==
  /\ user.found # {}
  /\ messages' = [k \in Messages |-> IF k \in user.found THEN "deleted" ELSE messages[k]]
  /\ user' = [user EXCEPT !.found = {}, !.truncated = user.found]
  /\ UNCHANGED <<chat, outbox, lastId, drain, remote, unqueued, raced, faults>>

\* ... and their rows enqueued by the next.
QueueDeletes ==
  /\ user.truncated # {}
  /\ user' = [user EXCEPT !.truncated = {}]
  /\ \/ Enqueue("delete_message", user.truncated) /\ UNCHANGED <<unqueued, faults>>
     \/ Fault /\ unqueued' = unqueued \cup user.truncated /\ UNCHANGED <<outbox, lastId>>
  /\ UNCHANGED <<chat, messages, drain, remote, raced>>

\* setPrivate(): the message is found ...
SetPrivate(m) ==
  /\ chat # "deleted" /\ Present(m) /\ m \notin user.setting \cup user.flagged /\ Room(1)
  /\ user' = [user EXCEPT !.setting = @ \cup {m}]
  /\ UNCHANGED <<chat, messages, outbox, lastId, drain, remote, unqueued, raced, faults>>

\* ... its flag is written, if it is still there ...
WriteFlag(m, flag) ==
  /\ m \in user.setting
  /\ messages' = [messages EXCEPT ![m] = IF Present(m) THEN flag ELSE @]
  /\ user' = [user EXCEPT !.setting = @ \ {m}, !.flagged = @ \cup {m}]
  /\ UNCHANGED <<chat, outbox, lastId, drain, remote, unqueued, raced, faults>>

\* ... and its row enqueued.
QueuePrivacy(m) ==
  /\ m \in user.flagged
  /\ user' = [user EXCEPT !.flagged = @ \ {m}]
  /\ \/ Enqueue("message_privacy", {m}) /\ UNCHANGED <<unqueued, faults>>
     \/ Fault /\ unqueued' = unqueued \cup {m} /\ UNCHANGED <<outbox, lastId>>
  /\ UNCHANGED <<chat, messages, drain, remote, raced>>

\* remove() of a chat: the deletion is enqueued first ...
QueueConversationDelete ==
  /\ chat = "present" /\ Room(1)
  /\ chat' = "removing"
  /\ \/ Enqueue("delete_conversation", {0}) /\ UNCHANGED <<unqueued, faults>>
     \/ Fault /\ unqueued' = Messages /\ UNCHANGED <<outbox, lastId>>
  /\ UNCHANGED <<messages, user, drain, remote, raced>>

\* ... then the chat goes, its messages with it.
RemoveChat ==
  /\ chat = "removing"
  /\ chat' = "deleted"
  /\ messages' = [m \in Messages |-> IF Present(m) THEN "deleted" ELSE messages[m]]
  /\ UNCHANGED <<outbox, lastId, user, drain, remote, unqueued, raced, faults>>

-----------------------------------------------------------------------------
(* Draining *)

\* What follows: the rows that are not messages one by one, in the order of their ids.
After(t) ==
  IF t.others = {} THEN NoDrain
  ELSE LET r == Min(t.others) IN
       [t EXCEPT !.pc = IF outbox[r].op = "message_privacy" THEN "read" ELSE "send",
                 !.rows = {r}, !.others = @ \ {r}, !.flags = Nothing]

\* Variant: the rows are not looked at again before the messages are sent.
FlagsAtSelect(t) == [m \in Messages |->
  IF \E r \in t.rows : outbox[r].m = m
  THEN IF messages[m] \in Kept THEN messages[m] ELSE "public" ELSE "none"]

\* Variant: a message deleted meanwhile is not dropped.
FlagsOfAll(t) == [m \in Messages |->
  IF \E r \in t.rows : outbox[r].m = m THEN messages[m] ELSE "none"]

\* The current rows of the messages to send; a deleted one is not sent.
CurrentFlags(t) == [m \in Messages |->
  IF (\E r \in t.rows : outbox[r].m = m) /\ Present(m) THEN messages[m] ELSE "none"]

\* Two requests about one message that do not commute.
Conflict(op, other) == {op, other} \in
  {{"message", "delete_message"}, {"message", "message_privacy"}, {"message_privacy"}}

Holds(d) == drain[d].rows \cup drain[d].others

\* drain(): the due rows are selected; the messages go first, in one request.
Select(d) ==
  LET due == {r \in RowIds : outbox[r].state = "due"}
      first == {r \in due : outbox[r].op = "message"}
      t == [NoDrain EXCEPT !.attempts =
              [r \in RowIds |-> IF r \in due THEN outbox[r].attempts ELSE 0]] IN
  /\ drain[d].pc = "idle" /\ due # {}
  /\ drain' = [drain EXCEPT ![d] =
       IF first = {} THEN After([t EXCEPT !.others = due])
       ELSE [t EXCEPT !.pc = "read", !.rows = first, !.others = due \ first]]
  /\ raced' = raced \cup {m \in Messages :
       \E e \in Drainers \ {d} : \E k \in Holds(e), r \in due :
         outbox[k].m = m /\ outbox[r].m = m /\ Conflict(outbox[k].op, outbox[r].op)}
  /\ UNCHANGED <<chat, messages, outbox, lastId, user, remote, unqueued, faults>>

\* Variant: the rows are dropped when one of their messages is gone.
ReadAllOrNone(d) ==
  LET t == drain[d]
      gone == \E r \in t.rows : outbox[r].m \in Messages /\ ~Present(outbox[r].m) IN
  /\ t.pc = "read"
  /\ drain' = [drain EXCEPT ![d].flags = CurrentFlags(t),
                            ![d].pc = IF gone THEN "remove" ELSE "send"]
  /\ UNCHANGED <<chat, messages, outbox, lastId, user, remote, unqueued, raced, faults>>

\* sendMessages(), sendPrivacy(): the chat and the messages as they are now; when none
\* is left the rows are dropped.
Read(d) ==
  LET t == drain[d] IN
  /\ t.pc = "read"
  /\ drain' = [drain EXCEPT ![d].flags = CurrentFlags(t),
                            ![d].pc = IF CurrentFlags(t) = Nothing THEN "remove" ELSE "send"]
  /\ UNCHANGED <<chat, messages, outbox, lastId, user, remote, unqueued, raced, faults>>

\* Recordare's side of one request. Ingest dedups on the message's id; a change or a
\* deletion of what it does not have is a 404.
Applied(t) ==
  LET op == outbox[CHOOSE r \in t.rows : TRUE].op
      about == {outbox[r].m : r \in t.rows} IN
  [m \in Messages |->
    CASE op = "message" -> IF remote[m] = "none" THEN t.flags[m] ELSE remote[m]
      [] op = "message_privacy" -> IF m \in about /\ remote[m] # "none" THEN t.flags[m]
                                   ELSE remote[m]
      [] op = "delete_message" -> IF m \in about THEN "none" ELSE remote[m]
      [] op = "delete_conversation" -> "none"]

\* The request is answered: done, and so is a 404.
Send(d) ==
  /\ drain[d].pc = "send"
  /\ remote' = Applied(drain[d])
  /\ drain' = [drain EXCEPT ![d].pc = "remove"]
  /\ UNCHANGED <<chat, messages, outbox, lastId, user, unqueued, raced, faults>>

\* Variant: a request that failed is taken for a 404.
SendFailsQuietly(d) ==
  /\ drain[d].pc = "send"
  /\ Fault
  /\ remote' \in {remote, Applied(drain[d])}
  /\ drain' = [drain EXCEPT ![d].pc = "remove"]
  /\ UNCHANGED <<chat, messages, outbox, lastId, user, unqueued, raced>>

\* It fails, before or after it took effect.
SendFails(d) ==
  /\ drain[d].pc = "send"
  /\ Fault
  /\ remote' \in {remote, Applied(drain[d])}
  /\ drain' = [drain EXCEPT ![d].pc = "fail"]
  /\ UNCHANGED <<chat, messages, outbox, lastId, user, unqueued, raced>>

\* Variant: every row up to the last one sent is deleted.
SentPrefix(t) == {r \in RowIds : \E k \in t.rows : r <= k}

\* remove(): the rows sent.
Sent(t) == t.rows

Gone(row) == [row EXCEPT !.state = "gone", !.attempts = 0]

Remove(d) ==
  LET t == drain[d] IN
  /\ t.pc = "remove"
  /\ outbox' = [r \in RowIds |-> IF r \in Sent(t) THEN Gone(outbox[r]) ELSE outbox[r]]
  /\ drain' = [drain EXCEPT ![d] = After(t)]
  /\ UNCHANGED <<chat, messages, lastId, user, remote, unqueued, raced, faults>>

Parks(attempts) == attempts >= MaxAttempts

\* A row after its n-th attempt; one that another drain parked stays parked.
Failed(row, n, rejected) ==
  LET parked == rejected \/ Parks(n) \/ row.state = "parked" IN
  [row EXCEPT !.attempts = n, !.state = IF parked THEN "parked" ELSE "later"]

\* fail(): each row is retried later or parked, by the attempts it had when it was
\* selected; parked at once when Recordare will never accept it. A row removed meanwhile
\* is not written.
Fail(d) ==
  LET t == drain[d] IN
  /\ t.pc = "fail"
  /\ \E rejected \in BOOLEAN :
       outbox' = [r \in RowIds |->
         IF r \in t.rows /\ Live(r) THEN Failed(outbox[r], t.attempts[r] + 1, rejected)
         ELSE outbox[r]]
  /\ drain' = [drain EXCEPT ![d] = After(t)]
  /\ UNCHANGED <<chat, messages, lastId, user, remote, unqueued, raced, faults>>

\* A query fails: the removal of what was ingested or deleted counts as a failed
\* request, any other query ends the drain.
QueryFails(d) ==
  LET t == drain[d]
      caught == t.pc = "remove" /\ \A r \in t.rows :
        outbox[r].op # "message_privacy" /\ (outbox[r].op = "message" => t.flags # Nothing) IN
  /\ t.pc \in {"read", "remove", "fail"}
  /\ Fault
  /\ drain' = [drain EXCEPT ![d] = IF caught THEN [t EXCEPT !.pc = "fail"] ELSE NoDrain]
  /\ UNCHANGED <<chat, messages, outbox, lastId, user, remote, unqueued, raced>>

\* The back-off of a row is over.
Due(r) ==
  /\ outbox[r].state = "later"
  /\ outbox' = [outbox EXCEPT ![r].state = "due"]
  /\ UNCHANGED <<chat, messages, lastId, user, drain, remote, unqueued, raced, faults>>

\* The backend stops: drains and requests end where they are. The chat's removal, the
\* truncation and the flag stay as far as they got.
Crash ==
  /\ Fault
  /\ drain' = [d \in Drainers |-> NoDrain]
  /\ user' = NoRequest
  /\ unqueued' = unqueued \cup user.truncated \cup user.flagged
                          \cup (IF chat = "removing" THEN Messages ELSE {})
  /\ chat' = IF chat = "removing" THEN "present" ELSE chat
  /\ UNCHANGED <<messages, outbox, lastId, remote, raced>>

DrainStep(d) ==
  \/ Select(d) \/ Read(d) \/ Send(d) \/ SendFails(d) \/ Remove(d) \/ Fail(d)
  \/ QueryFails(d)

Next ==
  \/ \E m \in Messages :
       \/ \E flag \in Kept : Save(m, flag) \/ WriteFlag(m, flag)
       \/ TruncateFind(m) \/ SetPrivate(m) \/ QueuePrivacy(m)
  \/ TruncateFrom \/ QueueDeletes \/ QueueConversationDelete \/ RemoveChat \/ Crash
  \/ \E d \in Drainers : DrainStep(d)
  \/ \E r \in RowIds : Due(r)

Spec == Init /\ [][Next]_vars

\* A step of a request in progress.
Request ==
  \/ TruncateFrom \/ QueueDeletes
  \/ \E m \in Messages : QueuePrivacy(m) \/ \E flag \in Kept : WriteFlag(m, flag)

\* The interval drains for ever, requests of the user run to their end, back-offs pass:
\* requests and rows are few, so that it is enough that some request, or some row, goes on.
Fairness ==
  /\ \A d \in Drainers : WF_vars(DrainStep(d))
  /\ WF_vars(Request)
  /\ WF_vars(\E r \in RowIds : Due(r))

FairSpec == Spec /\ Fairness

-----------------------------------------------------------------------------
(* Properties *)

Queued(op, m) == \E r \in RowIds : Live(r) /\ outbox[r].op = op /\ outbox[r].m = m

\* What the file says of a deletion ("its deletion row follows"): while the chat exists,
\* a message the user rewound that Recordare still has (or has again, through an ingest
\* that was on its way) has a deletion in the table, unless its enqueue was lost.
RewindReachesRecordare ==
  \A m \in Messages :
    chat = "present" /\ messages[m] = "deleted" /\ remote[m] # "none" /\ m \notin unqueued
      => m \in user.truncated \/ Queued("delete_message", m)

\* The same with any number of drains, but for a message whose ingest and deletion two
\* drains had at the same time: retries, requests whose answer is lost and crashes do
\* not lose a deletion, and neither does a flush that meets the tick otherwise.
DeletionQueued ==
  \A m \in Messages :
    /\ chat = "present" /\ messages[m] = "deleted" /\ remote[m] # "none"
    /\ m \notin unqueued \cup raced
    => m \in user.truncated \/ Queued("delete_message", m)

\* A message of the chat that Recordare does not have has its ingest in the table, unless
\* its enqueue was lost: a request that fails, a crash before the row is removed, or two
\* drains that send it, cost a second request and never the message.
IngestQueued ==
  \A m \in Messages :
    chat = "present" /\ Present(m) /\ remote[m] = "none" /\ m \notin unqueued
      => Queued("message", m)

\* A message whose flag in Recordare differs from its own has a change of privacy in
\* the table, unless its enqueue was lost or two drains sent its flag at the same time.
PrivacyQueued ==
  \A m \in Messages :
    Present(m) /\ remote[m] \in Kept /\ remote[m] # messages[m] /\ m \notin unqueued \cup raced
      => m \in user.flagged \/ Queued("message_privacy", m)

\* Recordare holds message m exactly if the chat does, with its flag, but for what two
\* drains raced for, what was parked or never enqueued (and the chat's own removal).
InStep(m) ==
  \/ m \in unqueued \cup raced \/ chat # "present"
  \/ \E r \in RowIds : outbox[r].state = "parked" /\ outbox[r].m \in {0, m}
  \/ messages[m] \in {"new", "deleted"} /\ remote[m] = "none"
  \/ Present(m) /\ remote[m] = messages[m]

\* Nothing is left to do: no drain, no request, no row to send.
AtRest ==
  /\ \A d \in Drainers : drain[d].pc = "idle"
  /\ user = NoRequest
  /\ \A r \in RowIds : outbox[r].state \in {"parked", "gone"}

\* When the table has nothing left to send, nothing is left to be said: whatever order the
\* changes, retries and crashes came in, what differs was raced for, parked or never
\* enqueued.
RestInStep == AtRest => \A m \in Messages : InStep(m)

\* Once the user is done and the faults are over, Recordare is in step and stays so.
Settles == <>[](\A m \in Messages : InStep(m))
=============================================================================
