------------------------------ MODULE ChatTurns ------------------------------
(***************************************************************************)
(* The turns of one chat: POST .../messages/stream (streamMessage), whose  *)
(* run ChatRunsService keeps apart from the connection that started it,    *)
(* and the chat windows that follow a run they did not start, over the     *)
(* socket's room and by GET .../run.                                       *)
(***************************************************************************)
EXTENDS Naturals, Sequences, SequencesExt, FiniteSets

CONSTANTS
  Requests,  \* POSTs; a request's run has the request's name for runId
  Pages,     \* chat windows that do not send
  MaxInbox,  \* bound: events under way to one page when a run shows progress
  MaxGets,   \* bound: GETs of the run under way to one page with the same answer
  NoRun

ASSUME NoRunAssumption == NoRun \notin Requests

VARIABLES
  run,       \* runs.get(chatId)
  turn,      \* where each request's handler is
  messages,  \* the chat's messages, oldest first
  page       \* what each chat window shows and has under way

turnVars == <<run, turn, messages, page>>

\* "error": a failed turn's reply; "refusal": the same, of a request that never had the run.
Roles == {"question", "answer", "error", "refusal"}
Messages == [of : Requests, role : Roles]
Msg(r, role) == [of |-> r, role |-> role]

\* "titling": the question is saved; "touching": the answer is; "failing": the catch block;
\* "closing": what precedes the finally block and saves nothing.
Places ==
  {"idle", "history", "titling", "agent", "team", "touching", "failing", "closing", "over"}

\* joined: its socket is in the chat's room; inbox: chat_run events under way to it;
\* gets: how many GETs of the run are under way, by their answer; reload: the messages are
\* being read again; view: the requests whose reply it shows.
PageStates ==
  [open : BOOLEAN, joined : BOOLEAN, shown : Requests \cup {NoRun}, ended : SUBSET Requests,
   inbox : Seq(Requests \cup {NoRun}), gets : [Requests \cup {NoRun} -> Nat],
   reload : BOOLEAN, view : SUBSET Requests]

TurnTypeOK ==
  /\ run \in Requests \cup {NoRun}
  /\ turn \in [Requests -> Places]
  /\ messages \in Seq(Messages)
  /\ page \in [Pages -> PageStates]

ClosedPage ==
  [open |-> FALSE, joined |-> FALSE, shown |-> NoRun, ended |-> {}, inbox |-> <<>>,
   gets |-> [got \in Requests \cup {NoRun} |-> 0], reload |-> FALSE, view |-> {}]

TurnInit ==
  /\ run = NoRun
  /\ turn = [r \in Requests |-> "idle"]
  /\ messages = <<>>
  /\ page = [p \in Pages |-> ClosedPage]
--------------------------------------------------------------------------------
\* emitToWatchers: the event goes to the sockets in the room, and to no other.
EmitToWatchers(event) ==
  page' = [p \in Pages |->
    IF page[p].joined THEN [page[p] EXCEPT !.inbox = Append(@, event)] ELSE page[p]]

GoTo(r, place) == turn' = [turn EXCEPT ![r] = place]

Replied == {m.of : m \in {x \in ToSet(messages) : x.role \in {"answer", "error"}}}

\* Mutant: a message is filed under the run in progress.
SaveOfRun(r, role) == messages' = Append(messages, Msg(run, role))

Save(r, role) == messages' = Append(messages, Msg(r, role))

\* finish(): nothing, unless the run is still this one.
Finish(r) ==
  IF run = r THEN run' = NoRun /\ EmitToWatchers(NoRun) ELSE UNCHANGED <<run, page>>

\* Mutant: a new run replaces the one in progress.
PostAnyway(r) ==
  /\ turn[r] = "idle"
  /\ run' = r /\ EmitToWatchers(r)
  /\ GoTo(r, "history")
  /\ UNCHANGED messages

\* streamMessage: the gate, findOneForWrite, fails and the catch block saves the error as a
\* reply, if it can; or it passes, and start() takes the run unless there is one.
Post(r) ==
  /\ turn[r] = "idle"
  /\ \/ /\ GoTo(r, "over")
        /\ Save(r, "refusal") \/ UNCHANGED messages
        /\ UNCHANGED <<run, page>>
     \/ /\ run # NoRun
        /\ GoTo(r, "over")
        /\ UNCHANGED <<run, messages, page>>
     \/ /\ run = NoRun
        /\ run' = r /\ EmitToWatchers(r)
        /\ GoTo(r, "history")
        /\ UNCHANGED messages

\* The history is read and the question saved.
Ask(r) ==
  /\ turn[r] = "history"
  /\ Save(r, "question")
  /\ GoTo(r, "titling")
  /\ UNCHANGED <<run, page>>

\* A new chat has its title from the question; the chat, read at the gate, has a team or not.
Title(r) ==
  /\ turn[r] = "titling"
  /\ \E branch \in {"agent", "team"} : GoTo(r, branch)
  /\ UNCHANGED <<run, messages, page>>

\* Any await may fail: reading the history, saving the question, the title, the agent (which
\* a cancel makes end early), the save, the touch that follows the saved answer. A team's
\* own catch block saves nothing.
Fail(r) ==
  /\ turn[r] \in {"history", "titling", "agent", "team", "touching"}
  /\ GoTo(r, IF turn[r] = "team" THEN "closing" ELSE "failing")
  /\ UNCHANGED <<run, messages, page>>

\* update(), toolDone(), fileReady(): a push of the current run.
Progress(r) ==
  /\ turn[r] \in {"agent", "team"} /\ run = r
  /\ \E p \in Pages : page[p].joined
  /\ \A p \in Pages : Len(page[p].inbox) < MaxInbox
  /\ EmitToWatchers(r)
  /\ UNCHANGED <<run, turn, messages>>

SaveAnswer(r) ==
  /\ turn[r] \in {"agent", "team"}
  /\ Save(r, "answer")
  /\ GoTo(r, IF turn[r] = "team" THEN "closing" ELSE "touching")
  /\ UNCHANGED <<run, page>>

\* The answer is saved and the chat touched: the watchers may reload, before the memory is
\* extracted from the turn.
Touch(r) ==
  /\ turn[r] = "touching"
  /\ Finish(r)
  /\ GoTo(r, "closing")
  /\ UNCHANGED messages

\* The catch block saves the error as a reply, if it can.
Report(r) ==
  /\ turn[r] = "failing"
  /\ Save(r, "error") \/ UNCHANGED messages
  /\ GoTo(r, "closing")
  /\ UNCHANGED <<run, page>>

\* Mutant: the finally block only closes the response.
CloseResponse(r) ==
  /\ turn[r] = "closing"
  /\ GoTo(r, "over")
  /\ UNCHANGED <<run, messages, page>>

Close(r) ==
  /\ turn[r] = "closing"
  /\ Finish(r)
  /\ GoTo(r, "over")
  /\ UNCHANGED messages

\* The process dies with runs, handlers and rooms; nothing is emitted.
RunsLost ==
  /\ \E r \in Requests : turn[r] \notin {"idle", "over"}
  /\ run' = NoRun
  /\ turn' = [r \in Requests |-> IF turn[r] = "idle" THEN "idle" ELSE "over"]
  /\ page' = [p \in Pages |->
       [page[p] EXCEPT !.joined = FALSE, !.inbox = <<>>]]
  /\ UNCHANGED messages
--------------------------------------------------------------------------------
\* A chat window: ChatWindow's effect, and chatRuns.ts for its socket.

Update(p, new) == page' = [page EXCEPT ![p] = new] /\ UNCHANGED <<run, turn, messages>>

OpenPage(p) ==
  /\ ~page[p].open
  /\ Update(p, [page[p] EXCEPT !.open = TRUE, !.view = Replied])

\* watch(), on opening and on every connection of the socket.
Join(p) ==
  /\ page[p].open /\ ~page[p].joined
  /\ Update(p, [page[p] EXCEPT !.joined = TRUE])

\* The connection drops: the room and the events under way are lost.
DropSocket(p) ==
  /\ page[p].joined
  /\ Update(p, [page[p] EXCEPT !.joined = FALSE, !.inbox = <<>>])

\* Mutant: the end of a run is news only to a window that shows it.
EventIfShown(p) ==
  /\ page[p].inbox # <<>>
  /\ LET event == Head(page[p].inbox)
         rest  == [page[p] EXCEPT !.inbox = Tail(@)]
     IN \/ /\ event # NoRun
           /\ Update(p, [rest EXCEPT !.shown = IF event \in rest.ended THEN @ ELSE event])
        \/ /\ event = NoRun
           /\ Update(p, IF rest.shown = NoRun THEN rest
                        ELSE [rest EXCEPT !.ended = @ \cup {rest.shown},
                                          !.shown = NoRun, !.reload = TRUE])

\* The callback of watchChatRun.
Event(p) ==
  /\ page[p].inbox # <<>>
  /\ LET event == Head(page[p].inbox)
         rest  == [page[p] EXCEPT !.inbox = Tail(@)]
     IN \/ /\ event # NoRun
           /\ Update(p, [rest EXCEPT !.shown = IF event \in rest.ended THEN @ ELSE event])
        \/ /\ event = NoRun
           /\ Update(p, [rest EXCEPT !.ended = @ \cup ({rest.shown} \ {NoRun}),
                                     !.shown = NoRun, !.reload = TRUE])

\* read(), once at opening and then at every interval, whatever became of the ones before:
\* GET .../run is answered with the run of that moment.
Poll(p) ==
  /\ page[p].open /\ page[p].gets[run] < MaxGets
  /\ Update(p, [page[p] EXCEPT !.gets[run] = @ + 1])

\* Mutant: an answer without a run is ignored.
TakeRun(p) ==
  \E got \in Requests \cup {NoRun} :
    /\ page[p].gets[got] > 0
    /\ LET rest == [page[p] EXCEPT !.gets[got] = @ - 1]
       IN Update(p, IF got \in rest.ended \cup {NoRun} THEN rest ELSE [rest EXCEPT !.shown = got])

\* One of the answers under way arrives, in any order.
TakeGet(p) ==
  \E got \in Requests \cup {NoRun} :
    /\ page[p].gets[got] > 0
    /\ LET rest == [page[p] EXCEPT !.gets[got] = @ - 1]
       IN Update(p, IF got \in rest.ended THEN rest
                    ELSE [rest EXCEPT !.shown = got,
                                      !.reload = @ \/ (got = NoRun /\ rest.shown # NoRun)])

\* The GET fails, which the window ignores.
FailGet(p) ==
  \E got \in Requests \cup {NoRun} :
    /\ page[p].gets[got] > 0
    /\ Update(p, [page[p] EXCEPT !.gets[got] = @ - 1])

Reload(p) ==
  /\ page[p].reload
  /\ Update(p, [page[p] EXCEPT !.reload = FALSE, !.view = Replied])

Step(r) ==
  \/ Ask(r) \/ Title(r) \/ Fail(r) \/ SaveAnswer(r) \/ Touch(r) \/ Report(r) \/ Close(r)

PageStep(p) ==
  \/ OpenPage(p) \/ Join(p) \/ DropSocket(p) \/ Event(p)
  \/ Poll(p) \/ TakeGet(p) \/ FailGet(p) \/ Reload(p)

TurnNext ==
  \/ \E r \in Requests : Post(r) \/ Step(r) \/ Progress(r)
  \/ \E p \in Pages : PageStep(p)
  \/ RunsLost

\* The socket delivers while it lives, the interval fires, and not every GET fails.
PageFairness ==
  \A p \in Pages :
    /\ WF_turnVars(Event(p)) /\ WF_turnVars(Reload(p))
    /\ WF_turnVars(Poll(p)) /\ SF_turnVars(TakeGet(p))

\* A handler's awaits settle: the agent's steps are limited and its calls time out.
TurnFairness == PageFairness /\ \A r \in Requests : WF_turnVars(Step(r))

TurnSpec == TurnInit /\ [][TurnNext]_turnVars /\ TurnFairness
--------------------------------------------------------------------------------
\* "Two at once would interleave their answers in the same history": between a run's
\* question and its reply stands no message of another run of streamMessage. Only the
\* refusal of a request that never had the run may. (What automations, external channels
\* and initiatives write into a chat takes no run, and is not in the model.)
NoInterleaving ==
  \A i, j, k \in DOMAIN messages :
    /\ i < j /\ j < k
    /\ messages[i].of = messages[k].of
    /\ messages[i].role = "question"
    => messages[j].of = messages[i].of \/ messages[j].role = "refusal"

\* A chat is busy only while the handler of its run is there to give it up.
BusyHasHandler ==
  run # NoRun => turn[run] \in {"history", "titling", "agent", "team", "touching", "failing", "closing"}

\* Whatever fails, a chat does not stay busy: every run that starts is given up.
ChatFreed == []<>(run = NoRun)

\* A window does not go on showing a run that is over, even if its socket missed the end and
\* a GET is answered late.
PageFollows == \A p \in Pages : []<>(page[p].shown \in {NoRun, run})

\* A window that stops showing a run shows the reply that the run saved, if its socket held.
AnswerShown ==
  \A r \in Requests, p \in Pages :
    page[p].shown = r ~> \/ page[p].shown # r /\ turn[r] = "over" /\ (r \in Replied => r \in page[p].view)
                         \/ ~page[p].joined
==============================================================================
