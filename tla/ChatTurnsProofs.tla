---------------------------- MODULE ChatTurnsProofs ----------------------------
(***************************************************************************)
(* Proofs about ChatTurns: type correctness, and that a chat's history     *)
(* never interleaves two runs, for any requests and windows.               *)
(***************************************************************************)
EXTENDS ChatTurns, TLAPS

\* A handler at one of these places has the run, and one that has the run is there or about
\* to give it up.
Holding == {"history", "titling", "agent", "team", "touching", "failing"}

RunInv ==
  /\ \A r \in Requests : turn[r] \in Holding => run = r
  /\ \A r \in Requests : run = r => turn[r] \in Holding \cup {"closing"}

\* A request that has not asked has no message; after the question of the run in progress
\* come its own messages and refusals only.
HistoryInv ==
  /\ \A r \in Requests : turn[r] \in {"idle", "history"} =>
       \A i \in 1..Len(messages) : messages[i].of # r
  /\ \A i, j \in 1..Len(messages) :
       i < j /\ messages[i].role = "question" /\ messages[i].of = run
         => messages[j].of = run \/ messages[j].role = "refusal"

TurnInv == TurnTypeOK /\ RunInv /\ HistoryInv /\ NoInterleaving
--------------------------------------------------------------------------------
LEMMA EmitType ==
  ASSUME TurnTypeOK, NEW event \in Requests \cup {NoRun}, EmitToWatchers(event)
  PROVE  page' \in [Pages -> PageStates]
<1>1. SUFFICES ASSUME NEW p \in Pages
               PROVE  [page[p] EXCEPT !.inbox = Append(@, event)] \in PageStates
  BY DEF EmitToWatchers, TurnTypeOK
<1>2. page[p] \in PageStates
  BY DEF TurnTypeOK
<1>3. page[p].inbox \in Seq(Requests \cup {NoRun})
  BY <1>2 DEF PageStates
<1>4. Append(page[p].inbox, event) \in Seq(Requests \cup {NoRun})
  BY <1>3
<1>. QED
  BY <1>2, <1>4 DEF PageStates

LEMMA FinishType ==
  ASSUME TurnTypeOK, NEW r \in Requests, Finish(r)
  PROVE  page' \in [Pages -> PageStates] /\ run' \in {run, NoRun}
<1>1. CASE run = r
  BY <1>1, EmitType DEF Finish
<1>2. CASE run # r
  BY <1>2 DEF Finish, TurnTypeOK
<1>. QED
  BY <1>1, <1>2

LEMMA GoToType ==
  ASSUME TurnTypeOK, NEW r \in Requests, NEW place \in Places, GoTo(r, place)
  PROVE  /\ turn' \in [Requests -> Places]
         /\ turn'[r] = place
         /\ \A q \in Requests \ {r} : turn'[q] = turn[q]
BY DEF GoTo, TurnTypeOK

LEMMA SaveType ==
  ASSUME TurnTypeOK, NEW r \in Requests, NEW role \in Roles, Save(r, role)
  PROVE  /\ messages' \in Seq(Messages)
         /\ Len(messages') = Len(messages) + 1
         /\ messages'[Len(messages) + 1] = Msg(r, role)
         /\ \A i \in 1..Len(messages) : messages'[i] = messages[i]
<1>1. Msg(r, role) \in Messages
  BY DEF Msg, Messages
<1>2. messages \in Seq(Messages)
  BY DEF TurnTypeOK
<1>. QED
  BY <1>1, <1>2 DEF Save

\* The steps of a window leave the chat alone, and its record stays one.
LEMMA WindowType ==
  ASSUME TurnTypeOK, NEW p \in Pages, PageStep(p)
  PROVE  page' \in [Pages -> PageStates] /\ UNCHANGED <<run, turn, messages>>
<1>1. page[p] \in PageStates /\ run \in Requests \cup {NoRun}
  BY DEF TurnTypeOK
<1>2. Replied \subseteq Requests
  <2>1. messages \in Seq(Messages)
    BY DEF TurnTypeOK
  <2>2. \A i \in DOMAIN messages : messages[i] \in Messages
    BY <2>1
  <2>. QED
    BY <2>2 DEF Replied, Messages, ToSet
<1>3. ASSUME NEW new \in PageStates, Update(p, new)
      PROVE  page' \in [Pages -> PageStates] /\ UNCHANGED <<run, turn, messages>>
  BY <1>3 DEF Update, TurnTypeOK
<1>4. CASE OpenPage(p)
  <2>1. [page[p] EXCEPT !.open = TRUE, !.view = Replied] \in PageStates
    BY <1>1, <1>2 DEF PageStates
  <2>. QED
    BY <1>4, <2>1, <1>3 DEF OpenPage
<1>5. CASE Join(p)
  <2>1. [page[p] EXCEPT !.joined = TRUE] \in PageStates
    BY <1>1 DEF PageStates
  <2>. QED
    BY <1>5, <2>1, <1>3 DEF Join
<1>6. CASE DropSocket(p)
  <2>1. [page[p] EXCEPT !.joined = FALSE, !.inbox = <<>>] \in PageStates
    <3>1. <<>> \in Seq(Requests \cup {NoRun})
      OBVIOUS
    <3>. QED
      BY <1>1, <3>1 DEF PageStates
  <2>. QED
    BY <1>6, <2>1, <1>3 DEF DropSocket
<1>7. CASE Event(p)
  <2>. DEFINE event == Head(page[p].inbox)
              rest  == [page[p] EXCEPT !.inbox = Tail(@)]
  <2>1. page[p].inbox \in Seq(Requests \cup {NoRun}) /\ page[p].inbox # <<>>
    BY <1>1, <1>7 DEF PageStates, Event
  <2>2. event \in Requests \cup {NoRun} /\ Tail(page[p].inbox) \in Seq(Requests \cup {NoRun})
    BY <2>1
  <2>3. rest \in PageStates
    BY <1>1, <2>2 DEF PageStates
  <2>4. event # NoRun =>
          [rest EXCEPT !.shown = IF event \in rest.ended THEN @ ELSE event] \in PageStates
    <3>. HIDE DEF rest, event
    <3>. QED  BY <2>2, <2>3 DEF PageStates
  <2>5. [rest EXCEPT !.ended = @ \cup ({rest.shown} \ {NoRun}),
                     !.shown = NoRun, !.reload = TRUE] \in PageStates
    <3>. HIDE DEF rest
    <3>. QED  BY <2>3 DEF PageStates
  <2>. QED
    BY <1>7, <2>4, <2>5, <1>3 DEF Event
<1>8. CASE Poll(p)
  <2>1. [page[p].gets EXCEPT ![run] = @ + 1] \in [Requests \cup {NoRun} -> Nat]
    BY <1>1 DEF PageStates
  <2>2. [page[p] EXCEPT !.gets[run] = @ + 1] \in PageStates
    BY <1>1, <2>1 DEF PageStates
  <2>. QED
    BY <1>8, <2>2, <1>3 DEF Poll
<1>9. ASSUME NEW got \in Requests \cup {NoRun}, page[p].gets[got] > 0
      PROVE  [page[p] EXCEPT !.gets[got] = @ - 1] \in PageStates
  <2>1. [page[p].gets EXCEPT ![got] = @ - 1] \in [Requests \cup {NoRun} -> Nat]
    BY <1>1, <1>9 DEF PageStates
  <2>. QED
    BY <1>1, <2>1 DEF PageStates
<1>11. CASE TakeGet(p)
  <2>1. PICK got \in Requests \cup {NoRun} :
          /\ page[p].gets[got] > 0
          /\ LET rest == [page[p] EXCEPT !.gets[got] = @ - 1]
             IN Update(p, IF got \in rest.ended THEN rest
                          ELSE [rest EXCEPT !.shown = got,
                                            !.reload = @ \/ (got = NoRun /\ rest.shown # NoRun)])
    BY <1>11 DEF TakeGet
  <2>. DEFINE rest == [page[p] EXCEPT !.gets[got] = @ - 1]
  <2>2. rest \in PageStates
    BY <2>1, <1>9
  <2>3. [rest EXCEPT !.shown = got,
                     !.reload = @ \/ (got = NoRun /\ rest.shown # NoRun)] \in PageStates
    <3>. HIDE DEF rest
    <3>. QED  BY <2>2 DEF PageStates
  <2>. QED
    BY <2>1, <2>2, <2>3, <1>3
<1>12. CASE FailGet(p)
  BY <1>12, <1>9, <1>3 DEF FailGet
<1>10. CASE Reload(p)
  <2>1. [page[p] EXCEPT !.reload = FALSE, !.view = Replied] \in PageStates
    BY <1>1, <1>2 DEF PageStates
  <2>. QED
    BY <1>10, <2>1, <1>3 DEF Reload
<1>. QED
  BY <1>4, <1>5, <1>6, <1>7, <1>8, <1>10, <1>11, <1>12 DEF PageStep
--------------------------------------------------------------------------------
\* A step that leaves the messages keeps the history in order, when a request that takes
\* the run, or has yet to ask, had yet to ask before.
LEMMA SameHistory ==
  ASSUME TurnInv, UNCHANGED messages,
         run' \in {run, NoRun} \/ (run' \in Requests /\ turn[run'] = "idle"),
         \A r \in Requests : turn'[r] \in {"idle", "history"} => turn[r] \in {"idle", "history"}
  PROVE  HistoryInv' /\ NoInterleaving'
<1>1. messages \in Seq(Messages) /\ messages' = messages
  BY DEF TurnInv, TurnTypeOK
<1>2. NoInterleaving'
  BY <1>1 DEF TurnInv, NoInterleaving
<1>3. \A i \in 1..Len(messages) : messages[i].of \in Requests
  <2>1. \A i \in 1..Len(messages) : messages[i] \in Messages
    BY <1>1
  <2>. QED
    BY <2>1 DEF Messages
<1>4. ASSUME NEW i \in 1..Len(messages), messages[i].of = run'
      PROVE  run' = run
  BY <1>3, <1>4, NoRunAssumption DEF TurnInv, HistoryInv
<1>. QED
  BY <1>1, <1>2, <1>4 DEF TurnInv, HistoryInv

\* A message saved by the run's holder, or a refusal, keeps the history in order.
LEMMA NewMessage ==
  ASSUME TurnInv, NEW r \in Requests, NEW role \in Roles, Save(r, role), run' = run,
         turn'[r] \notin {"idle", "history"},
         \A q \in Requests \ {r} : turn'[q] = turn[q],
         \/ run = r
         \/ role = "refusal" /\ turn[r] = "idle",
         role = "question" => turn[r] = "history"
  PROVE  HistoryInv' /\ NoInterleaving'
<1>. DEFINE n == Len(messages) + 1
<1>1. /\ messages \in Seq(Messages) /\ messages' \in Seq(Messages) /\ Len(messages') = n
      /\ messages'[n] = Msg(r, role)
      /\ \A i \in 1..Len(messages) : messages'[i] = messages[i]
  <2>1. TurnTypeOK
    BY DEF TurnInv
  <2>2. messages \in Seq(Messages)
    BY <2>1 DEF TurnTypeOK
  <2>. QED
    BY <2>1, <2>2, SaveType
<1>2. Len(messages) \in Nat
  BY <1>1
<1>3. messages'[n].of = r /\ messages'[n].role = role
  BY <1>1 DEF Msg
<1>4. \A q \in Requests : turn'[q] \in {"idle", "history"} =>
        \A i \in 1..Len(messages') : messages'[i].of # q
  <2>1. SUFFICES ASSUME NEW q \in Requests, turn'[q] \in {"idle", "history"},
                        NEW i \in 1..n
                 PROVE  messages'[i].of # q
    BY <1>1
  <2>2. q # r /\ turn[q] \in {"idle", "history"}
    BY <2>1
  <2>3. CASE i = n
    BY <2>2, <2>3, <1>3
  <2>4. CASE i # n
    <3>1. i \in 1..Len(messages)
      BY <2>1, <2>4, <1>2
    <3>. QED
      BY <3>1, <1>1, <2>2 DEF TurnInv, HistoryInv
  <2>. QED
    BY <2>3, <2>4
<1>5. \A i, j \in 1..Len(messages') :
        i < j /\ messages'[i].role = "question" /\ messages'[i].of = run'
          => messages'[j].of = run' \/ messages'[j].role = "refusal"
  <2>1. SUFFICES ASSUME NEW i \in 1..n, NEW j \in 1..n, i < j,
                        messages'[i].role = "question", messages'[i].of = run
                 PROVE  messages'[j].of = run \/ messages'[j].role = "refusal"
    BY <1>1
  <2>2. i \in 1..Len(messages)
    BY <2>1, <1>2
  <2>3. CASE j = n
    BY <2>3, <1>3
  <2>4. CASE j # n
    <3>1. j \in 1..Len(messages)
      BY <2>1, <2>4, <1>2
    <3>. QED
      BY <3>1, <2>1, <2>2, <1>1 DEF TurnInv, HistoryInv
  <2>. QED
    BY <2>3, <2>4
<1>6. NoInterleaving'
  <2>1. SUFFICES ASSUME NEW i \in 1..n, NEW j \in 1..n, NEW k \in 1..n, i < j, j < k,
                        messages'[i].of = messages'[k].of, messages'[i].role = "question"
                 PROVE  messages'[j].of = messages'[i].of \/ messages'[j].role = "refusal"
    BY <1>1 DEF NoInterleaving
  <2>2. /\ i \in 1..Len(messages) /\ messages'[i] = messages[i]
        /\ j \in 1..Len(messages) /\ messages'[j] = messages[j]
    BY <2>1, <1>1, <1>2
  <2>3. CASE k = n
    <3>1. messages[i].of = r
      BY <2>1, <2>2, <2>3, <1>3
    <3>2. turn[r] # "idle"
      BY <3>1, <2>2 DEF TurnInv, HistoryInv
    <3>. QED
      BY <2>1, <2>2, <3>1, <3>2 DEF TurnInv, HistoryInv
  <2>4. CASE k # n
    <3>1. k \in 1..Len(messages) /\ messages'[k] = messages[k]
      BY <2>1, <2>4, <1>1, <1>2
    <3>. QED
      BY <3>1, <2>1, <2>2, <1>1 DEF TurnInv, NoInterleaving
  <2>. QED
    BY <2>3, <2>4
<1>. QED
  BY <1>4, <1>5, <1>6 DEF HistoryInv
--------------------------------------------------------------------------------
LEMMA TurnInitInv == TurnInit => TurnInv
<1>. SUFFICES ASSUME TurnInit PROVE TurnInv
  OBVIOUS
<1>1. ClosedPage \in PageStates
  BY DEF ClosedPage, PageStates
<1>2. TurnTypeOK
  BY <1>1 DEF TurnInit, TurnTypeOK, Places
<1>3. RunInv
  BY NoRunAssumption DEF TurnInit, RunInv, Holding
<1>4. HistoryInv /\ NoInterleaving
  BY DEF TurnInit, HistoryInv, NoInterleaving
<1>. QED
  BY <1>2, <1>3, <1>4 DEF TurnInv

LEMMA TurnNextInv == TurnInv /\ [TurnNext]_turnVars => TurnInv'
<1>. SUFFICES ASSUME TurnInv, [TurnNext]_turnVars PROVE TurnInv'
  OBVIOUS
<1>0. TurnTypeOK /\ RunInv /\ NoRun \notin Requests
  BY NoRunAssumption DEF TurnInv
<1>t. /\ run \in Requests \cup {NoRun} /\ turn \in [Requests -> Places]
      /\ messages \in Seq(Messages) /\ page \in [Pages -> PageStates]
  BY <1>0 DEF TurnTypeOK
<1>1. ASSUME NEW r \in Requests, Post(r) PROVE TurnInv'
  <2>0. turn[r] = "idle" /\ run # r
    BY <1>1, <1>0, <1>t DEF Post, RunInv, Holding
  <2>1. CASE GoTo(r, "over") /\ Save(r, "refusal") /\ UNCHANGED <<run, page>>
    <3>1. /\ turn' \in [Requests -> Places] /\ turn'[r] = "over"
          /\ \A q \in Requests \ {r} : turn'[q] = turn[q]
      BY <2>1, <1>0, GoToType DEF Places
    <3>2. messages' \in Seq(Messages)
      BY <2>1, <1>0, SaveType DEF Roles
    <3>3. HistoryInv' /\ NoInterleaving'
      BY <2>0, <2>1, <3>1, NewMessage DEF Roles
    <3>4. RunInv'
      BY <2>0, <2>1, <3>1, <1>0 DEF RunInv, Holding
    <3>. QED
      BY <2>1, <3>1, <3>2, <3>3, <3>4, <1>t DEF TurnInv, TurnTypeOK
  <2>2. CASE GoTo(r, "over") /\ UNCHANGED <<run, messages, page>>
    <3>1. /\ turn' \in [Requests -> Places] /\ turn'[r] = "over"
          /\ \A q \in Requests \ {r} : turn'[q] = turn[q]
      BY <2>2, <1>0, GoToType DEF Places
    <3>2. HistoryInv' /\ NoInterleaving'
      <4>1. \A q \in Requests : turn'[q] \in {"idle", "history"} => turn[q] \in {"idle", "history"}
        BY <3>1
      <4>. QED
        BY <2>2, <4>1, SameHistory
    <3>3. RunInv'
      BY <2>0, <2>2, <3>1, <1>0 DEF RunInv, Holding
    <3>. QED
      BY <2>2, <3>1, <3>2, <3>3, <1>t DEF TurnInv, TurnTypeOK
  <2>3. CASE run = NoRun /\ run' = r /\ EmitToWatchers(r) /\ GoTo(r, "history") /\ UNCHANGED messages
    <3>1. /\ turn' \in [Requests -> Places] /\ turn'[r] = "history"
          /\ \A q \in Requests \ {r} : turn'[q] = turn[q]
      BY <2>3, <1>0, GoToType DEF Places
    <3>2. HistoryInv' /\ NoInterleaving'
      <4>1. \A q \in Requests : turn'[q] \in {"idle", "history"} => turn[q] \in {"idle", "history"}
        BY <3>1, <2>0
      <4>. QED
        BY <2>3, <2>0, <4>1, SameHistory
    <3>3. RunInv'
      BY <2>3, <3>1, <1>0 DEF RunInv, Holding
    <3>4. page' \in [Pages -> PageStates]
      BY <2>3, <1>0, EmitType
    <3>. QED
      BY <2>3, <3>1, <3>2, <3>3, <3>4, <1>t DEF TurnInv, TurnTypeOK
  <2>. QED
    BY <1>1, <2>1, <2>2, <2>3 DEF Post
\* A step of a handler that goes on, saves nothing, and keeps the run.
<1>2. ASSUME NEW r \in Requests, NEW place \in Places, GoTo(r, place),
             turn[r] \in Holding, UNCHANGED <<run, messages, page>>,
             place \in {"agent", "team", "failing", "closing"}
      PROVE  TurnInv'
  <2>1. /\ turn' \in [Requests -> Places] /\ turn'[r] = place
        /\ \A q \in Requests \ {r} : turn'[q] = turn[q]
    BY <1>2, <1>0, GoToType
  <2>2. \A q \in Requests : turn'[q] \in {"idle", "history"} => turn[q] \in {"idle", "history"}
    BY <1>2, <2>1
  <2>3. HistoryInv' /\ NoInterleaving'
    BY <1>2, <2>2, SameHistory
  <2>4. RunInv'
    BY <1>2, <2>1, <1>0 DEF RunInv, Holding
  <2>. QED
    BY <1>2, <2>1, <2>3, <2>4, <1>t DEF TurnInv, TurnTypeOK
\* A step of the run's holder that saves a message.
<1>3. ASSUME NEW r \in Requests, NEW role \in Roles \ {"refusal"}, NEW place \in Places,
             Save(r, role), GoTo(r, place), turn[r] \in Holding, UNCHANGED <<run, page>>,
             place \in {"titling", "touching", "closing"},
             role = "question" => turn[r] = "history"
      PROVE  TurnInv'
  <2>1. /\ turn' \in [Requests -> Places] /\ turn'[r] = place
        /\ \A q \in Requests \ {r} : turn'[q] = turn[q]
    BY <1>3, <1>0, GoToType
  <2>2. run = r /\ messages' \in Seq(Messages)
    BY <1>3, <1>0, SaveType DEF RunInv
  <2>3. turn'[r] \notin {"idle", "history"}
    BY <1>3, <2>1
  <2>4. HistoryInv' /\ NoInterleaving'
    BY <1>3, <2>1, <2>2, <2>3, NewMessage
  <2>5. RunInv'
    BY <1>3, <2>1, <2>2, <1>0 DEF RunInv, Holding
  <2>. QED
    BY <1>3, <2>1, <2>2, <2>4, <2>5, <1>t DEF TurnInv, TurnTypeOK
\* A step that gives the run up, if the handler has it.
<1>4. ASSUME NEW r \in Requests, NEW place \in Places, GoTo(r, place), Finish(r),
             turn[r] \in {"touching", "closing"}, place \in {"closing", "over"}, UNCHANGED messages
      PROVE  TurnInv'
  <2>1. /\ turn' \in [Requests -> Places] /\ turn'[r] = place
        /\ \A q \in Requests \ {r} : turn'[q] = turn[q]
    BY <1>4, <1>0, GoToType
  <2>2. page' \in [Pages -> PageStates] /\ run' \in {run, NoRun} /\ run' # r
    BY <1>4, <1>0, FinishType DEF Finish
  <2>3. \A q \in Requests : turn'[q] \in {"idle", "history"} => turn[q] \in {"idle", "history"}
    BY <1>4, <2>1
  <2>4. HistoryInv' /\ NoInterleaving'
    BY <1>4, <2>2, <2>3, SameHistory
  <2>5. RunInv'
    <3>1. \A q \in Requests \ {r} : turn[q] \in Holding => run' = q
      BY <1>4, <1>0 DEF RunInv, Finish
    <3>. QED
      BY <1>4, <2>1, <2>2, <3>1, <1>0 DEF RunInv, Holding
  <2>. QED
    BY <1>4, <2>1, <2>2, <2>4, <2>5, <1>t DEF TurnInv, TurnTypeOK
<1>5. ASSUME NEW r \in Requests, Step(r) PROVE TurnInv'
  <2>1. CASE Ask(r)
    BY <2>1, <1>3 DEF Ask, Holding, Roles, Places
  <2>7. CASE Title(r)
    BY <2>7, <1>2 DEF Title, Holding, Places
  <2>2. CASE Fail(r)
    BY <2>2, <1>2 DEF Fail, Holding, Places
  <2>3. CASE SaveAnswer(r)
    BY <2>3, <1>3 DEF SaveAnswer, Holding, Roles, Places
  <2>4. CASE Touch(r)
    BY <2>4, <1>4 DEF Touch, Places
  <2>5. CASE Report(r)
    <3>1. CASE Save(r, "error")
      BY <2>5, <3>1, <1>3 DEF Report, Holding, Roles, Places
    <3>2. CASE UNCHANGED messages
      BY <2>5, <3>2, <1>2 DEF Report, Holding, Places
    <3>. QED
      BY <2>5, <3>1, <3>2 DEF Report
  <2>6. CASE Close(r)
    BY <2>6, <1>4 DEF Close, Places
  <2>. QED
    BY <1>5, <2>1, <2>2, <2>3, <2>4, <2>5, <2>6, <2>7 DEF Step
\* A step that moves nothing but the windows.
<1>6. ASSUME UNCHANGED <<run, turn, messages>>, page' \in [Pages -> PageStates]
      PROVE  TurnInv'
  <2>1. HistoryInv' /\ NoInterleaving'
    BY <1>6, SameHistory
  <2>. QED
    BY <1>6, <2>1, <1>0 DEF TurnInv, TurnTypeOK, RunInv
<1>7. ASSUME NEW r \in Requests, Progress(r) PROVE TurnInv'
  BY <1>7, <1>6, <1>0, EmitType DEF Progress
<1>8. ASSUME NEW p \in Pages, PageStep(p) PROVE TurnInv'
  BY <1>8, <1>6, <1>0, WindowType
<1>9. CASE RunsLost
  <2>1. turn' \in [Requests -> Places] /\ \A q \in Requests : turn'[q] \in {"idle", "over"}
    BY <1>9 DEF RunsLost, Places
  <2>2. \A q \in Requests : turn'[q] \in {"idle", "history"} => turn[q] \in {"idle", "history"}
    BY <1>9 DEF RunsLost
  <2>3. HistoryInv' /\ NoInterleaving'
    BY <1>9, <2>2, SameHistory DEF RunsLost
  <2>4. RunInv'
    BY <1>9, <2>1, <1>0 DEF RunInv, Holding, RunsLost
  <2>5. page' \in [Pages -> PageStates]
    <3>1. SUFFICES ASSUME NEW p \in Pages
                   PROVE  [page[p] EXCEPT !.joined = FALSE, !.inbox = <<>>] \in PageStates
      BY <1>9 DEF RunsLost
    <3>2. page[p] \in PageStates
      BY <1>t
    <3>3. <<>> \in Seq(Requests \cup {NoRun})
      OBVIOUS
    <3>. QED
      BY <3>2, <3>3 DEF PageStates
  <2>. QED
    BY <1>9, <2>1, <2>3, <2>4, <2>5 DEF TurnInv, TurnTypeOK, RunsLost
<1>10. CASE UNCHANGED turnVars
  BY <1>10, <1>6, <1>t DEF turnVars
<1>. QED
  BY <1>1, <1>5, <1>7, <1>8, <1>9, <1>10 DEF TurnNext

\* Every variable keeps its type: the places of streamMessage, the messages, the windows.
THEOREM TurnTypeCorrect == TurnSpec => []TurnTypeOK
<1>1. TurnInv => TurnTypeOK
  BY DEF TurnInv
<1>. QED
  BY <1>1, TurnInitInv, TurnNextInv, PTL DEF TurnSpec

\* One run per chat keeps the history in order, through failures, cancels and restarts: from
\* a run's question to its reply no other run speaks.
THEOREM HistoryInOrder == TurnSpec => []NoInterleaving
<1>1. TurnInv => NoInterleaving
  BY DEF TurnInv
<1>. QED
  BY <1>1, TurnInitInv, TurnNextInv, PTL DEF TurnSpec

\* A busy chat has a handler that is on its way to giving the run up: no failure, cancel or
\* restart leaves a run that nobody holds. The safety part of ChatFreed.
THEOREM BusyIsHandled == TurnSpec => []BusyHasHandler
<1>1. TurnInv => BusyHasHandler
  BY DEF TurnInv, TurnTypeOK, RunInv, Holding, BusyHasHandler
<1>. QED
  BY <1>1, TurnInitInv, TurnNextInv, PTL DEF TurnSpec
================================================================================
