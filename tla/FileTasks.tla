----------------------------- MODULE FileTasks ------------------------------
(***************************************************************************)
(* The admission of file tasks (transfer_task.rs).  Each end has a handle, *)
(* called by the user interface and by the loop that receives messages,    *)
(* and a worker that runs one task after the other.  They share a few      *)
(* words of memory and two queues of two places.  The controller's user    *)
(* starts and retries tasks, asks the host to choose a file to send, and   *)
(* cancels; the host's user answers dialogs.  A task's body, from the      *)
(* receiver's consent to the result, is one exchange (FileEntry has the    *)
(* rest).  Session ends, pauses and capabilities are left out.             *)
(***************************************************************************)
EXTENDS Naturals, Sequences

CONSTANTS
  Tasks,     \* the ids of the tasks, 1..n
  Requests,  \* the ids of the controller's requests, 1..n
  Capacity,  \* COMMAND_CAPACITY, and the capacity of the outgoing queue
  Transit,   \* messages under way in one direction
  Clicks     \* what the controller's user does

VARIABLES
  handle,    \* per end, Shared and its queues
  worker,    \* per end, what its worker does
  transit,   \* per end, what it sent and the peer's loop has not taken
  stored,    \* per end and task, the task's record: none, source, receive
  gaveUp,    \* history: the tasks the user cancelled and did not retry since
  withdrawn, \* history: the requests the user cancelled
  clicks     \* what the user may still do

vars == <<handle, worker, transit, stored, gaveUp, withdrawn, clicks>>

Ends == {"controller", "host"}
Other(e) == IF e = "controller" THEN "host" ELSE "controller"
None == 0

Rest == [pc |-> "idle", task |-> None, request |-> None, selecting |-> FALSE,
         responding |-> FALSE, ok |-> FALSE, current |-> None]
Init ==
  /\ handle = [e \in Ends |->
       [active |-> None, cancelled |-> FALSE, halfCancelled |-> FALSE,
        pendingRequest |-> None, activeRequest |-> None,
        selectorRequest |-> None, cancelledSelection |-> None,
        pendingRetry |-> None, cancelledRetry |-> None,
        commands |-> <<>>, control |-> None, outgoing |-> <<>>]]
  /\ worker = [e \in Ends |-> Rest]
  /\ transit = [e \in Ends |-> <<>>]
  /\ stored = [e \in Ends |-> [t \in Tasks |-> "none"]]
  /\ gaveUp = {} /\ withdrawn = {} /\ clicks = Clicks

\* A command or a message.
Item(kind, task, request, ok) ==
  [kind |-> kind, task |-> task, request |-> request, ok |-> ok]

Action(task) == Item("action", task, None, FALSE)
DecisionOn(task, ok) == Item("decision", task, None, ok)
SelectionResult(request) == Item("selectionResult", None, request, FALSE)
RetryResult(task) == Item("retryResult", task, None, FALSE)

-----------------------------------------------------------------------------
(* The handle: functions of its state s.                                   *)

Full(queue) == Len(queue) = Capacity
Enqueue(s, c) == [s EXCEPT !.commands = Append(@, c)]
TrySend(s, m) == IF Full(s.outgoing) THEN s ELSE [s EXCEPT !.outgoing = Append(@, m)]

IsBusy(s) ==
  s.active # None \/ s.pendingRequest # None \/ s.selectorRequest # None
    \/ s.pendingRetry # None

Admit(s, c) ==
  IF IsBusy(s) THEN s
  ELSE LET clear == [s EXCEPT !.cancelled = FALSE, !.activeRequest = None]
       IN IF Full(s.commands) THEN clear
          ELSE Enqueue([clear EXCEPT !.active = c.task], c)

\* action(task, Cancel)
CancelTask(s, task) ==
  IF s.active = task
  THEN [s EXCEPT !.cancelled = TRUE, !.control = task]
  ELSE IF s.active # None THEN s
  ELSE Admit(IF s.pendingRetry = task
             THEN [s EXCEPT !.pendingRetry = None, !.cancelledRetry = task, !.control = task]
             ELSE s,
             Item("cancelStored", task, None, FALSE))

RequestRemote(s, request) ==
  [s EXCEPT !.pendingRequest = request,
            !.outgoing = Append(@, Item("selectionRequest", None, request, FALSE))]

\* The request is withdrawn, or the task that answered it is cancelled.
CancelRemote(s) ==
  IF s.pendingRequest = None
  THEN IF s.activeRequest # None /\ s.active # None
       THEN [s EXCEPT !.cancelled = TRUE, !.control = s.active] ELSE s
  ELSE IF Full(s.outgoing) THEN s
  ELSE [s EXCEPT !.pendingRequest = None,
                 !.outgoing = Append(@, Item("selectionCancel", None, s.pendingRequest, FALSE))]

-----------------------------------------------------------------------------
(* ingest.  A message that does not fit in the queue is refused; the host's *)
(* loop then cancels the task the message is about.                        *)

IngestSelectionRequest(s, m) ==
  IF s.active # None \/ s.pendingRetry # None \/ s.selectorRequest # None
  THEN TrySend(s, SelectionResult(m.request))
  ELSE IF Full(s.commands) THEN [s EXCEPT !.cancelledSelection = None]
  ELSE Enqueue([s EXCEPT !.selectorRequest = m.request, !.cancelledSelection = None], m)

\* The first half; the flag follows (ApplySelectionCancel).
IngestSelectionCancel(s, m) ==
  IF s.selectorRequest = m.request
  THEN [s EXCEPT !.cancelledSelection = m.request, !.halfCancelled = TRUE] ELSE s

IngestSelectionResult(s, m) ==
  IF s.pendingRequest = m.request THEN [s EXCEPT !.pendingRequest = None] ELSE s

Refuses(e, s, task) == IF e = "host" THEN CancelTask(s, task) ELSE s

IngestRetryRequest(e, s, m) ==
  IF s.active # None \/ s.selectorRequest # None
  THEN IF Full(s.outgoing) THEN Refuses(e, s, m.task) ELSE TrySend(s, RetryResult(m.task))
  ELSE IF Full(s.commands) THEN Refuses(e, [s EXCEPT !.cancelled = FALSE], m.task)
  ELSE Enqueue([s EXCEPT !.cancelled = FALSE, !.active = m.task], m)

IngestRetryResult(e, s, m) ==
  IF s.pendingRetry # m.task \/ Full(s.commands) THEN Refuses(e, s, m.task)
  ELSE Enqueue([s EXCEPT !.pendingRetry = None], m)

IngestAction(s, m) == IF s.active = m.task THEN [s EXCEPT !.cancelled = TRUE] ELSE s

Answers(e, s, m) == IF Full(s.outgoing) THEN Refuses(e, s, m.task)
                    ELSE TrySend(s, DecisionOn(m.task, FALSE))

\* Fault: the offer for a request that was withdrawn is admitted.
IngestOfferLate(e, s, m) ==
  IF s.active # None THEN Answers(e, s, m)
  ELSE Enqueue([s EXCEPT !.pendingRequest = None, !.cancelled = FALSE,
                         !.activeRequest = m.request, !.active = m.task], m)

\* The request is taken and the task made active in one critical section.
IngestOffer(e, s, m) ==
  IF s.cancelledRetry = m.task \/ (m.request # None /\ s.pendingRequest # m.request)
  THEN Answers(e, s, m)
  ELSE LET taken == IF m.request = None THEN s ELSE [s EXCEPT !.pendingRequest = None]
           clear == [taken EXCEPT !.cancelled = FALSE,
                       !.pendingRetry = IF @ = m.task THEN None ELSE @]
       IN IF s.active # None \/ s.selectorRequest # None \/ s.pendingRetry \notin {None, m.task}
          THEN Answers(e, taken, m)
          ELSE IF Full(s.commands)
          THEN Refuses(e, [clear EXCEPT !.activeRequest = None], m.task)
          ELSE Enqueue([clear EXCEPT !.activeRequest = m.request, !.active = m.task], m)

IngestBody(e, s, m) == IF Full(s.commands) THEN Refuses(e, s, m.task) ELSE Enqueue(s, m)

Ingested(e, s, m) ==
  CASE m.kind = "selectionRequest" -> IngestSelectionRequest(s, m)
    [] m.kind = "selectionCancel" -> IngestSelectionCancel(s, m)
    [] m.kind = "selectionResult" -> IngestSelectionResult(s, m)
    [] m.kind = "retryRequest" -> IngestRetryRequest(e, s, m)
    [] m.kind = "retryResult" -> IngestRetryResult(e, s, m)
    [] m.kind = "action" -> IngestAction(s, m)
    [] m.kind = "offer" -> IngestOffer(e, s, m)
    [] OTHER -> IngestBody(e, s, m)

Ingest(e) ==
  LET from == Other(e) IN
  /\ transit[from] # <<>> /\ ~handle[e].halfCancelled
  /\ handle' = [handle EXCEPT ![e] = Ingested(e, @, Head(transit[from]))]
  /\ transit' = [transit EXCEPT ![from] = Tail(@)]
  /\ UNCHANGED <<worker, stored, gaveUp, withdrawn, clicks>>

ApplySelectionCancel(e) ==
  /\ handle[e].halfCancelled
  /\ handle' = [handle EXCEPT ![e] = [@ EXCEPT !.halfCancelled = FALSE, !.cancelled = TRUE]]
  /\ UNCHANGED <<worker, transit, stored, gaveUp, withdrawn, clicks>>

\* spawn_pump: the last control first, then the outgoing queue.
Pump(e) ==
  LET s == handle[e] IN
  /\ Len(transit[e]) < Transit
  /\ \/ /\ s.control # None
        /\ transit' = [transit EXCEPT ![e] = Append(@, Action(s.control))]
        /\ handle' = [handle EXCEPT ![e] = [s EXCEPT !.control = None]]
     \/ /\ s.control = None /\ s.outgoing # <<>>
        /\ transit' = [transit EXCEPT ![e] = Append(@, Head(s.outgoing))]
        /\ handle' = [handle EXCEPT ![e] = [s EXCEPT !.outgoing = Tail(@)]]
  /\ UNCHANGED <<worker, stored, gaveUp, withdrawn, clicks>>

-----------------------------------------------------------------------------
(* The controller's user.                                                  *)

Used == {t \in Tasks : \E e \in Ends : stored[e][t] # "none"
           \/ handle[e].active = t \/ worker[e].task = t \/ worker[e].current = t}
Fresh == Tasks \ Used

Click(s) ==
  /\ clicks > 0 /\ clicks' = clicks - 1
  /\ handle' = [handle EXCEPT !["controller"] = s]
  /\ UNCHANGED <<worker, transit, stored>>

UserStarts(t) ==
  /\ t \in Fresh /\ ~IsBusy(handle["controller"])
  /\ Click(Admit(handle["controller"], Item("start", t, None, FALSE)))
  /\ gaveUp' = gaveUp \ {t}
  /\ UNCHANGED withdrawn

UserRetries(t) ==
  /\ t \in Used /\ ~IsBusy(handle["controller"])
  /\ Click(Admit(handle["controller"], Item("retry", t, None, FALSE)))
  /\ gaveUp' = gaveUp \ {t}
  /\ UNCHANGED withdrawn

UserCancels(t) ==
  /\ t \in Used /\ t \notin gaveUp /\ handle["controller"].active \in {None, t}
  /\ Click(CancelTask(handle["controller"], t))
  /\ gaveUp' = gaveUp \union {t}
  /\ UNCHANGED withdrawn

UserRequests(r) ==
  LET s == handle["controller"] IN
  /\ r = Clicks + 1 - clicks /\ Fresh # {}
  /\ ~IsBusy(s) /\ ~Full(s.outgoing)
  /\ Click(RequestRemote(s, r))
  /\ UNCHANGED <<gaveUp, withdrawn>>

UserWithdraws ==
  LET s == handle["controller"] IN
  /\ s.pendingRequest # None \/ s.activeRequest # None
  /\ Click(CancelRemote(s))
  /\ IF CancelRemote(s) = s \/ s.cancelled
     THEN UNCHANGED <<gaveUp, withdrawn>>
     ELSE /\ withdrawn' = (withdrawn \union {s.pendingRequest, s.activeRequest}) \ {None}
          /\ gaveUp' = IF s.pendingRequest = None THEN gaveUp \union {s.active} ELSE gaveUp

-----------------------------------------------------------------------------
(* The worker.                                                             *)

Step(e, s, x) ==
  /\ handle' = [handle EXCEPT ![e] = s]
  /\ worker' = [worker EXCEPT ![e] = x]
  /\ UNCHANGED <<transit, gaveUp, withdrawn, clicks>>

At(x, pc) == [x EXCEPT !.pc = pc]

\* The end of a task, as run goes on with it.
Ends_(x, ok) ==
  [x EXCEPT !.ok = ok,
            !.pc = IF x.selecting THEN "unselect" ELSE IF x.responding THEN "respond"
                   ELSE IF ok THEN "finish" ELSE "fail"]

\* wire: a control waits for a place, anything else only until it is cancelled.
Wires(e, m, sent, failed) ==
  LET s == handle[e] IN
  IF s.cancelled /\ m.kind \notin {"action", "selectionResult"}
  THEN Step(e, s, failed)
  ELSE ~Full(s.outgoing) /\ Step(e, TrySend(s, m), sent)

SetActive(s, t) ==
  IF t = None THEN [s EXCEPT !.active = None, !.activeRequest = None]
  ELSE IF s.active = t THEN s
  ELSE [s EXCEPT !.active = t, !.cancelled = FALSE, !.activeRequest = None]

\* What the worker does with a command, once it is active for its task.
Dispatch(e, x, c) ==
  LET mine == stored[e][c.task] IN
  CASE c.kind = "start" -> At(x, "offer")
    [] c.kind = "retry" /\ mine = "source" -> At(x, "offer")
    [] c.kind = "retry" /\ mine = "receive" -> At(x, "retry")
    [] c.kind = "retry" /\ mine = "none" -> At(x, "fail")
    [] c.kind = "retryRequest" -> [x EXCEPT !.responding = TRUE,
                                           !.pc = IF mine = "source" THEN "approve" ELSE "respond"]
    [] c.kind = "offer" -> At(x, IF mine = "source" THEN "refuse" ELSE "ask")

TakeTask(e) ==
  /\ worker[e].pc = "idle" /\ handle[e].commands # <<>>
  /\ LET c == Head(handle[e].commands)
         s == [handle[e] EXCEPT !.commands = Tail(@)]
     IN /\ c.kind \in {"start", "retry", "retryRequest", "offer"}
        /\ Step(e, SetActive(s, c.task),
                Dispatch(e, [Rest EXCEPT !.task = c.task, !.current = c.task], c))
  /\ UNCHANGED stored

TakeCancelStored(e) ==
  /\ worker[e].pc = "idle" /\ handle[e].commands # <<>>
  /\ LET c == Head(handle[e].commands)
         s == [handle[e] EXCEPT !.commands = Tail(@)]
     IN /\ c.kind = "cancelStored"
        /\ IF worker[e].current = c.task
           THEN Step(e, SetActive(s, None), worker[e])
           ELSE Step(e, s, [Rest EXCEPT !.task = c.task, !.current = c.task, !.pc = "fail"])
  /\ UNCHANGED stored

\* The rest of an exchange that is over.
TakeStray(e) ==
  /\ worker[e].pc = "idle" /\ handle[e].commands # <<>>
  /\ Head(handle[e].commands).kind \in {"retryResult", "decision", "complete", "result"}
  /\ Step(e, [handle[e] EXCEPT !.commands = Tail(@)], worker[e])
  /\ UNCHANGED stored

\* claim_active for a new task, which forgets a cancellation that came before.
TakeSelection(e) ==
  /\ worker[e].pc = "idle" /\ handle[e].commands # <<>>
  /\ LET c == Head(handle[e].commands)
         s == [handle[e] EXCEPT !.commands = Tail(@)]
     IN /\ c.kind = "selectionRequest"
        /\ IF s.active # None
           THEN Step(e, [s EXCEPT !.selectorRequest = None],
                     [worker[e] EXCEPT !.request = c.request, !.pc = "answer"])
           ELSE \E t \in Fresh :
                  Step(e, [s EXCEPT !.active = t, !.activeRequest = None, !.cancelled = FALSE],
                       [Rest EXCEPT !.task = t, !.request = c.request, !.pc = "claimed",
                                    !.current = worker[e].current])
  /\ UNCHANGED stored

Unselected(s) == [s EXCEPT !.selectorRequest = None, !.active = None, !.activeRequest = None]

\* So a cancellation is looked for again.
Claimed(e) ==
  LET s == [handle[e] EXCEPT !.selectorRequest = worker[e].request]
      x == worker[e] IN
  /\ x.pc = "claimed"
  /\ IF s.cancelledSelection = x.request
     THEN Step(e, Unselected(s), At(x, "answer"))
     ELSE Step(e, s, At(x, "select"))
  /\ UNCHANGED stored

\* The dialog: a file, or none; it closes when it is cancelled.
Select(e) ==
  LET s == handle[e]
      x == worker[e] IN
  /\ x.pc = "select"
  /\ \/ Step(e, Unselected(s), At(x, "answer"))
     \/ ~s.cancelled /\ Step(e, s, [x EXCEPT !.selecting = TRUE, !.pc = "offer", !.current = x.task])
  /\ UNCHANGED stored

Answer(e) ==
  LET x == worker[e] IN
  /\ x.pc = "answer"
  /\ Wires(e, SelectionResult(x.request), [Rest EXCEPT !.current = x.current], x)
  /\ UNCHANGED stored

\* send_task and offer_task.  The source may be unfit.
Offer(e) ==
  LET x == worker[e]
      y == [x EXCEPT !.request = None] IN
  /\ x.pc = "offer"
  /\ \/ /\ Step(e, handle[e], Ends_(x, FALSE))
        /\ UNCHANGED stored
     \/ /\ Wires(e, Item("offer", x.task, x.request, TRUE),
                 [y EXCEPT !.responding = FALSE, !.pc = "decision"], Ends_(y, FALSE))
        /\ stored' = [stored EXCEPT ![e][x.task] = "source"]

\* The host's user lets the controller have the file again.
Approve(e) ==
  LET x == worker[e] IN
  /\ x.pc = "approve"
  /\ \/ Step(e, handle[e], Ends_(x, FALSE))
     \/ ~handle[e].cancelled /\ Step(e, handle[e], At(x, "offer"))
  /\ UNCHANGED stored

Respond(e) ==
  LET x == [worker[e] EXCEPT !.responding = FALSE] IN
  /\ worker[e].pc = "respond"
  /\ Wires(e, RetryResult(x.task), Ends_(x, FALSE), Ends_(x, FALSE))
  /\ UNCHANGED stored

Unselect(e) ==
  LET x == [worker[e] EXCEPT !.selecting = FALSE]
      s == [handle[e] EXCEPT !.selectorRequest = None] IN
  /\ worker[e].pc = "unselect"
  /\ Step(e, s, IF x.request = None THEN Ends_(x, x.ok) ELSE At(x, "answerOffer"))
  /\ UNCHANGED stored

AnswerOffer(e) ==
  LET x == [worker[e] EXCEPT !.request = None] IN
  /\ worker[e].pc = "answerOffer"
  /\ Wires(e, SelectionResult(worker[e].request), Ends_(x, FALSE), Ends_(x, FALSE))
  /\ UNCHANGED stored

\* receive_task: the receiver's consent.
Ask(e) ==
  LET x == worker[e] IN
  /\ x.pc = "ask"
  /\ \/ Step(e, handle[e], At(x, "decline")) /\ UNCHANGED stored
     \/ /\ ~handle[e].cancelled
        /\ stored' = [stored EXCEPT ![e][x.task] = "receive"]
        /\ Step(e, handle[e], At(x, "accept"))

Accept(e) ==
  LET x == worker[e] IN
  /\ x.pc = "accept"
  /\ Wires(e, DecisionOn(x.task, TRUE), At(x, "receiving"), Ends_(x, FALSE))
  /\ UNCHANGED stored

Decline(e) ==
  LET x == worker[e] IN
  /\ x.pc \in {"decline", "refuse"}
  /\ Wires(e, DecisionOn(x.task, FALSE), Ends_(x, x.pc = "refuse"), Ends_(x, FALSE))
  /\ UNCHANGED stored

Expected(pc) == CASE pc = "decision" -> "decision" [] pc = "result" -> "result"
                  [] pc = "receiving" -> "complete"

Waiting(e) == worker[e].pc \in {"decision", "result", "receiving"}

\* receive: what fits the task goes on with it, another offer finds it busy.
Receive(e) ==
  LET x == worker[e]
      c == Head(handle[e].commands)
      s == [handle[e] EXCEPT !.commands = Tail(@)]
      next == CASE x.pc = "decision" -> At(x, "send")
                [] x.pc = "receiving" -> At(x, "report")
                [] x.pc = "result" -> Ends_(x, TRUE)
  IN /\ Waiting(e) /\ ~handle[e].cancelled /\ handle[e].commands # <<>>
     /\ \/ /\ c.kind = "offer" /\ ~Full(s.outgoing)
           /\ Step(e, TrySend(s, DecisionOn(c.task, FALSE)), x)
        \/ /\ c.kind = Expected(x.pc) /\ c.task = x.task /\ c.ok
           /\ Step(e, s, next)
        \/ /\ c.kind # "offer" /\ ~(c.kind = Expected(x.pc) /\ c.task = x.task /\ c.ok)
           /\ Step(e, s, Ends_(x, FALSE))
     /\ UNCHANGED stored

ReceiveCancelled(e) ==
  /\ Waiting(e) /\ handle[e].cancelled
  /\ Step(e, handle[e], Ends_(worker[e], FALSE))
  /\ UNCHANGED stored

\* RESPONSE_TIMEOUT.
ReceiveTimesOut(e) ==
  /\ Waiting(e) /\ ~handle[e].cancelled /\ handle[e].commands = <<>>
  /\ Step(e, handle[e], Ends_(worker[e], FALSE))
  /\ UNCHANGED stored

\* The entries and ManifestComplete; the entries' answers and TaskResult.
SendBody(e) ==
  LET x == worker[e] IN
  /\ x.pc = "send"
  /\ Wires(e, Item("complete", x.task, None, TRUE), At(x, "result"), Ends_(x, FALSE))
  /\ UNCHANGED stored

Report(e) ==
  LET x == worker[e] IN
  /\ x.pc = "report"
  /\ Wires(e, Item("result", x.task, None, TRUE), Ends_(x, TRUE), Ends_(x, FALSE))
  /\ UNCHANGED stored

\* Fault: only the user's cancel is passed on, when it is clicked.
FailQuietly(e) ==
  LET x == worker[e] IN
  /\ x.pc = "fail"
  /\ Step(e, handle[e], At(x, "finish"))
  /\ UNCHANGED stored

Fail(e) ==
  LET x == worker[e] IN
  /\ x.pc = "fail"
  /\ Wires(e, Action(x.task), At(x, "finish"), x)
  /\ UNCHANGED stored

Finish(e) ==
  /\ worker[e].pc = "finish"
  /\ Step(e, SetActive(handle[e], None), [Rest EXCEPT !.current = worker[e].current])
  /\ UNCHANGED stored

\* request_receiver_retry: the retry is pending, then no task is active, then
\* the source is asked.
Retry(e) ==
  LET x == worker[e] IN
  /\ x.pc = "retry"
  /\ Step(e, [handle[e] EXCEPT !.cancelledRetry = None, !.pendingRetry = x.task],
          At(x, "release"))
  /\ UNCHANGED stored

Release(e) ==
  LET x == worker[e] IN
  /\ x.pc = "release"
  /\ Step(e, SetActive(handle[e], None), At(x, "request"))
  /\ UNCHANGED stored

RequestRetry(e) ==
  LET x == worker[e] IN
  /\ x.pc = "request"
  /\ IF handle[e].cancelled
     THEN Step(e, [handle[e] EXCEPT !.pendingRetry = None], At(x, "fail"))
     ELSE Wires(e, Item("retryRequest", x.task, None, FALSE),
                [Rest EXCEPT !.current = x.task], x)
  /\ UNCHANGED stored

WorkerStep(e) ==
  \/ TakeTask(e) \/ TakeCancelStored(e) \/ TakeStray(e) \/ TakeSelection(e)
  \/ Claimed(e) \/ Select(e) \/ Answer(e) \/ Offer(e) \/ Approve(e) \/ Respond(e)
  \/ Unselect(e) \/ AnswerOffer(e) \/ Ask(e) \/ Accept(e) \/ Decline(e)
  \/ Receive(e) \/ ReceiveCancelled(e) \/ SendBody(e) \/ Report(e) \/ Fail(e) \/ Finish(e)
  \/ Retry(e) \/ Release(e) \/ RequestRetry(e)

LoopStep(e) == Ingest(e) \/ ApplySelectionCancel(e) \/ Pump(e)

User ==
  \/ \E t \in Tasks : UserStarts(t) \/ UserRetries(t) \/ UserCancels(t)
  \/ \E r \in Requests : UserRequests(r)
  \/ UserWithdraws

Next == User \/ \E e \in Ends : WorkerStep(e) \/ ReceiveTimesOut(e) \/ LoopStep(e)
Spec == Init /\ [][Next]_vars

\* Workers and loops run, and dialogs are answered or closed.
Prompt ==
  \A e \in Ends : WF_vars(WorkerStep(e)) /\ WF_vars(Ingest(e))
                  /\ WF_vars(ApplySelectionCancel(e)) /\ WF_vars(Pump(e))

\* And waits time out.
Fairness == Prompt /\ \A e \in Ends : WF_vars(ReceiveTimesOut(e))
FairSpec == Spec /\ Fairness

-----------------------------------------------------------------------------
(* Properties.                                                             *)

Running(e) ==
  worker[e].pc \in {"select", "approve", "offer", "decision", "send", "result",
                    "ask", "accept", "receiving", "report"}

TypeOK ==
  /\ \A e \in Ends :
       /\ Len(handle[e].commands) <= Capacity /\ Len(handle[e].outgoing) <= Capacity
       /\ Len(transit[e]) <= Transit
       /\ {handle[e].active, handle[e].pendingRetry, handle[e].cancelledRetry,
           handle[e].control, worker[e].task} \subseteq Tasks \union {None}
       /\ {handle[e].pendingRequest, handle[e].activeRequest,
           handle[e].selectorRequest} \subseteq Requests \union {None}
       /\ \A t \in Tasks : stored[e][t] \in {"none", "source", "receive"}
  /\ gaveUp \subseteq Tasks /\ withdrawn \subseteq Requests /\ clicks \in 0..Clicks

\* While a worker runs a task the handle knows it as the active one: a cancel
\* of either user finds it, and no other task is admitted (set_active,
\* claim_active, ingest).
RunningIsActive == \A e \in Ends : Running(e) => handle[e].active = worker[e].task

\* A request that the user cancelled never turns into a file on the
\* controller's disk, however late the host's offer (cancel_remote: "consuming
\* a request and assigning its active task must be one critical section").
WithdrawnStaysOut ==
  handle["controller"].activeRequest \in withdrawn => handle["controller"].cancelled

\* A selection that was cancelled before its dialog opened opens none, however
\* the cancel and the claim interleave (run: SelectionRequest).
CancelledSelectionCloses ==
  LET s == handle["host"] IN
  worker["host"].pc = "select" /\ s.cancelledSelection = worker["host"].request =>
    s.cancelled \/ s.halfCancelled

\* Every task that is active at either end, and every selection, comes to an
\* end, whatever was cancelled or refused in between (finish of run).
TasksEnd ==
  \A e \in Ends :
    (handle[e].active # None \/ handle[e].selectorRequest # None) ~>
      (handle[e].active = None /\ handle[e].selectorRequest = None)

\* "Only a failed attempt to begin replay uses this response. Success is a
\* fresh Offer" (transfer_v14.rs): a retry that was asked for is answered, and
\* the one who asked is not busy for ever.
RetryAnswered ==
  \A e \in Ends : handle[e].pendingRetry # None ~> handle[e].pendingRetry = None

\* A task that the user cancelled and does not retry is left by both workers,
\* and none has to wait for RESPONSE_TIMEOUT, though a control may overtake the
\* offer it is about (spawn_pump): the worker's own Cancel follows the offer.
CancelReachesPeer ==
  \A t \in Tasks : t \in gaveUp ~>
    (t \notin gaveUp \/ \A e \in Ends : handle[e].active # t)

\* "after a cancelled upload, retry() is admitted" and offers again
\* (cancelled_active_part_retries_from_zero_with_a_fresh_staging_file): what
\* stops a task before its offer is the user's wish.
RetryOffers ==
  \A e \in Ends :
    worker[e].pc = "offer" /\ handle[e].cancelled =>
      worker[e].task \in gaveUp \/ worker[e].request \in withdrawn
=============================================================================
