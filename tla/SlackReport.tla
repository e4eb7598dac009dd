------------------------------ MODULE SlackReport ------------------------------
(***************************************************************************)
(* Reporting a channel to the safety centre: the main window's buttons and *)
(* dialogs, and the SlackReportGateway behind them.  All of it runs in the *)
(* GUI thread; what makes it concurrent is that Slack answers later, that  *)
(* zero timers run later, and that the failure box of handleReportFailure()*)
(* runs an event loop of its own inside the gateway's reportFailed signal, *)
(* so that the gateway finishes its request only when the box is closed.   *)
(***************************************************************************)
EXTENDS Naturals, Sequences, FiniteSetsExt, Functions

CONSTANTS Channels,    \* channels with a report button
          MaxReports,  \* bound: reports the user confirms
          NoRequest,   \* no HTTP request is under way
          NextReport,  \* the zero timer of finishRequest()
          Nowhere      \* destinationChannelId_ is empty

Reports == [id : 1..MaxReports, ch : Channels]

\* destinationChannelId_ from the configuration, or as Slack opened it.
Destinations == {Nowhere, "configured", "opened"}

Requests == [method : {"conversations.open", "chat.postMessage"},
             report : Reports, to : Destinations]

ASSUME SlackReportAssumption ==
  /\ Channels # {}
  /\ MaxReports \in Nat
  /\ Nowhere \notin {"configured", "opened"}
  /\ NoRequest \notin Requests
  /\ NextReport \notin Reports

VARIABLES
  target,            \* targetType_ of a complete configuration, or "broken"
  destination,       \* destinationChannelId_
  pending,           \* pendingReports_
  requestInProgress, \* requestInProgress_
  request,           \* the HTTP request under way: method, captured report
                     \* and the channel its message names
  posted,            \* zero timers in order: NextReport, or a report that failed
  reportInProgress,  \* MainWindow::reportInProgress_
  buttons,           \* the report buttons are enabled
  modals,            \* open dialogs, the last on top; only that one takes input
  sent,              \* history: reports the window has sent
  answers            \* history: report |-> number of answers the user saw

gateway == <<destination, pending, requestInProgress, request>>
window == <<reportInProgress, buttons, modals>>
vars == <<target, gateway, posted, window, sent, answers>>

Top == modals[Len(modals)]
Open(kind) == modals # <<>> /\ Top.kind = kind
Below == SubSeq(modals, 1, Len(modals) - 1)

\* What the environment says of the bot's token, the type of the target and
\* the ids of the user and the channel.
Environments ==
  [token : BOOLEAN, type : {"", "dm", "channel", "other"}, user : BOOLEAN, channel : BOOLEAN]

\* The constructor: without a type, a channel id makes it a channel.
TargetType(env) ==
  IF env.type # "" THEN env.type ELSE IF env.channel THEN "channel" ELSE "dm"

\* configurationError() finds nothing.
Configured(env) ==
  /\ env.token
  /\ \/ TargetType(env) = "channel" /\ env.channel
     \/ TargetType(env) = "dm" /\ env.user

Init ==
  /\ \E env \in Environments :
        /\ target = IF Configured(env) THEN TargetType(env) ELSE "broken"
        /\ destination = IF TargetType(env) = "channel" /\ env.channel THEN "configured" ELSE Nowhere
  /\ pending = <<>>
  /\ requestInProgress = FALSE
  /\ request = NoRequest
  /\ posted = <<>>
  /\ reportInProgress = FALSE
  /\ buttons = TRUE
  /\ modals = <<>>
  /\ sent = 0
  /\ answers = [i \in 1..MaxReports |-> 0]
-----------------------------------------------------------------------------
(* The gateway *)

\* createOpenConversationPayload(): it names the user, no channel.
OpenConversation(r) == [method |-> "conversations.open", report |-> r, to |-> Nowhere]

\* createMessagePayload(): the report, for the channel known by then.
Message(r, to) == [method |-> "chat.postMessage", report |-> r, to |-> to]

\* A direct message needs its channel opened first, once.
FirstRequest(r) ==
  IF target = "dm" /\ destination = Nowhere THEN OpenConversation(r) ELSE Message(r, destination)

\* No error is an empty string.
NoError == ""

\* An answer: it arrives in time, is JSON, says ok or which error, and may name
\* the channel opened.
Answers == [delivered : BOOLEAN, json : BOOLEAN, ok : BOOLEAN,
            error : {"channel_not_found", "other", NoError}, id : BOOLEAN]

\* parseSlackError(): a refusal with an empty reason reads as success.
SlackError(a) ==
  IF ~a.delivered THEN "network"
  ELSE IF ~a.json THEN "json"
  ELSE IF ~a.ok THEN a.error
  ELSE NoError

\* processNextReport() on the queue q: one report at a time.
ProcessNext(q) ==
  IF requestInProgress \/ q = <<>>
    THEN UNCHANGED <<requestInProgress, request>>
    ELSE /\ requestInProgress' = TRUE
         /\ request' = FirstRequest(Head(q))

\* MUTANT: the queue is drained only when something waits behind.
DequeuedKeepsLast == IF Len(pending) > 1 THEN Tail(pending) ELSE pending

Dequeued == IF pending = <<>> THEN pending ELSE Tail(pending)

\* MUTANT: the flag of the finished request stays up.
BusyAfterFinishStays == requestInProgress

BusyAfterFinish == FALSE

\* finishRequest()
FinishRequest ==
  /\ pending' = Dequeued
  /\ requestInProgress' = BusyAfterFinish
  /\ posted' = Append(posted, NextReport)

\* MUTANT: whatever id the response holds is taken, an empty one too.
OpenedAnyId(a) == SlackError(a) = NoError

\* conversations.open succeeded and named a channel.
Opened(a) == SlackError(a) = NoError /\ a.id

\* chat.postMessage failed; only a direct message forgets its channel.
DestinationAfterError(a) ==
  IF target = "dm" /\ SlackError(a) = "channel_not_found" THEN Nowhere ELSE destination

\* The slot of reportFailed, up to the nested event loop of the message box.
\* finishes says whether finishWithFailure() waits for the box to be closed.
FailureBox(r, finishes) ==
  /\ reportInProgress' = FALSE
  /\ buttons' = TRUE
  /\ modals' = Append(modals, [kind |-> "failure", ch |-> r.ch, finishes |-> finishes])
  /\ answers' = [answers EXCEPT ![r.id] = @ + 1]

\* The slot of reportSucceeded: the success dialog is only shown.
SuccessDialog(r) ==
  /\ reportInProgress' = FALSE
  /\ buttons' = TRUE
  /\ modals' = Append(modals, [kind |-> "success", ch |-> r.ch, finishes |-> FALSE])
  /\ answers' = [answers EXCEPT ![r.id] = @ + 1]

\* conversations.open is answered; no answer for ten seconds is an error.
OpenAnswered(a) ==
  /\ request # NoRequest
  /\ request.method = "conversations.open"
  /\ destination' = IF SlackError(a) # NoError THEN destination
                    ELSE IF a.id THEN "opened" ELSE Nowhere
  /\ IF Opened(a)
       THEN /\ request' = Message(request.report, destination')
            /\ UNCHANGED <<window, answers>>
       ELSE /\ request' = NoRequest
            /\ FailureBox(request.report, TRUE)
  /\ UNCHANGED <<target, pending, requestInProgress, posted, sent>>

\* chat.postMessage is answered: dequeued at once, or when the box is closed.
PostAnswered(a) ==
  /\ request # NoRequest
  /\ request.method = "chat.postMessage"
  /\ request' = NoRequest
  /\ IF SlackError(a) = NoError
       THEN /\ SuccessDialog(request.report)
            /\ FinishRequest
            /\ UNCHANGED destination
       ELSE /\ destination' = DestinationAfterError(a)
            /\ FailureBox(request.report, TRUE)
            /\ UNCHANGED <<pending, requestInProgress, posted>>
  /\ UNCHANGED <<target, sent>>

\* A zero timer: the next report, or the failure of a broken configuration.
ZeroTimer ==
  /\ posted # <<>>
  /\ posted' = Tail(posted)
  /\ IF Head(posted) = NextReport
       THEN ProcessNext(pending) /\ UNCHANGED <<window, answers>>
       ELSE FailureBox(Head(posted), FALSE) /\ UNCHANGED <<requestInProgress, request>>
  /\ UNCHANGED <<target, destination, pending, sent>>
-----------------------------------------------------------------------------
(* The window *)

\* openReportConfirmationDialog()
ReportClicked(ch) ==
  /\ modals = <<>>
  /\ buttons
  /\ modals' = <<[kind |-> "confirm", ch |-> ch, finishes |-> FALSE]>>
  /\ UNCHANGED <<target, gateway, posted, reportInProgress, buttons, sent, answers>>

\* MUTANT: the buttons stay enabled while a report is under way.
ButtonsWhileReportingOn == TRUE

ButtonsWhileReporting == FALSE

\* The dialog is accepted before it emits reportConfirmed: MainWindow::sendReport()
\* and SlackReportGateway::sendReport() run with the dialog closed.
Confirmed ==
  /\ Open("confirm")
  /\ sent < MaxReports
  /\ modals' = Below
  /\ IF reportInProgress
       THEN UNCHANGED <<gateway, posted, reportInProgress, buttons, sent>>
       ELSE LET r == [id |-> sent + 1, ch |-> Top.ch] IN
            /\ reportInProgress' = TRUE
            /\ buttons' = ButtonsWhileReporting
            /\ sent' = sent + 1
            /\ IF target = "broken"
                 THEN /\ posted' = Append(posted, r)
                      /\ UNCHANGED gateway
                 ELSE /\ pending' = Append(pending, r)
                      /\ ProcessNext(Append(pending, r))
                      /\ UNCHANGED <<destination, posted>>
  /\ UNCHANGED <<target, answers>>

\* The confirmation is rejected, or the success dialog acknowledged.
DialogClosed ==
  /\ Open("confirm") \/ Open("success")
  /\ modals' = Below
  /\ UNCHANGED <<target, gateway, posted, reportInProgress, buttons, sent, answers>>

\* The nested event loop returns into reportFailed, and that into
\* finishWithFailure(), if that is where it was called.
FailureBoxClosed ==
  /\ Open("failure")
  /\ modals' = Below
  /\ IF Top.finishes
       THEN FinishRequest
       ELSE UNCHANGED <<pending, requestInProgress, posted>>
  /\ UNCHANGED <<target, destination, request, reportInProgress, buttons, sent, answers>>

Next ==
  \/ \E a \in Answers : OpenAnswered(a)
  \/ \E a \in Answers : PostAnswered(a)
  \/ ZeroTimer
  \/ \E ch \in Channels : ReportClicked(ch)
  \/ Confirmed
  \/ DialogClosed
  \/ FailureBoxClosed

Answered ==
  \/ \E a \in Answers : OpenAnswered(a)
  \/ \E a \in Answers : PostAnswered(a)

\* Every request is answered or times out and the event loop, nested or not,
\* runs the timers.  The user may leave any dialog open.
Fairness == WF_vars(Answered) /\ WF_vars(ZeroTimer)

Spec == Init /\ [][Next]_vars /\ Fairness
-----------------------------------------------------------------------------
(* Properties *)

\* Every variable has its type; the queue, for all its generality, never holds
\* two reports.
TypeOK ==
  /\ target \in {"dm", "channel", "broken"}
  /\ destination \in Destinations
  /\ Range(pending) \subseteq Reports /\ Len(pending) <= 1
  /\ requestInProgress \in BOOLEAN /\ reportInProgress \in BOOLEAN /\ buttons \in BOOLEAN
  /\ request \in Requests \union {NoRequest}
  /\ \A i \in DOMAIN posted : posted[i] = NextReport \/ posted[i] \in Reports
  /\ \A i \in DOMAIN modals :
        modals[i] \in [kind : {"confirm", "failure", "success"}, ch : Channels, finishes : BOOLEAN]
  /\ sent \in 0..MaxReports /\ answers \in [1..MaxReports -> 0..MaxReports]

\* A user who can reach a report button finds the gateway idle: nothing waits,
\* nothing is under way, no failure is still to come.  The buttons come back
\* before the failed report is dequeued, and it is only the box on top of them
\* that keeps a second report out of the queue until it is.
ButtonsMeanIdle ==
  /\ modals = <<>> /\ buttons =>
        /\ pending = <<>> /\ ~requestInProgress /\ request = NoRequest
        /\ \A i \in DOMAIN posted : posted[i] = NextReport
        /\ ~reportInProgress
  /\ \A i, j \in DOMAIN modals : modals[i].kind = "failure" /\ modals[j].kind = "failure" => i = j

\* Whatever is under way, or was just answered and waits for its box, is the
\* head of the queue, so that finishRequest() removes the report that ended and
\* no other; and a report is under way for as long as it is in the queue.
FinishesTheHead ==
  /\ request # NoRequest => requestInProgress /\ pending # <<>> /\ Head(pending) = request.report
  /\ \A i \in DOMAIN modals : modals[i].finishes =>
        request = NoRequest /\ pending # <<>> /\ Head(pending).ch = modals[i].ch
  /\ requestInProgress <=> request # NoRequest \/ \E i \in DOMAIN modals : modals[i].finishes

\* A message is posted to a channel that Slack or the configuration named,
\* whatever was opened, lost and opened again before; and the configured one
\* survives every answer.
PostsSomewhere ==
  /\ request # NoRequest /\ request.method = "chat.postMessage" => request.to # Nowhere
  /\ target = "channel" => destination = "configured"

\* Every report the user confirmed is answered, by success or by failure, and
\* never twice.
AnsweredOnce ==
  \A i \in 1..MaxReports :
     /\ [](answers[i] <= 1)
     /\ i <= sent ~> answers[i] = 1

=============================================================================
