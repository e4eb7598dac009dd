--------------------------- MODULE SlackReportProofs ---------------------------
(***************************************************************************)
(* Proofs about SlackReport, for any channels and any number of reports.   *)
(* The window and the gateway never guard against each other: that a report*)
(* is never lost, doubled or dequeued for another follows from the phases  *)
(* that both go through together.  The inductive invariant says that the   *)
(* system is in one of four of them.                                       *)
(***************************************************************************)
EXTENDS SlackReport, SequenceTheorems, TLAPS

Modals == [kind : {"confirm", "failure", "success"}, ch : Channels, finishes : BOOLEAN]

\* What the zero timers may hold.
Posted == Reports \union {NextReport}

OnlyNextReports == \A i \in DOMAIN posted : posted[i] = NextReport

\* The first n reports have been answered once, the others not at all.
AnsweredUpTo(n) == answers = [i \in 1..MaxReports |-> IF i <= n THEN 1 ELSE 0]

\* Nothing is under way, and no dialog will end a request when it is closed.
Idle ==
  /\ pending = <<>> /\ requestInProgress = FALSE /\ request = NoRequest /\ OnlyNextReports
  /\ reportInProgress = FALSE /\ buttons = TRUE
  /\ modals = <<>> \/ \E m \in Modals : m.finishes = FALSE /\ modals = <<m>>
  /\ AnsweredUpTo(sent)

\* The last report is at the head of the queue and its request at Slack.
UnderWay ==
  /\ \E r \in Reports : r.id = sent /\ pending = <<r>> /\ request \in Requests /\ request.report = r
  /\ requestInProgress = TRUE /\ OnlyNextReports
  /\ reportInProgress = TRUE /\ buttons = FALSE /\ modals = <<>>
  /\ request.method = "conversations.open" => target = "dm"
  /\ request.method = "chat.postMessage" => request.to # Nowhere
  /\ AnsweredUpTo(sent - 1)

\* It has failed, and waits at the head of the queue for its box to be closed.
BoxOpen ==
  /\ \E r \in Reports, m \in Modals :
        /\ r.id = sent /\ pending = <<r>> /\ modals = <<m>>
        /\ m.kind = "failure" /\ m.finishes = TRUE /\ m.ch = r.ch
  /\ requestInProgress = TRUE /\ request = NoRequest /\ OnlyNextReports
  /\ reportInProgress = FALSE /\ buttons = TRUE
  /\ AnsweredUpTo(sent)

\* The configuration is broken: its failure is a zero timer among others.
FailurePosted ==
  /\ pending = <<>> /\ requestInProgress = FALSE /\ request = NoRequest
  /\ \E k \in DOMAIN posted :
        /\ posted[k] \in Reports /\ posted[k].id = sent
        /\ \A i \in DOMAIN posted : i # k => posted[i] = NextReport
  /\ reportInProgress = TRUE /\ buttons = FALSE /\ modals = <<>>
  /\ AnsweredUpTo(sent - 1)

Configuration ==
  /\ target \in {"dm", "channel", "broken"}
  /\ destination \in Destinations
  /\ target = "channel" => destination = "configured"

IInv ==
  /\ Configuration
  /\ posted \in Seq(Posted)
  /\ sent \in 0..MaxReports
  /\ Idle \/ UnderWay \/ BoxOpen \/ FailurePosted

-----------------------------------------------------------------------------
(* The zero timers *)

LEMMA TimersTyped ==
  ASSUME posted \in Seq(Posted)
  PROVE  /\ DOMAIN posted = 1..Len(posted)
         /\ \A i \in DOMAIN posted : posted[i] = NextReport \/ posted[i] \in Reports
  BY LenProperties, ElementOfSeq DEF Posted

\* finishRequest() queues processNextReport() behind whatever is there.
LEMMA NextReportAppended ==
  ASSUME posted \in Seq(Posted), posted' = Append(posted, NextReport)
  PROVE  /\ posted' \in Seq(Posted)
         /\ OnlyNextReports => OnlyNextReports'
<1>1. NextReport \in Posted
  BY DEF Posted
<1>2. QED
  BY <1>1, AppendProperties, LenProperties DEF OnlyNextReports

\* A broken configuration's failure is the only one on its way.
LEMMA FailureAppended ==
  ASSUME posted \in Seq(Posted), OnlyNextReports, NEW r \in Reports,
         posted' = Append(posted, r)
  PROVE  /\ posted' \in Seq(Posted)
         /\ \E k \in DOMAIN posted' :
              /\ posted'[k] = r
              /\ \A i \in DOMAIN posted' : i # k => posted'[i] = NextReport
<1>1. r \in Posted
  BY DEF Posted
<1>2. /\ posted' \in Seq(Posted)
      /\ Len(posted') = Len(posted) + 1
      /\ posted'[Len(posted) + 1] = r
      /\ \A i \in 1..Len(posted) : posted'[i] = posted[i]
  BY <1>1, AppendProperties
<1>3. DOMAIN posted = 1..Len(posted) /\ DOMAIN posted' = 1..Len(posted')
      /\ Len(posted) \in Nat
  BY <1>2, LenProperties
<1>4. QED
  BY <1>2, <1>3 DEF OnlyNextReports

\* The oldest timer has fired.
LEMMA TimerTaken ==
  ASSUME posted \in Seq(Posted), posted # <<>>, posted' = Tail(posted)
  PROVE  /\ posted' \in Seq(Posted)
         /\ Head(posted) = posted[1] /\ 1 \in DOMAIN posted
         /\ DOMAIN posted' = 1..(Len(posted) - 1) /\ Len(posted) \in Nat
         /\ \A i \in DOMAIN posted' : posted'[i] = posted[i + 1] /\ i + 1 \in DOMAIN posted
<1>1. /\ posted' \in Seq(Posted) /\ Len(posted') = Len(posted) - 1
      /\ \A i \in 1..Len(posted') : posted'[i] = posted[i + 1]
  BY HeadTailProperties
<1>2. Len(posted) \in Nat \ {0} /\ DOMAIN posted = 1..Len(posted) /\ DOMAIN posted' = 1..Len(posted')
  BY <1>1, LenProperties, EmptySeq
<1>3. Head(posted) = posted[1]
  OBVIOUS
<1>4. QED
  BY <1>1, <1>2, <1>3

-----------------------------------------------------------------------------
(* What a step does to the phases *)

LEMMA ReportTyped ==
  ASSUME NEW r \in Reports
  PROVE  r.id \in 1..MaxReports /\ r.ch \in Channels
  BY DEF Reports

LEMMA MessageTyped ==
  ASSUME NEW r \in Reports, NEW to \in Destinations
  PROVE  /\ OpenConversation(r) \in Requests /\ Message(r, to) \in Requests
         /\ OpenConversation(r).method = "conversations.open" /\ OpenConversation(r).report = r
         /\ Message(r, to).method = "chat.postMessage" /\ Message(r, to).report = r
         /\ Message(r, to).to = to
  BY DEF OpenConversation, Message, Requests, Destinations

\* The report under way is answered: all that were sent have been.
LEMMA LastAnswered ==
  ASSUME sent \in 0..MaxReports, NEW r \in Reports, r.id = sent,
         AnsweredUpTo(sent - 1), answers' = [answers EXCEPT ![r.id] = @ + 1], sent' = sent
  PROVE  AnsweredUpTo(sent)'
<1>1. MaxReports \in Nat /\ sent \in 1..MaxReports
  BY ReportTyped, SlackReportAssumption
<1>2. \A i \in 1..MaxReports : answers'[i] = IF i <= sent THEN 1 ELSE 0
  BY <1>1 DEF AnsweredUpTo
<1>3. QED
  BY <1>2 DEF AnsweredUpTo

\* The failure box opens over the request that has ended.
LEMMA BoxOpens ==
  ASSUME IInv, UnderWay, NEW r \in Reports, r = request.report,
         FailureBox(r, TRUE), request' = NoRequest, Configuration',
         UNCHANGED <<pending, requestInProgress, posted, sent>>
  PROVE  IInv'
<1>1. r.id = sent /\ pending = <<r>> /\ AnsweredUpTo(sent - 1)
  BY DEF UnderWay
<1>2. AnsweredUpTo(sent)'
  BY <1>1, LastAnswered DEF IInv, FailureBox
<1>3. DEFINE m == [kind |-> "failure", ch |-> r.ch, finishes |-> TRUE]
<1>4. m \in Modals /\ modals' = <<m>>
  BY ReportTyped DEF Modals, UnderWay, FailureBox
<1>5. BoxOpen'
  BY <1>1, <1>2, <1>4 DEF UnderWay, BoxOpen, FailureBox, OnlyNextReports
<1>6. QED
  BY <1>5 DEF IInv

LEMMA OpenAnsweredStep ==
  ASSUME IInv, NEW a \in Answers, OpenAnswered(a)
  PROVE  IInv'
<1>1. UnderWay /\ target = "dm" /\ request \in Requests
  BY DEF IInv, Idle, BoxOpen, FailurePosted, UnderWay, OpenAnswered
<1>2. PICK r \in Reports : r.id = sent /\ pending = <<r>> /\ request.report = r
  BY <1>1 DEF UnderWay
<1>3. destination' \in Destinations /\ Configuration'
  BY <1>1 DEF OpenAnswered, IInv, Configuration, Destinations
<1>4. CASE Opened(a)
  <2>1. destination' = "opened" /\ request' = Message(r, "opened")
    BY <1>2, <1>4 DEF OpenAnswered, Opened
  <2>2. request' \in Requests /\ request'.report = r
        /\ request'.method = "chat.postMessage" /\ request'.to # Nowhere
    BY <2>1, MessageTyped, SlackReportAssumption DEF Destinations
  <2>3. UnderWay'
    BY <1>1, <1>2, <1>4, <2>2 DEF UnderWay, OpenAnswered, window, OnlyNextReports, AnsweredUpTo
  <2>4. QED
    BY <1>3, <2>3 DEF IInv, OpenAnswered
<1>5. CASE ~Opened(a)
  BY <1>1, <1>2, <1>3, <1>5, BoxOpens DEF OpenAnswered
<1>6. QED
  BY <1>4, <1>5

LEMMA PostAnsweredStep ==
  ASSUME IInv, NEW a \in Answers, PostAnswered(a)
  PROVE  IInv'
<1>1. UnderWay
  BY DEF IInv, Idle, BoxOpen, FailurePosted, PostAnswered
<1>2. PICK r \in Reports : r.id = sent /\ pending = <<r>> /\ request.report = r
  BY <1>1 DEF UnderWay
<1>3. CASE SlackError(a) = NoError
  <2>1. pending' = <<>>
    BY <1>2, <1>3 DEF PostAnswered, FinishRequest, Dequeued
  <2>2. posted' \in Seq(Posted) /\ OnlyNextReports'
    BY <1>1, <1>3, NextReportAppended DEF PostAnswered, FinishRequest, IInv, UnderWay
  <2>3. AnsweredUpTo(sent)'
    BY <1>1, <1>2, <1>3, LastAnswered DEF PostAnswered, SuccessDialog, IInv, UnderWay
  <2>4. DEFINE m == [kind |-> "success", ch |-> r.ch, finishes |-> FALSE]
  <2>5. m \in Modals /\ m.finishes = FALSE /\ modals' = <<m>>
    BY <1>1, <1>2, <1>3, ReportTyped DEF Modals, UnderWay, PostAnswered, SuccessDialog
  <2>6. Idle'
    BY <1>3, <2>1, <2>2, <2>3, <2>5
       DEF Idle, PostAnswered, FinishRequest, BusyAfterFinish, SuccessDialog
  <2>7. QED
    BY <1>3, <2>2, <2>6 DEF IInv, Configuration, PostAnswered
<1>4. CASE SlackError(a) # NoError
  <2>1. Configuration'
    BY <1>4 DEF IInv, Configuration, PostAnswered, DestinationAfterError, Destinations
  <2>2. QED
    BY <1>1, <1>2, <1>4, <2>1, BoxOpens DEF PostAnswered
<1>5. QED
  BY <1>3, <1>4

LEMMA ZeroTimerStep ==
  ASSUME IInv, ZeroTimer
  PROVE  IInv'
<1>1. /\ posted' \in Seq(Posted)
      /\ Head(posted) = posted[1] /\ 1 \in DOMAIN posted
      /\ DOMAIN posted' = 1..(Len(posted) - 1) /\ Len(posted) \in Nat
      /\ \A i \in DOMAIN posted' : posted'[i] = posted[i + 1] /\ i + 1 \in DOMAIN posted
  BY TimerTaken DEF IInv, ZeroTimer
<1>2. DOMAIN posted = 1..Len(posted)
  BY TimersTyped DEF IInv
<1>3. OnlyNextReports => OnlyNextReports'
  BY <1>1 DEF OnlyNextReports
<1>4. Configuration' /\ sent' \in 0..MaxReports
  BY DEF ZeroTimer, IInv, Configuration
<1>5. CASE Head(posted) = NextReport
  <2>1. UNCHANGED <<pending, requestInProgress, request, window, answers, sent, target>>
    BY <1>5 DEF ZeroTimer, ProcessNext, IInv, Idle, UnderWay, BoxOpen, FailurePosted, window
  <2>2. Idle => Idle'
    BY <1>3, <2>1 DEF Idle, window, AnsweredUpTo
  <2>3. UnderWay => UnderWay'
    BY <1>3, <2>1 DEF UnderWay, window, AnsweredUpTo
  <2>4. BoxOpen => BoxOpen'
    BY <1>3, <2>1 DEF BoxOpen, window, AnsweredUpTo
  <2>5. ASSUME FailurePosted PROVE FailurePosted'
    <3>1. PICK k \in DOMAIN posted :
            /\ posted[k] \in Reports /\ posted[k].id = sent
            /\ \A i \in DOMAIN posted : i # k => posted[i] = NextReport
      BY <2>5 DEF FailurePosted
    <3>2. k # 1
      BY <1>1, <1>5, <3>1, SlackReportAssumption
    <3>3. k - 1 \in DOMAIN posted' /\ posted'[k - 1] = posted[k]
      BY <1>1, <1>2, <3>2
    <3>4. \A i \in DOMAIN posted' : i # k - 1 => posted'[i] = NextReport
      BY <1>1, <1>2, <3>1
    <3>5. QED
      BY <2>1, <2>5, <3>1, <3>3, <3>4 DEF FailurePosted, window, AnsweredUpTo
  <2>6. QED
    BY <1>1, <1>4, <2>2, <2>3, <2>4, <2>5 DEF IInv
<1>6. CASE Head(posted) # NextReport
  <2>1. FailurePosted /\ posted[1] \in Reports /\ posted[1].id = sent /\ OnlyNextReports'
    <3>1. FailurePosted
      BY <1>1, <1>6 DEF IInv, Idle, UnderWay, BoxOpen, OnlyNextReports
    <3>2. PICK k \in DOMAIN posted :
            /\ posted[k] \in Reports /\ posted[k].id = sent
            /\ \A i \in DOMAIN posted : i # k => posted[i] = NextReport
      BY <3>1 DEF FailurePosted
    <3>3. k = 1
      BY <1>1, <1>6, <3>2
    <3>4. \A i \in DOMAIN posted' : i + 1 # 1
      BY <1>1
    <3>5. QED
      BY <1>1, <3>1, <3>2, <3>3, <3>4 DEF OnlyNextReports
  <2>2. FailureBox(posted[1], FALSE) /\ UNCHANGED <<requestInProgress, request, pending, sent>>
    BY <1>1, <1>6 DEF ZeroTimer
  <2>3. AnsweredUpTo(sent)'
    BY <2>1, <2>2, LastAnswered DEF FailurePosted, FailureBox, IInv
  <2>4. DEFINE m == [kind |-> "failure", ch |-> posted[1].ch, finishes |-> FALSE]
  <2>5. m \in Modals /\ m.finishes = FALSE /\ modals' = <<m>>
    BY <2>1, <2>2, ReportTyped DEF Modals, FailurePosted, FailureBox
  <2>6. Idle'
    BY <2>1, <2>2, <2>3, <2>5 DEF Idle, FailurePosted, FailureBox
  <2>7. QED
    BY <1>1, <1>4, <2>6 DEF IInv
<1>7. QED
  BY <1>5, <1>6

\* A dialog on top of one another never happens: with one open, it is all there is.
LEMMA OnlyDialog ==
  ASSUME IInv, modals # <<>>
  PROVE  /\ Idle \/ BoxOpen
         /\ \E m \in Modals : modals = <<m>> /\ Top = m /\ Below = <<>>
<1>1. \E m \in Modals : modals = <<m>>
  BY DEF IInv, Idle, UnderWay, BoxOpen, FailurePosted
<1>2. QED
  BY <1>1 DEF IInv, UnderWay, FailurePosted, Top, Below

LEMMA ReportClickedStep ==
  ASSUME IInv, NEW ch \in Channels, ReportClicked(ch)
  PROVE  IInv'
<1>1. Idle
  BY DEF IInv, Idle, UnderWay, BoxOpen, FailurePosted, ReportClicked
<1>2. DEFINE m == [kind |-> "confirm", ch |-> ch, finishes |-> FALSE]
<1>3. m \in Modals /\ m.finishes = FALSE /\ modals' = <<m>>
  BY DEF Modals, ReportClicked
<1>4. Idle'
  BY <1>1, <1>3 DEF Idle, ReportClicked, gateway, OnlyNextReports, AnsweredUpTo
<1>5. QED
  BY <1>4 DEF IInv, ReportClicked, gateway, Configuration

LEMMA ConfirmedStep ==
  ASSUME IInv, Confirmed
  PROVE  IInv'
<1>1. modals # <<>> /\ Top.kind = "confirm"
  BY DEF Confirmed, Open
<1>2. PICK m \in Modals : modals = <<m>> /\ Top = m /\ Below = <<>>
  BY <1>1, OnlyDialog
<1>3. Idle /\ m.ch \in Channels /\ modals' = <<>>
  BY <1>1, <1>2, OnlyDialog DEF BoxOpen, Modals, Confirmed
<1>4. DEFINE r == [id |-> sent + 1, ch |-> m.ch]
<1>5. /\ r \in Reports /\ r.id = sent + 1 /\ sent' = sent + 1 /\ sent' \in 0..MaxReports
      /\ reportInProgress' = TRUE /\ buttons' = FALSE /\ UNCHANGED <<target, answers>>
      /\ IF target = "broken"
           THEN posted' = Append(posted, r) /\ UNCHANGED gateway
           ELSE /\ pending' = Append(pending, r)
                /\ ProcessNext(Append(pending, r))
                /\ UNCHANGED <<destination, posted>>
  BY <1>2, <1>3, SlackReportAssumption
     DEF Confirmed, Idle, IInv, Reports, ButtonsWhileReporting
<1>6. AnsweredUpTo(sent - 1)'
  BY <1>3, <1>5 DEF Idle, AnsweredUpTo, IInv
<1>7. CASE target = "broken"
  <2>1. posted' \in Seq(Posted) /\ \E k \in DOMAIN posted' :
          posted'[k] = r /\ \A i \in DOMAIN posted' : i # k => posted'[i] = NextReport
    BY <1>3, <1>5, <1>7, FailureAppended DEF Idle, IInv
  <2>2. FailurePosted'
    BY <1>3, <1>5, <1>6, <1>7, <2>1 DEF FailurePosted, Idle, gateway
  <2>3. QED
    BY <1>5, <1>7, <2>1, <2>2 DEF IInv, Configuration, gateway
<1>8. CASE target # "broken"
  <2>1. pending' = <<r>> /\ Append(pending, r) = <<r>>
    BY <1>3, <1>5, <1>8 DEF Idle
  <2>2. requestInProgress' = TRUE /\ request' = FirstRequest(r)
    BY <1>3, <1>5, <1>8, <2>1 DEF ProcessNext, Idle
  <2>3. /\ request' \in Requests /\ request'.report = r
        /\ request'.method = "conversations.open" => target = "dm"
        /\ request'.method = "chat.postMessage" => request'.to # Nowhere
    <3>1. CASE target = "dm" /\ destination = Nowhere
      BY <1>5, <2>2, <3>1, MessageTyped DEF FirstRequest, IInv, Configuration
    <3>2. CASE ~(target = "dm" /\ destination = Nowhere)
      <4>1. destination \in Destinations /\ destination # Nowhere
        BY <1>8, <3>2, SlackReportAssumption DEF IInv, Configuration, Destinations
      <4>2. request' = Message(r, destination)
        BY <2>2, <3>2 DEF FirstRequest
      <4>3. QED
        BY <1>5, <4>1, <4>2, MessageTyped
    <3>3. QED
      BY <3>1, <3>2
  <2>4. UnderWay'
    BY <1>3, <1>5, <1>6, <1>8, <2>1, <2>2, <2>3 DEF UnderWay, Idle, OnlyNextReports
  <2>5. QED
    BY <1>5, <1>8, <2>4 DEF IInv, Configuration
<1>9. QED
  BY <1>7, <1>8

LEMMA DialogClosedStep ==
  ASSUME IInv, DialogClosed
  PROVE  IInv'
<1>1. modals # <<>> /\ Top.kind # "failure"
  BY DEF DialogClosed, Open
<1>2. PICK m \in Modals : modals = <<m>> /\ Top = m /\ Below = <<>>
  BY <1>1, OnlyDialog
<1>3. Idle /\ modals' = <<>>
  BY <1>1, <1>2, OnlyDialog DEF BoxOpen, DialogClosed
<1>4. Idle'
  BY <1>3 DEF Idle, DialogClosed, gateway, OnlyNextReports, AnsweredUpTo
<1>5. QED
  BY <1>4 DEF IInv, DialogClosed, gateway, Configuration

LEMMA FailureBoxClosedStep ==
  ASSUME IInv, FailureBoxClosed
  PROVE  IInv'
<1>1. modals # <<>> /\ Top.kind = "failure"
  BY DEF FailureBoxClosed, Open
<1>2. PICK m \in Modals : modals = <<m>> /\ Top = m /\ Below = <<>>
  BY <1>1, OnlyDialog
<1>3. modals' = <<>> /\ (Idle \/ BoxOpen)
  BY <1>1, <1>2, OnlyDialog DEF FailureBoxClosed
<1>4. CASE Idle
  <2>1. m.finishes = FALSE
    BY <1>2, <1>4 DEF Idle
  <2>2. Idle'
    BY <1>2, <1>3, <1>4, <2>1 DEF Idle, FailureBoxClosed, OnlyNextReports, AnsweredUpTo
  <2>3. QED
    BY <1>2, <2>1, <2>2 DEF IInv, FailureBoxClosed, Configuration
<1>5. CASE BoxOpen
  <2>1. m.finishes = TRUE
    BY <1>2, <1>5 DEF BoxOpen
  <2>2. FinishRequest /\ pending' = <<>>
    <3>1. FinishRequest
      BY <1>2, <2>1 DEF FailureBoxClosed
    <3>2. Tail(pending) = <<>>
      BY <1>5 DEF BoxOpen
    <3>3. QED
      BY <3>1, <3>2 DEF FinishRequest, Dequeued
  <2>3. posted' \in Seq(Posted) /\ OnlyNextReports'
    BY <1>5, <2>2, NextReportAppended DEF FinishRequest, IInv, BoxOpen
  <2>4. Idle'
    BY <1>3, <1>5, <2>2, <2>3
       DEF Idle, BoxOpen, FailureBoxClosed, FinishRequest, BusyAfterFinish, AnsweredUpTo
  <2>5. QED
    BY <2>3, <2>4 DEF IInv, FailureBoxClosed, Configuration
<1>6. QED
  BY <1>3, <1>4, <1>5

LEMMA Initially == Init => IInv
<1> SUFFICES ASSUME Init PROVE IInv
  OBVIOUS
<1>1. PICK env \in Environments :
        /\ target = IF Configured(env) THEN TargetType(env) ELSE "broken"
        /\ destination = IF TargetType(env) = "channel" /\ env.channel THEN "configured" ELSE Nowhere
  BY DEF Init
<1>2. Configuration
  BY <1>1 DEF Configuration, Configured, Destinations
<1>3. posted \in Seq(Posted)
  BY EmptySeq DEF Init
<1>4. sent = 0 /\ MaxReports \in Nat /\ answers = [i \in 1..MaxReports |-> 0]
  BY SlackReportAssumption DEF Init
<1>5. AnsweredUpTo(sent)
  BY <1>4 DEF AnsweredUpTo
<1>6. Idle
  BY <1>5 DEF Idle, Init, OnlyNextReports
<1>7. QED
  BY <1>2, <1>3, <1>4, <1>6 DEF IInv

LEMMA Step == IInv /\ [Next]_vars => IInv'
<1> SUFFICES ASSUME IInv, [Next]_vars PROVE IInv'
  OBVIOUS
<1>1. CASE UNCHANGED vars
  BY <1>1 DEF IInv, vars, gateway, window, Configuration, Idle, UnderWay, BoxOpen,
              FailurePosted, OnlyNextReports, AnsweredUpTo
<1>2. CASE Next
  BY <1>2, OpenAnsweredStep, PostAnsweredStep, ZeroTimerStep, ReportClickedStep,
     ConfirmedStep, DialogClosedStep, FailureBoxClosedStep DEF Next
<1>3. QED
  BY <1>1, <1>2

\* In every reachable state the window and the gateway are in one of the four
\* phases together, however often reports fail, the direct message's channel is
\* lost and opened again, and timers of earlier reports are still to come.
THEOREM PhasesInvariant == Spec => []IInv
  BY Initially, Step, PTL DEF Spec
-----------------------------------------------------------------------------
(* The properties the invariant was strengthened for *)

LEMMA TypesFollow == IInv => TypeOK
<1> SUFFICES ASSUME IInv PROVE TypeOK
  OBVIOUS
<1>1. /\ Range(pending) \subseteq Reports /\ Len(pending) <= 1
      /\ requestInProgress \in BOOLEAN /\ reportInProgress \in BOOLEAN /\ buttons \in BOOLEAN
      /\ request \in Requests \union {NoRequest}
  <2>1. pending = <<>> \/ \E r \in Reports : pending = <<r>>
    BY DEF IInv, Idle, UnderWay, BoxOpen, FailurePosted
  <2>2. Range(pending) \subseteq Reports /\ Len(pending) <= 1
    BY <2>1 DEF Range
  <2>3. requestInProgress \in BOOLEAN /\ reportInProgress \in BOOLEAN /\ buttons \in BOOLEAN
        /\ request \in Requests \union {NoRequest}
    BY DEF IInv, Idle, UnderWay, BoxOpen, FailurePosted
  <2>4. QED
    BY <2>2, <2>3
<1>2. \A i \in DOMAIN modals : modals[i] \in Modals
  <2>1. modals = <<>> \/ \E m \in Modals : modals = <<m>>
    BY DEF IInv, Idle, UnderWay, BoxOpen, FailurePosted
  <2>2. QED
    BY <2>1
<1>3. answers \in [1..MaxReports -> 0..MaxReports]
  <2>1. \E n \in Int : AnsweredUpTo(n)
    BY SlackReportAssumption DEF IInv, Idle, UnderWay, BoxOpen, FailurePosted
  <2>2. QED
    BY <2>1, SlackReportAssumption DEF AnsweredUpTo
<1>4. QED
  BY <1>1, <1>2, <1>3, TimersTyped DEF IInv, Configuration, TypeOK, Modals

\* Every variable has its type, and the queue, for all its generality, never
\* holds two reports, in every behaviour of the system.
THEOREM TypeCorrect == Spec => []TypeOK
  BY PhasesInvariant, TypesFollow, PTL

\* A user who can reach a report button finds the gateway idle, and there is
\* never more than one failure box (handleReportFailure, finishWithFailure).
THEOREM ButtonsInvariant == Spec => []ButtonsMeanIdle
<1>1. IInv => ButtonsMeanIdle
  <2> SUFFICES ASSUME IInv PROVE ButtonsMeanIdle
    OBVIOUS
  <2>1. modals = <<>> /\ buttons => Idle
    BY DEF IInv, Idle, UnderWay, BoxOpen, FailurePosted
  <2>2. modals = <<>> \/ \E m \in Modals : modals = <<m>>
    BY DEF IInv, Idle, UnderWay, BoxOpen, FailurePosted
  <2>3. QED
    BY <2>1, <2>2 DEF ButtonsMeanIdle, Idle, OnlyNextReports
<1>2. QED
  BY <1>1, PhasesInvariant, PTL

\* What finishRequest() removes is the report that ended, and a report is under
\* way for exactly as long as requestInProgress_ says so.
THEOREM HeadInvariant == Spec => []FinishesTheHead
<1>1. IInv => FinishesTheHead
  <2> SUFFICES ASSUME IInv PROVE FinishesTheHead
    OBVIOUS
  <2>1. CASE Idle \/ FailurePosted
    BY <2>1 DEF Idle, FailurePosted, FinishesTheHead
  <2>2. CASE UnderWay
    BY <2>2, SlackReportAssumption DEF UnderWay, FinishesTheHead
  <2>3. CASE BoxOpen
    BY <2>3 DEF BoxOpen, FinishesTheHead
  <2>4. QED
    BY <2>1, <2>2, <2>3 DEF IInv
<1>2. QED
  BY <1>1, PhasesInvariant, PTL

\* A message is posted to a channel that was named, whatever was opened, lost
\* and opened again before, and a configured channel survives every answer.
THEOREM DestinationInvariant == Spec => []PostsSomewhere
<1>1. IInv => PostsSomewhere
  BY DEF IInv, Configuration, Idle, UnderWay, BoxOpen, FailurePosted, PostsSomewhere
<1>2. QED
  BY <1>1, PhasesInvariant, PTL

\* The safety half of AnsweredOnce, and more: at any moment every report that was
\* sent has been answered exactly once, but for the last while it is under way.
AnsweredButTheLast ==
  \A i \in 1..MaxReports :
     /\ i < sent => answers[i] = 1
     /\ i = sent => answers[i] = IF reportInProgress THEN 0 ELSE 1
     /\ i > sent => answers[i] = 0

\* No report is answered twice, and none is overtaken by a later one.
THEOREM AnswersInvariant == Spec => []AnsweredButTheLast
<1>1. IInv => AnsweredButTheLast
  <2> SUFFICES ASSUME IInv PROVE AnsweredButTheLast
    OBVIOUS
  <2>1. sent \in Nat /\ (\A i \in 1..MaxReports : i \in Nat)
    BY DEF IInv
  <2>2. AnsweredUpTo(IF reportInProgress THEN sent - 1 ELSE sent) /\ reportInProgress \in BOOLEAN
    BY DEF IInv, Idle, UnderWay, BoxOpen, FailurePosted
  <2>3. QED
    BY <2>1, <2>2 DEF AnsweredUpTo, AnsweredButTheLast
<1>2. QED
  BY <1>1, PhasesInvariant, PTL

=============================================================================
