-------------------------- MODULE ControllerProofs --------------------------
(***************************************************************************)
(* Proofs about Controller: what a run that stops in order has joined, and *)
(* that its report accounts for every message and for every action the     *)
(* messages carried out asked for, whatever the capacity of the queue, the *)
(* retries, the messages and the steps of a resize.  After them, about the *)
(* chords its worker types, ChordInjection: whose keys are down, and what  *)
(* the target hears, whatever keys the user touches.                       *)
(***************************************************************************)
EXTENDS Controller, ChordInjection, SequenceTheorems, FiniteSetTheorems, TLAPS

\* main has not yet offered Stop to the queue.
BeforeStop ==
  main \notin {"join_worker", "join_worker_failed", "drop_observer", "join_dropped_observer",
               "returned", "returned_error"}

\* The hook started, and its thread was waited for.
Orderly ==
  /\ ~detached
  /\ main \notin {"request_stop_failed", "join_worker_failed", "drop_observer",
                  "join_dropped_observer", "returned_error"}

Message == 1..MaxSteps \cup {Stop}

StopsAt(q) == {i \in DOMAIN q : q[i] = Stop}

Stops == IF StopsAt(queue) = {} THEN 0 ELSE 1
Busy == IF worker = "busy" THEN 1 ELSE 0

-----------------------------------------------------------------------------
(***************************************************************************)
(* Who is gone when.                                                       *)
(***************************************************************************)

\* No observer is left from its join on, and no hook from its own.
JoinedInv ==
  /\ main \in {"remove_dashboard", "request_stop", "join_worker", "returned"} => observer = "exited"
  /\ Orderly /\ main \in {"stop_observer", "join_observer", "remove_dashboard", "request_stop",
                          "join_worker", "returned"} => hook = "exited"

LEMMA InitJoined == Init => JoinedInv
BY DEF Init, JoinedInv

LEMMA JoinedStep ==
  ASSUME JoinedInv, [Next]_vars
  PROVE  JoinedInv'
<1> USE DEF JoinedInv, Orderly, Goto
<1>1. CASE MainStep
  BY <1>1 DEF MainStep, StartHook, HookStartFails, ReceiveShutdown, GiveUpWaiting, PostQuit,
     JoinHook, DetachHook, StopObserver, JoinObserver, RemoveDashboard, GotoJoinWorker,
     RequestStop, RetryStop, JoinWorker, hook_vars, observer_vars
<1>2. CASE HookStep
  BY <1>2 DEF HookStep, OfferKeyCommand, OfferResize, HookOffers, FireShutdown, HandlerPanics,
     HookExits, HookRuns, main_vars, observer_vars
<1>3. CASE ObserverStep
  BY <1>3 DEF ObserverStep, ObserverChecks, ObserverExecutes, ObserverPublishes, main_vars,
     hook_vars
<1>4. CASE WorkerStep
  BY <1>4 DEF WorkerStep, ReceiveCommand, ReceiveDisconnected, FinishCommand, main_vars,
     hook_vars, observer_vars
<1>5. CASE UNCHANGED vars
  BY <1>5 DEF vars, main_vars, hook_vars, observer_vars
<1> QED
  BY <1>1, <1>2, <1>3, <1>4, <1>5 DEF Next, Returned

LEMMA SpecJoined == Spec => []JoinedInv
BY InitJoined, JoinedStep, PTL DEF Spec

\* Once the state file is removed it never comes back: the only thread that writes it
\* was joined before.
THEOREM SpecDashboardStaysGone == Spec => DashboardStaysGone
<1>1. JoinedInv /\ [Next]_vars
        => (dashboard' /\ main \in {"request_stop", "join_worker", "returned"} => dashboard)
  <2> SUFFICES ASSUME JoinedInv, [Next]_vars,
                      main \in {"request_stop", "join_worker", "returned"}
               PROVE  dashboard' => dashboard
    OBVIOUS
  <2>1. observer = "exited"
    BY DEF JoinedInv
  <2>2. UNCHANGED dashboard
    BY <2>1 DEF Next, MainStep, StartHook, HookStartFails, ReceiveShutdown, GiveUpWaiting,
       PostQuit, JoinHook, DetachHook, StopObserver, JoinObserver, RemoveDashboard, RequestStop,
       RetryStop, JoinWorker, Goto, HookStep, OfferKeyCommand, OfferResize, HookOffers,
       FireShutdown, HandlerPanics, HookExits, ObserverStep, ObserverChecks, ObserverExecutes,
       ObserverPublishes, WorkerStep, ReceiveCommand, ReceiveDisconnected, FinishCommand,
       Returned, vars, observer_vars
  <2> QED
    BY <2>2
<1> QED
  BY <1>1, SpecJoined, PTL DEF Spec, DashboardStaysGone

-----------------------------------------------------------------------------
(***************************************************************************)
(* Type correctness, with what counts the messages: every accepted one is  *)
(* in the queue, being carried out, or counted by the worker.              *)
(***************************************************************************)
TypesButCounts ==
  /\ main \in MainPC
  /\ attempts \in 0..StopAttempts
  /\ hook \in {"absent", "running", "quitting", "exited"}
  /\ observer \in {"check", "execute", "publish", "exited"}
  /\ worker \in {"idle", "busy", "exited"}
  /\ queue \in Seq(Message) /\ Len(queue) <= Capacity
  /\ detached \in BOOLEAN /\ handler_active \in BOOLEAN /\ shutdown \in BOOLEAN
  /\ stopping \in BOOLEAN /\ dashboard \in BOOLEAN
  /\ offers \in 0..MaxOffers
  /\ requests \in 0..MaxRequests
  /\ accepted \in Nat /\ dropped \in Nat /\ carried_out \in Nat /\ failed \in Nat

\* a accepted and s stops are d and f counted, b being carried out, l in the queue.
Account(a, s, d, f, b, l) == a + s = d + f + b + l

CountInv ==
  /\ TypesButCounts
  /\ accepted + dropped <= offers + requests
  /\ Account(accepted, Stops, carried_out, failed, Busy, Len(queue))
  /\ \A i, j \in StopsAt(queue) : i = j
  /\ BeforeStop => StopsAt(queue) = {}

\* The bounds are natural numbers.
LEMMA BoundsAreNat ==
  /\ Capacity \in Nat \ {0} /\ StopAttempts \in Nat \ {0} /\ MaxOffers \in Nat /\ MaxRequests \in Nat
  /\ MaxSteps \in Nat \ {0} /\ Stop \notin Nat
BY ControllerAssumption, Zenon DEF ControllerAssumption

\* No count of messages exceeds what was offered.
LEMMA CountersAreBounded ==
  ASSUME CountInv
  PROVE  {accepted, dropped, carried_out, failed} \subseteq Messages
<1>1. Len(queue) \in Nat /\ (Stops = 1 => Len(queue) >= 1)
  BY DEF CountInv, TypesButCounts, Stops, StopsAt
<1>2. carried_out + failed <= accepted
  BY <1>1 DEF CountInv, TypesButCounts, Stops, Busy, Account
<1> QED
  BY <1>2, BoundsAreNat DEF CountInv, TypesButCounts, Messages

\* What moves a message through the account.
LEMMA AccountMoves ==
  ASSUME NEW a \in Nat, NEW s \in Nat, NEW d \in Nat, NEW f \in Nat, NEW b \in Nat, NEW l \in Nat,
         Account(a, s, d, f, b, l)
  PROVE  /\ Account(a + 1, s, d, f, b, l + 1) /\ Account(a, s + 1, d, f, b, l + 1)
         /\ Account(a, s, d, f, b + 1, l - 1) /\ Account(a, s - 1, d, f, b, l - 1)
         /\ Account(a, s, d + 1, f, b - 1, l) /\ Account(a, s, d, f + 1, b - 1, l)
BY DEF Account

\* The terms of the account.
LEMMA AccountTerms ==
  ASSUME TypesButCounts
  PROVE  /\ Stops \in Nat /\ Busy \in Nat /\ Len(queue) \in Nat
         /\ accepted \in Nat /\ carried_out \in Nat /\ failed \in Nat
         /\ dropped \in Nat /\ offers \in Nat /\ requests \in Nat
BY DEF TypesButCounts, Stops, Busy

LEMMA CommandsAreNotStop ==
  /\ 1 \in 1..MaxSteps /\ Stop \in Message
  /\ \A n \in 1..MaxSteps : n \in Message /\ n # Stop
BY BoundsAreNat DEF Message

\* What a message at the end of the queue does to the stops in it.
LEMMA AppendStops ==
  ASSUME NEW q \in Seq(Message), NEW m \in Message
  PROVE  /\ Append(q, m) \in Seq(Message) /\ Len(Append(q, m)) = Len(q) + 1
         /\ StopsAt(Append(q, m)) = StopsAt(q) \cup (IF m = Stop THEN {Len(q) + 1} ELSE {})
BY AppendProperties DEF StopsAt

\* What taking the first message does to them.
LEMMA TailStops ==
  ASSUME NEW q \in Seq(Message), q # <<>>
  PROVE  /\ Tail(q) \in Seq(Message) /\ Len(Tail(q)) = Len(q) - 1
         /\ Head(q) \in Message /\ Len(q) \in Nat \ {0}
         /\ 1 \in StopsAt(q) <=> Head(q) = Stop
         /\ \A i \in Nat : i \in StopsAt(Tail(q)) <=> i + 1 \in StopsAt(q) /\ i >= 1
         /\ StopsAt(q) \subseteq Nat \ {0} /\ StopsAt(Tail(q)) \subseteq Nat \ {0}
BY HeadTailProperties DEF StopsAt

LEMMA InitCounts == Init => CountInv
<1> SUFFICES ASSUME Init PROVE CountInv
  OBVIOUS
<1>1. StopsAt(queue) = {} /\ Len(queue) = 0 /\ queue \in Seq(Message)
  BY DEF Init, StopsAt
<1>2. TypesButCounts
  <2>1. /\ attempts \in 0..StopAttempts /\ Len(queue) <= Capacity
        /\ offers \in 0..MaxOffers /\ requests \in 0..MaxRequests
    BY <1>1, BoundsAreNat DEF Init
  <2> QED
    BY <1>1, <2>1 DEF Init, TypesButCounts, MainPC
<1> QED
  BY <1>1, <1>2 DEF Init, CountInv, Stops, Busy, BeforeStop, Account

\* A step that leaves the queue and the counters alone.
LEMMA QuietKeepsCounts ==
  ASSUME CountInv, TypesButCounts', BeforeStop' => BeforeStop,
         UNCHANGED <<queue, offers, requests, accepted, dropped, carried_out, failed>>,
         worker' = "busy" <=> worker = "busy"
  PROVE  CountInv'
BY DEF CountInv, Stops, Busy

\* A step that puts a message into the queue: a command is accepted, Stop is the first
\* and comes when nothing is sent before Stop any more.
LEMMA SendKeepsCounts ==
  ASSUME CountInv, TypesButCounts', NEW m \in Message, Send(m),
         UNCHANGED <<worker, dropped, carried_out, failed>>,
         m # Stop => /\ accepted' = accepted + 1 /\ (BeforeStop' => BeforeStop)
                          /\ offers' + requests' = offers + requests + 1,
         m = Stop => BeforeStop /\ ~BeforeStop' /\ UNCHANGED <<accepted, offers, requests>>
  PROVE  CountInv'
<1>1. /\ Len(queue') = Len(queue) + 1 /\ Len(queue) \in Nat
      /\ StopsAt(queue') = StopsAt(queue) \cup (IF m = Stop THEN {Len(queue) + 1} ELSE {})
  BY AppendStops DEF Send, CountInv, TypesButCounts
<1>2. m = Stop => StopsAt(queue) = {}
  BY DEF CountInv
<1>3. CASE m # Stop
  <2>1. StopsAt(queue') = StopsAt(queue) /\ Stops' = Stops /\ Busy' = Busy
    BY <1>1, <1>3 DEF Stops, Busy
  <2>2. Account(accepted', Stops', carried_out', failed', Busy', Len(queue'))
    <3>1. TypesButCounts /\ Account(accepted, Stops, carried_out, failed, Busy, Len(queue))
      BY DEF CountInv
    <3>2. Account(accepted + 1, Stops, carried_out, failed, Busy, Len(queue) + 1)
      BY <3>1, AccountTerms, AccountMoves
    <3> QED
      BY <1>1, <1>3, <2>1, <3>2
  <2>3. (accepted + dropped <= offers + requests)'
    BY <1>3, AccountTerms DEF CountInv
  <2> QED
    BY <1>1, <1>3, <2>1, <2>2, <2>3 DEF CountInv
<1>4. CASE m = Stop
  <2>1. StopsAt(queue') = {Len(queue) + 1}
    BY <1>1, <1>2, <1>4
  <2>2. Stops = 0 /\ Stops' = 1 /\ Busy' = Busy
    BY <1>2, <1>4, <2>1 DEF Stops, Busy
  <2>3. Account(accepted', Stops', carried_out', failed', Busy', Len(queue'))
    <3>1. TypesButCounts /\ Account(accepted, Stops, carried_out, failed, Busy, Len(queue))
      BY DEF CountInv
    <3>2. Account(accepted, Stops + 1, carried_out, failed, Busy, Len(queue) + 1)
      BY <3>1, AccountTerms, AccountMoves
    <3> QED
      BY <1>1, <1>4, <2>2, <3>2
  <2> QED
    BY <1>4, <2>1, <2>3 DEF CountInv
<1> QED
  BY <1>3, <1>4

LEMMA ReceiveKeepsCounts ==
  ASSUME CountInv, TypesButCounts', ReceiveCommand
  PROVE  CountInv'
<1>1. queue \in Seq(Message) /\ queue # <<>> /\ queue' = Tail(queue)
  BY DEF CountInv, TypesButCounts, ReceiveCommand
<1>2. /\ Len(queue') = Len(queue) - 1 /\ Len(queue) \in Nat \ {0}
      /\ Head(queue) \in Message
      /\ 1 \in StopsAt(queue) <=> Head(queue) = Stop
      /\ \A i \in Nat : i \in StopsAt(queue') <=> i + 1 \in StopsAt(queue) /\ i >= 1
      /\ StopsAt(queue) \subseteq Nat \ {0} /\ StopsAt(queue') \subseteq Nat \ {0}
  BY <1>1, TailStops
<1>3. \A i, j \in StopsAt(queue') : i = j
  <2> SUFFICES ASSUME NEW i \in StopsAt(queue'), NEW j \in StopsAt(queue') PROVE i = j
    OBVIOUS
  <2>1. i \in Nat /\ j \in Nat /\ i + 1 \in StopsAt(queue) /\ j + 1 \in StopsAt(queue)
    BY <1>2
  <2>2. i + 1 = j + 1
    BY <2>1 DEF CountInv
  <2> QED
    BY <2>1, <2>2
<1>4. BeforeStop' => StopsAt(queue') = {}
  BY <1>2 DEF CountInv, BeforeStop, ReceiveCommand, main_vars
<1>5. UNCHANGED <<offers, requests, accepted, dropped, carried_out, failed>> /\ worker = "idle"
  BY DEF ReceiveCommand, hook_vars, observer_vars
<1>6. CASE Head(queue) = Stop
  <2>1. StopsAt(queue') = {} /\ StopsAt(queue) # {}
    <3>1. \A i \in StopsAt(queue) : i = 1
      BY <1>2, <1>6 DEF CountInv
    <3> QED
      BY <1>2, <1>6, <3>1
  <2>2. Stops = 1 /\ Stops' = 0 /\ Busy' = Busy
    BY <1>5, <1>6, <2>1 DEF ReceiveCommand, Stops, Busy
  <2>3. Account(accepted', Stops', carried_out', failed', Busy', Len(queue'))
    <3>1. TypesButCounts /\ Account(accepted, Stops, carried_out, failed, Busy, Len(queue))
      BY DEF CountInv
    <3>2. Account(accepted, Stops - 1, carried_out, failed, Busy, Len(queue) - 1)
      BY <3>1, AccountTerms, AccountMoves
    <3> QED
      BY <1>2, <1>5, <2>2, <3>2
  <2> QED
    BY <1>3, <1>4, <1>5, <2>3 DEF CountInv
<1>7. CASE Head(queue) # Stop
  <2>1. StopsAt(queue') = {} <=> StopsAt(queue) = {}
    <3>1. \A i \in StopsAt(queue) : i - 1 \in Nat /\ i - 1 >= 1 /\ (i - 1) + 1 = i
      BY <1>2, <1>7
    <3> QED
      BY <1>2, <3>1
  <2>2. Stops' = Stops /\ Busy' = Busy + 1
    BY <1>5, <1>7, <2>1 DEF ReceiveCommand, Stops, Busy
  <2>3. Account(accepted', Stops', carried_out', failed', Busy', Len(queue'))
    <3>1. TypesButCounts /\ Account(accepted, Stops, carried_out, failed, Busy, Len(queue))
      BY DEF CountInv
    <3>2. Account(accepted, Stops, carried_out, failed, Busy + 1, Len(queue) - 1)
      BY <3>1, AccountTerms, AccountMoves
    <3> QED
      BY <1>2, <1>5, <2>2, <3>2
  <2> QED
    BY <1>3, <1>4, <1>5, <2>3 DEF CountInv
<1> QED
  BY <1>2, <1>6, <1>7

\* Every step keeps the types; a sender leaves the queue within its capacity.
LEMMA TypesStep ==
  ASSUME CountInv, [Next]_vars
  PROVE  TypesButCounts'
<1>0. TypesButCounts /\ Len(queue) \in Nat
  BY DEF CountInv, TypesButCounts
<1>1. CASE MainStep
  <2>1. CASE RequestStop
    <3>1. queue' \in Seq(Message) /\ Len(queue') <= Capacity
      BY <1>0, <2>1, AppendStops, BoundsAreNat, CommandsAreNotStop DEF RequestStop, HasRoom, Send,
         TypesButCounts
    <3> QED
      BY <1>0, <2>1, <3>1 DEF RequestStop, GotoJoinWorker, Goto, TypesButCounts, MainPC, hook_vars,
         observer_vars, worker_vars
  <2>2. CASE RetryStop
    BY <1>0, <2>2, BoundsAreNat DEF RetryStop, GotoJoinWorker, Goto, TypesButCounts, MainPC,
       hook_vars, observer_vars, worker_vars, queue_vars
  <2>3. CASE StartHook \/ HookStartFails \/ ReceiveShutdown
    BY <1>0, <2>3 DEF StartHook, HookStartFails, ReceiveShutdown, Goto,
       TypesButCounts, MainPC, hook_vars, observer_vars, worker_vars, queue_vars
  <2>4. CASE GiveUpWaiting \/ PostQuit
    BY <1>0, <2>4 DEF GiveUpWaiting, PostQuit, Goto,
       TypesButCounts, MainPC, hook_vars, observer_vars, worker_vars, queue_vars
  <2>5. CASE JoinHook \/ DetachHook \/ StopObserver \/ JoinObserver \/ RemoveDashboard \/ JoinWorker
    BY <1>0, <2>5 DEF JoinHook, DetachHook, StopObserver, JoinObserver, RemoveDashboard,
       JoinWorker, Goto, TypesButCounts, MainPC, hook_vars, observer_vars, worker_vars, queue_vars
  <2> QED
    BY <1>1, <2>1, <2>2, <2>3, <2>4, <2>5 DEF MainStep
<1>2. ASSUME NEW n \in 1..MaxSteps, HasRoom, Send(n)
      PROVE  queue' \in Seq(Message) /\ Len(queue') <= Capacity
  BY <1>0, <1>2, AppendStops, BoundsAreNat DEF HasRoom, Send, TypesButCounts, Message
<1>3. CASE HookStep
  <2>1. ASSUME NEW n \in 1..MaxSteps, HookOffers(n)
        PROVE  TypesButCounts'
    BY <1>0, <1>2, <2>1, BoundsAreNat DEF HookOffers, Accept, TypesButCounts, main_vars,
       observer_vars, worker_vars, queue_vars
  <2>3. 1 \in 1..MaxSteps
    BY BoundsAreNat
  <2>2. CASE FireShutdown \/ HandlerPanics \/ HookExits
    BY <1>0, <2>2 DEF FireShutdown, HandlerPanics, HookExits, TypesButCounts, main_vars,
       observer_vars, worker_vars, queue_vars
  <2> QED
    BY <1>3, <2>1, <2>2, <2>3 DEF HookStep, OfferKeyCommand, OfferResize
<1>4. CASE ObserverStep
  <2>1. CASE ObserverExecutes
    <3>1. 1 \in 1..MaxSteps
      BY BoundsAreNat
    <3> QED
      BY <1>0, <1>2, <2>1, <3>1, BoundsAreNat DEF ObserverExecutes, Accept, TypesButCounts,
         main_vars, hook_vars, worker_vars, queue_vars
  <2>2. CASE ObserverChecks \/ ObserverPublishes
    BY <1>0, <2>2 DEF ObserverChecks, ObserverPublishes, TypesButCounts, main_vars, hook_vars,
       worker_vars, queue_vars
  <2> QED
    BY <1>4, <2>1, <2>2 DEF ObserverStep
<1>5. CASE WorkerStep
  <2>1. CASE ReceiveCommand
    BY <1>0, <2>1, TailStops, BoundsAreNat DEF ReceiveCommand, TypesButCounts, main_vars,
       hook_vars, observer_vars
  <2>2. CASE ReceiveDisconnected \/ FinishCommand
    BY <1>0, <2>2 DEF ReceiveDisconnected, FinishCommand, TypesButCounts, main_vars, hook_vars,
       observer_vars, queue_vars
  <2> QED
    BY <1>5, <2>1, <2>2 DEF WorkerStep
<1>6. CASE UNCHANGED vars
  BY <1>0, <1>6 DEF TypesButCounts, vars, main_vars, hook_vars, observer_vars, worker_vars,
     queue_vars
<1> QED
  BY <1>1, <1>3, <1>4, <1>5, <1>6 DEF Next, Returned

LEMMA CountsStep ==
  ASSUME CountInv, [Next]_vars
  PROVE  CountInv'
<1>0. TypesButCounts /\ TypesButCounts'
  BY TypesStep DEF CountInv
<1>1. CASE MainStep
  <2>1. CASE RequestStop
    <3>1. /\ Send(Stop) /\ BeforeStop /\ ~BeforeStop'
          /\ UNCHANGED <<worker, dropped, carried_out, failed, accepted, offers, requests>>
      BY <2>1 DEF RequestStop, GotoJoinWorker, Goto, BeforeStop, hook_vars, observer_vars,
         worker_vars
    <3> QED
      BY <1>0, <3>1, CommandsAreNotStop, SendKeepsCounts
  <2>2. CASE ~RequestStop
    <3>1. UNCHANGED <<queue, offers, requests, accepted, dropped, carried_out, failed, worker>>
      BY <1>1, <2>2 DEF MainStep, StartHook, HookStartFails, ReceiveShutdown, GiveUpWaiting,
         PostQuit, JoinHook, DetachHook, StopObserver, JoinObserver, RemoveDashboard, RetryStop,
         JoinWorker, hook_vars, observer_vars, worker_vars, queue_vars
    <3>2. BeforeStop' => BeforeStop
      BY <1>1, <2>2 DEF MainStep, StartHook, HookStartFails, ReceiveShutdown, GiveUpWaiting,
         PostQuit, JoinHook, DetachHook, StopObserver, JoinObserver, RemoveDashboard, RetryStop,
         JoinWorker, GotoJoinWorker, Goto, BeforeStop
    <3> QED
      BY <1>0, <3>1, <3>2, QuietKeepsCounts
  <2> QED
    BY <2>1, <2>2
<1>2. ASSUME NEW n \in 1..MaxSteps, HookOffers(n)
      PROVE  CountInv'
  <2>1. UNCHANGED <<worker, carried_out, failed, requests, main>> /\ offers' = offers + 1
    BY <1>2 DEF HookOffers, observer_vars, worker_vars, main_vars
  <2>2. BeforeStop' => BeforeStop
    BY <2>1 DEF BeforeStop
  <2>3. CASE Accept(n) /\ UNCHANGED dropped
    <3>1. n \in Message /\ n # Stop
      BY CommandsAreNotStop
    <3>2. Send(n) /\ accepted' = accepted + 1
      BY <2>3 DEF Accept
    <3>3. offers' + requests' = offers + requests + 1
      BY <1>0, <2>1, BoundsAreNat DEF TypesButCounts
    <3> QED
      BY <1>0, <2>1, <2>2, <2>3, <3>1, <3>2, <3>3, SendKeepsCounts
  <2>4. CASE dropped' = dropped + 1 /\ UNCHANGED queue_vars
    BY <1>0, <2>1, <2>2, <2>4 DEF CountInv, TypesButCounts, Stops, Busy, queue_vars
  <2> QED
    BY <1>2, <2>3, <2>4 DEF HookOffers
<1>3. CASE FireShutdown \/ HandlerPanics \/ HookExits
  <2>1. UNCHANGED <<queue, offers, requests, accepted, dropped, carried_out, failed, worker, main>>
    BY <1>3 DEF FireShutdown, HandlerPanics, HookExits, main_vars, observer_vars, worker_vars,
       queue_vars
  <2> QED
    BY <1>0, <2>1, QuietKeepsCounts DEF BeforeStop
<1>4. CASE ObserverExecutes
  <2>1. UNCHANGED <<worker, carried_out, failed, dropped, offers, main>>
    BY <1>4 DEF ObserverExecutes, hook_vars, worker_vars, main_vars
  <2>2. BeforeStop' => BeforeStop
    BY <2>1 DEF BeforeStop
  <2>3. CASE UNCHANGED <<requests, queue_vars>>
    BY <1>0, <2>1, <2>2, <2>3, QuietKeepsCounts DEF queue_vars
  <2>4. CASE requests' = requests + 1 /\ Accept(1)
    BY <1>0, <2>1, <2>2, <2>4, CommandsAreNotStop, SendKeepsCounts DEF Accept, TypesButCounts
  <2>5. CASE requests' = requests + 1 /\ UNCHANGED queue_vars
    BY <1>0, <2>1, <2>2, <2>5 DEF CountInv, TypesButCounts, Stops, Busy, queue_vars
  <2> QED
    BY <1>4, <2>3, <2>4, <2>5 DEF ObserverExecutes
<1>5. CASE ObserverChecks \/ ObserverPublishes \/ ReceiveDisconnected \/ UNCHANGED vars
  <2>1. /\ UNCHANGED <<queue, offers, requests, accepted, dropped, carried_out, failed, main>>
        /\ worker' = "busy" <=> worker = "busy"
    BY <1>5 DEF ObserverChecks, ObserverPublishes, ReceiveDisconnected, vars, main_vars, hook_vars,
       observer_vars, worker_vars, queue_vars
  <2> QED
    BY <1>0, <2>1, QuietKeepsCounts DEF BeforeStop
<1>6. CASE FinishCommand
  <2>1. /\ UNCHANGED <<queue, offers, requests, accepted, dropped, main>>
        /\ worker = "busy" /\ worker' = "idle"
        /\ \/ carried_out' = carried_out + 1 /\ UNCHANGED failed
           \/ failed' = failed + 1 /\ UNCHANGED carried_out
    BY <1>6 DEF FinishCommand, main_vars, hook_vars, observer_vars, queue_vars
  <2>2. Stops' = Stops /\ Busy' = Busy - 1 /\ (BeforeStop' <=> BeforeStop)
    BY <2>1 DEF Stops, Busy, BeforeStop
  <2>3. Account(accepted', Stops', carried_out', failed', Busy', Len(queue'))
    <3>1. TypesButCounts /\ Account(accepted, Stops, carried_out, failed, Busy, Len(queue))
      BY DEF CountInv
    <3>2. /\ Account(accepted, Stops, carried_out + 1, failed, Busy - 1, Len(queue))
          /\ Account(accepted, Stops, carried_out, failed + 1, Busy - 1, Len(queue))
      BY <3>1, AccountTerms, AccountMoves
    <3> QED
      BY <2>1, <2>2, <3>2
  <2> QED
    BY <1>0, <2>1, <2>2, <2>3 DEF CountInv
<1>7. 1 \in 1..MaxSteps
  BY BoundsAreNat
<1> QED
  BY <1>0, <1>1, <1>2, <1>3, <1>4, <1>5, <1>6, <1>7, ReceiveKeepsCounts
  DEF Next, Returned, HookStep, OfferKeyCommand, OfferResize, ObserverStep, WorkerStep

LEMMA SpecCounts == Spec => []CountInv
BY InitCounts, CountsStep, PTL DEF Spec

-----------------------------------------------------------------------------
(***************************************************************************)
(* The actions: those due are counted, asked for by the message at hand,   *)
(* or by those in the queue.                                               *)
(***************************************************************************)

\* The actions the messages of a queue ask for: the j-th of its i-th message.
Asked(q) == {x \in (1..Len(q)) \X (1..MaxSteps) : q[x[1]] # Stop /\ x[2] <= q[x[1]]}

Row(i, n) == {<<i, j>> : j \in 1..n}

WorkInv ==
  /\ job \in 0..MaxSteps /\ (worker # "busy" => job = 0)
  /\ dispatched \in Nat /\ due \in Nat /\ due <= MaxSteps * accepted
  /\ due = dispatched + job + Cardinality(Asked(queue))

LEMMA AskedIsFinite ==
  ASSUME NEW q \in Seq(Message)
  PROVE  IsFiniteSet(Asked(q)) /\ Cardinality(Asked(q)) \in Nat
<1>1. IsFiniteSet(1..Len(q)) /\ IsFiniteSet(1..MaxSteps)
  BY BoundsAreNat, FS_Interval
<1>2. IsFiniteSet((1..Len(q)) \X (1..MaxSteps))
  BY <1>1, FS_Product
<1>3. IsFiniteSet(Asked(q))
  BY <1>2, FS_Subset DEF Asked
<1> QED
  BY <1>3, FS_CardinalityType

LEMMA RowHasItsLength ==
  ASSUME NEW i, NEW n \in Nat
  PROVE  IsFiniteSet(Row(i, n)) /\ Cardinality(Row(i, n)) = n
<1> DEFINE f == [j \in 1..n |-> <<i, j>>]
<1>1. f \in Bijection(1..n, Row(i, n))
  BY DEF Bijection, Injection, IsInjective, Surjection, Row
<1>2. ExistsBijection(1..n, Row(i, n))
  BY <1>1 DEF ExistsBijection
<1>3. IsFiniteSet(1..n) /\ Cardinality(1..n) = n
  BY FS_Interval
<1> QED
  BY <1>2, <1>3, FS_Bijection

LEMMA EmptyAsksNothing == Cardinality(Asked(<<>>)) = 0
<1>1. Asked(<<>>) = {}
  BY DEF Asked
<1> QED
  BY <1>1, FS_EmptySet

\* What a message at the end of the queue adds to the actions asked for.
LEMMA AppendAsks ==
  ASSUME NEW q \in Seq(Message)
  PROVE  /\ \A n \in 1..MaxSteps : Cardinality(Asked(Append(q, n))) = Cardinality(Asked(q)) + n
         /\ Asked(Append(q, Stop)) = Asked(q)
<1>1. \A m \in Message : /\ Len(Append(q, m)) = Len(q) + 1 /\ Append(q, m)[Len(q) + 1] = m
                         /\ \A i \in 1..Len(q) : Append(q, m)[i] = q[i]
  BY AppendProperties
<1>2. Len(q) \in Nat /\ Stop \in Message /\ Stop \notin Nat /\ MaxSteps \in Nat
  BY BoundsAreNat DEF Message
<1>3. ASSUME NEW n \in 1..MaxSteps
      PROVE  Cardinality(Asked(Append(q, n))) = Cardinality(Asked(q)) + n
  <2> DEFINE r == Append(q, n)
             new == Row(Len(q) + 1, n)
  <2>1. /\ Len(r) = Len(q) + 1 /\ r[Len(q) + 1] = n /\ n # Stop
        /\ \A i \in 1..Len(q) : r[i] = q[i]
    BY <1>1, CommandsAreNotStop
  <2> HIDE DEF r
  <2>2. Asked(r) = Asked(q) \cup new
    <3>1. ASSUME NEW x \in Asked(r) PROVE x \in Asked(q) \cup new
      <4>1. /\ x \in (1..Len(r)) \X (1..MaxSteps) /\ x = <<x[1], x[2]>>
            /\ r[x[1]] # Stop /\ x[2] <= r[x[1]]
        BY DEF Asked
      <4>2. CASE x[1] = Len(q) + 1
        BY <2>1, <4>1, <4>2 DEF Row
      <4>3. CASE x[1] # Len(q) + 1
        <5>1. x[1] \in 1..Len(q)
          BY <1>2, <2>1, <4>1, <4>3
        <5> QED
          BY <2>1, <4>1, <5>1 DEF Asked
      <4> QED
        BY <4>2, <4>3
    <3>2. ASSUME NEW x \in Asked(q) PROVE x \in Asked(r)
      <4>1. /\ x \in (1..Len(q)) \X (1..MaxSteps)
            /\ q[x[1]] # Stop /\ x[2] <= q[x[1]]
        BY DEF Asked
      <4>2. x[1] \in 1..Len(q) /\ x[1] \in 1..Len(r)
        BY <1>2, <2>1, <4>1
      <4> QED
        BY <2>1, <4>1, <4>2 DEF Asked
    <3>3. ASSUME NEW x \in new PROVE x \in Asked(r)
      <4>1. PICK j \in 1..n : x = <<Len(q) + 1, j>>
        BY DEF Row
      <4>2. x[1] = Len(q) + 1 /\ x[2] = j /\ x[1] \in 1..Len(r) /\ j \in 1..MaxSteps
        BY <1>2, <2>1, <4>1
      <4> QED
        BY <2>1, <4>1, <4>2 DEF Asked
    <3> QED
      BY <3>1, <3>2, <3>3
  <2>3. Asked(q) \cap new = {}
    BY <1>2 DEF Asked, Row
  <2>4. n \in Nat
    BY <1>2
  <2>5. Cardinality(Asked(q)) \in Nat /\ Cardinality(new) = n /\ IsFiniteSet(Asked(q)) /\ IsFiniteSet(new)
    BY <2>4, AskedIsFinite, RowHasItsLength
  <2>6. Cardinality(Asked(q) \cup new) = Cardinality(Asked(q)) + Cardinality(new) - Cardinality({})
    BY <2>3, <2>5, FS_Union
  <2> QED
    BY <2>2, <2>4, <2>5, <2>6, FS_EmptySet DEF r
<1>4. Asked(Append(q, Stop)) = Asked(q)
  <2> DEFINE r == Append(q, Stop)
  <2>1. /\ Len(r) = Len(q) + 1 /\ r[Len(q) + 1] = Stop
        /\ \A i \in 1..Len(q) : r[i] = q[i]
    BY <1>1, <1>2
  <2> HIDE DEF r
  <2>2. ASSUME NEW x \in (1..Len(r)) \X (1..MaxSteps), r[x[1]] # Stop
        PROVE  x \in (1..Len(q)) \X (1..MaxSteps)
    BY <1>2, <2>1, <2>2
  <2>3. (1..Len(q)) \X (1..MaxSteps) \subseteq (1..Len(r)) \X (1..MaxSteps)
    BY <1>2, <2>1
  <2>4. \A x \in (1..Len(q)) \X (1..MaxSteps) : r[x[1]] = q[x[1]]
    BY <2>1
  <2> QED
    BY <2>2, <2>3, <2>4 DEF Asked, r
<1> QED
  BY <1>3, <1>4

\* What taking the first message takes off them.
LEMMA TailAsks ==
  ASSUME NEW q \in Seq(Message), q # <<>>
  PROVE  Cardinality(Asked(q))
           = Cardinality(Asked(Tail(q))) + (IF Head(q) = Stop THEN 0 ELSE Head(q))
<1> DEFINE r == Tail(q)
           n == IF Head(q) = Stop THEN 0 ELSE Head(q)
           first == Row(1, n)
           rest == {x \in Asked(q) : x[1] # 1}
           f == [x \in Asked(r) |-> <<x[1] + 1, x[2]>>]
<1>1. /\ r \in Seq(Message) /\ Len(r) = Len(q) - 1 /\ Len(q) \in Nat \ {0}
      /\ Head(q) = q[1] /\ Head(q) \in Message
      /\ \A i \in 1..Len(r) : r[i] = q[i + 1]
  BY HeadTailProperties
<1>2. MaxSteps \in Nat /\ Stop \notin Nat /\ n \in 0..MaxSteps /\ n \in Nat
  BY <1>1, BoundsAreNat DEF Message
<1> HIDE DEF r
<1>3. f \in Bijection(Asked(r), rest)
  <2>1. ASSUME NEW x \in Asked(r)
        PROVE  f[x] \in rest
    <3>1. /\ x \in (1..Len(r)) \X (1..MaxSteps) /\ r[x[1]] # Stop /\ x[2] <= r[x[1]]
      BY DEF Asked
    <3>2. x[1] \in 1..Len(r) /\ x[2] \in 1..MaxSteps /\ x[1] + 1 \in 1..Len(q) /\ x[1] + 1 # 1
      BY <1>1, <3>1
    <3>3. f[x] = <<x[1] + 1, x[2]>> /\ q[x[1] + 1] = r[x[1]]
      BY <1>1, <3>2
    <3> HIDE DEF f
    <3>4. f[x] \in (1..Len(q)) \X (1..MaxSteps) /\ f[x][1] = x[1] + 1 /\ f[x][2] = x[2]
      BY <3>2, <3>3
    <3> QED
      BY <3>1, <3>2, <3>3, <3>4 DEF Asked
  <2>2. ASSUME NEW x \in Asked(r), NEW y \in Asked(r), f[x] = f[y]
        PROVE  x = y
    <3>1. /\ x \in (1..Len(r)) \X (1..MaxSteps) /\ y \in (1..Len(r)) \X (1..MaxSteps)
      BY DEF Asked
    <3>2. <<x[1] + 1, x[2]>> = <<y[1] + 1, y[2]>>
      BY <2>2
    <3>3. x[1] + 1 = y[1] + 1 /\ x[2] = y[2]
      BY <3>2
    <3> QED
      BY <3>1, <3>3
  <2>3. ASSUME NEW y \in rest
        PROVE  \E x \in Asked(r) : f[x] = y
    <3>1. /\ y \in (1..Len(q)) \X (1..MaxSteps) /\ y = <<y[1], y[2]>> /\ y[1] # 1
          /\ q[y[1]] # Stop /\ y[2] <= q[y[1]]
      BY DEF Asked
    <3>2. /\ y[1] - 1 \in 1..Len(r) /\ y[2] \in 1..MaxSteps /\ (y[1] - 1) + 1 = y[1]
      BY <1>1, <3>1
    <3>3. r[y[1] - 1] = q[y[1]]
      BY <1>1, <3>2
    <3> DEFINE x == <<y[1] - 1, y[2]>>
    <3>4. x \in Asked(r)
      BY <3>1, <3>2, <3>3 DEF Asked
    <3>5. f[x] = <<(y[1] - 1) + 1, y[2]>>
      BY <3>4
    <3> QED
      BY <3>1, <3>2, <3>4, <3>5
  <2>4. f \in [Asked(r) -> rest]
    BY <2>1
  <2> HIDE DEF f, rest
  <2> QED
    BY <2>2, <2>3, <2>4 DEF Bijection, Injection, IsInjective, Surjection
<1>4. IsFiniteSet(rest) /\ Cardinality(rest) = Cardinality(Asked(r)) /\ Cardinality(Asked(r)) \in Nat
  <2>1. ExistsBijection(Asked(r), rest)
    BY <1>3 DEF ExistsBijection
  <2> HIDE DEF rest
  <2> QED
    BY <1>1, <2>1, AskedIsFinite, FS_Bijection
<1>5. Asked(q) = first \cup rest /\ first \cap rest = {}
  <2>1. ASSUME NEW x \in Asked(q), x[1] = 1 PROVE x \in first
    <3>1. /\ x = <<x[1], x[2]>> /\ x[2] \in 1..MaxSteps /\ q[x[1]] # Stop /\ x[2] <= q[x[1]]
      BY DEF Asked
    <3> QED
      BY <1>1, <1>2, <2>1, <3>1 DEF Row
  <2>2. ASSUME NEW x \in first PROVE x \in Asked(q) /\ x[1] = 1
    <3>1. PICK j \in 1..n : x = <<1, j>>
      BY DEF Row
    <3>2. Head(q) # Stop /\ n = q[1]
      BY <1>1, <3>1
    <3>3. x[1] = 1 /\ x[2] = j /\ 1 \in 1..Len(q) /\ j \in 1..MaxSteps /\ j <= q[1]
      BY <1>1, <1>2, <3>1, <3>2
    <3> QED
      BY <1>1, <3>1, <3>2, <3>3 DEF Asked
  <2> QED
    BY <2>1, <2>2
<1>6. IsFiniteSet(first) /\ Cardinality(first) = n
  BY <1>2, RowHasItsLength
<1> HIDE DEF first, rest, n
<1>7. Cardinality(first \cup rest) = Cardinality(first) + Cardinality(rest) - Cardinality({})
  BY <1>4, <1>5, <1>6, FS_Union
<1> QED
  BY <1>2, <1>4, <1>5, <1>6, <1>7, FS_EmptySet DEF n, r

\* The bound on the actions due grows with the messages, and covers all of them.
LEMMA MoreMessagesMoreSteps ==
  ASSUME NEW a \in Nat, NEW b \in Nat
  PROVE  /\ MaxSteps * a \in Nat /\ MaxSteps * (a + 1) = MaxSteps * a + MaxSteps
         /\ a <= b => MaxSteps * a <= MaxSteps * b
<1>1. MaxSteps \in Nat
  BY BoundsAreNat
<1>2. MaxSteps * a \in Nat /\ MaxSteps * (a + 1) = MaxSteps * a + MaxSteps
  BY <1>1
<1>3. ASSUME a <= b
      PROVE  MaxSteps * a <= MaxSteps * b
  <2>1. b - a \in Nat /\ b = a + (b - a)
    BY <1>3
  <2>2. \A c \in Nat : MaxSteps * (a + c) = MaxSteps * a + MaxSteps * c /\ MaxSteps * c \in Nat
    BY <1>1
  <2>3. MaxSteps * b = MaxSteps * a + MaxSteps * (b - a) /\ MaxSteps * (b - a) \in Nat
    BY <2>1, <2>2
  <2> QED
    BY <1>2, <2>3
<1> QED
  BY <1>2, <1>3

\* A step that leaves the queue and the actions alone.
LEMMA QuietKeepsWork ==
  ASSUME WorkInv, UNCHANGED <<queue, accepted, due, dispatched, job>>,
         worker' = "busy" <=> worker = "busy"
  PROVE  WorkInv'
BY DEF WorkInv

LEMMA AcceptKeepsWork ==
  ASSUME CountInv, WorkInv, NEW n \in 1..MaxSteps, Accept(n), UNCHANGED worker_vars
  PROVE  WorkInv'
<1>1. queue \in Seq(Message) /\ accepted \in Nat
  BY DEF CountInv, TypesButCounts
<1>2. Cardinality(Asked(queue')) = Cardinality(Asked(queue)) + n /\ Cardinality(Asked(queue)) \in Nat
  BY <1>1, AppendAsks, AskedIsFinite DEF Accept, Send
<1>3. accepted' = accepted + 1 /\ due' = due + n /\ UNCHANGED <<worker, job, dispatched>>
  BY DEF Accept, worker_vars
<1>4. MaxSteps * accepted' = MaxSteps * accepted + MaxSteps /\ MaxSteps * accepted \in Nat
  BY <1>1, <1>3, MoreMessagesMoreSteps
<1>5. MaxSteps \in Nat
  BY BoundsAreNat
<1>6. due' \in Nat /\ due' <= MaxSteps * accepted'
  BY <1>3, <1>4, <1>5 DEF WorkInv
<1> QED
  BY <1>2, <1>3, <1>5, <1>6 DEF WorkInv

LEMMA WorkStep ==
  ASSUME CountInv, WorkInv, [Next]_vars
  PROVE  WorkInv'
<1>1. queue \in Seq(Message) /\ accepted \in Nat /\ 1 \in 1..MaxSteps
  BY BoundsAreNat DEF CountInv, TypesButCounts
<1>2. CASE RequestStop
  <2>1. queue' = Append(queue, Stop) /\ UNCHANGED <<accepted, due, worker, job, dispatched>>
    BY <1>2 DEF RequestStop, Send, worker_vars
  <2>2. Asked(queue') = Asked(queue)
    BY <1>1, <2>1, AppendAsks
  <2> QED
    BY <2>1, <2>2 DEF WorkInv
<1>3. CASE MainStep /\ ~RequestStop
  <2>1. UNCHANGED <<queue, accepted, due, dispatched, job, worker>>
    BY <1>3 DEF MainStep, StartHook, HookStartFails, ReceiveShutdown, GiveUpWaiting, PostQuit,
       JoinHook, DetachHook, StopObserver, JoinObserver, RemoveDashboard, RetryStop, JoinWorker,
       worker_vars, queue_vars
  <2> QED
    BY <2>1, QuietKeepsWork
<1>4. ASSUME NEW n \in 1..MaxSteps, HookOffers(n)
      PROVE  WorkInv'
  <2>1. UNCHANGED worker_vars /\ (Accept(n) \/ UNCHANGED queue_vars)
    BY <1>4 DEF HookOffers
  <2>2. CASE UNCHANGED queue_vars
    BY <2>1, <2>2, QuietKeepsWork DEF worker_vars, queue_vars
  <2> QED
    BY <2>1, <2>2, AcceptKeepsWork
<1>5. CASE ObserverExecutes
  <2>1. UNCHANGED worker_vars /\ (Accept(1) \/ UNCHANGED queue_vars)
    BY <1>5 DEF ObserverExecutes
  <2>2. CASE UNCHANGED queue_vars
    BY <2>1, <2>2, QuietKeepsWork DEF worker_vars, queue_vars
  <2> QED
    BY <1>1, <2>1, <2>2, AcceptKeepsWork
<1>6. CASE FireShutdown \/ HandlerPanics \/ HookExits \/ ObserverChecks \/ ObserverPublishes
             \/ ReceiveDisconnected \/ UNCHANGED vars
  <2>1. UNCHANGED <<queue, accepted, due, dispatched, job>> /\ (worker' = "busy" <=> worker = "busy")
    BY <1>6 DEF FireShutdown, HandlerPanics, HookExits, ObserverChecks, ObserverPublishes,
       ReceiveDisconnected, vars, worker_vars, queue_vars
  <2> QED
    BY <2>1, QuietKeepsWork
<1>7. CASE ReceiveCommand
  <2>1. /\ worker = "idle" /\ queue # <<>> /\ queue' = Tail(queue)
        /\ UNCHANGED <<accepted, due, dispatched>>
        /\ \/ Head(queue) = Stop /\ worker' = "exited" /\ job' = job
           \/ Head(queue) # Stop /\ worker' = "busy" /\ job' = Head(queue)
    BY <1>7 DEF ReceiveCommand
  <2>2. /\ Cardinality(Asked(queue))
             = Cardinality(Asked(queue')) + (IF Head(queue) = Stop THEN 0 ELSE Head(queue))
        /\ queue' \in Seq(Message) /\ Head(queue) \in Message
    BY <1>1, <2>1, TailAsks, TailStops
  <2>3. Cardinality(Asked(queue')) \in Nat
    BY <2>2, AskedIsFinite
  <2>4. Head(queue) # Stop => Head(queue) \in 1..MaxSteps
    BY <2>2 DEF Message
  <2> QED
    BY <2>1, <2>2, <2>3, <2>4, BoundsAreNat DEF WorkInv
<1>8. CASE FinishCommand
  <2>1. /\ worker' = "idle" /\ job' = 0 /\ UNCHANGED <<queue, accepted>>
        /\ \/ dispatched' = dispatched + job /\ due' = due
           \/ due' = due - job /\ dispatched' = dispatched
    BY <1>8 DEF FinishCommand
  <2>2. Cardinality(Asked(queue)) \in Nat /\ UNCHANGED Cardinality(Asked(queue))
    BY <1>1, <2>1, AskedIsFinite
  <2>3. MaxSteps * accepted \in Nat /\ UNCHANGED (MaxSteps * accepted) /\ MaxSteps \in Nat
    BY <1>1, <2>1, MoreMessagesMoreSteps, BoundsAreNat
  <2> QED
    BY <2>1, <2>2, <2>3 DEF WorkInv
<1> QED
  BY <1>1, <1>2, <1>3, <1>4, <1>5, <1>6, <1>7, <1>8
  DEF Next, Returned, HookStep, OfferKeyCommand, OfferResize, ObserverStep, WorkerStep

LEMMA SpecWork == Spec => []WorkInv
<1>1. Init => WorkInv
  <2> SUFFICES ASSUME Init PROVE WorkInv
    OBVIOUS
  <2>1. queue = <<>> /\ job = 0 /\ due = 0 /\ dispatched = 0 /\ accepted = 0
    BY DEF Init
  <2> QED
    BY <2>1, EmptyAsksNothing, BoundsAreNat DEF WorkInv
<1>2. CountInv /\ WorkInv /\ [Next]_vars => WorkInv'
  BY WorkStep
<1> QED
  BY <1>1, <1>2, SpecCounts, PTL DEF Spec

\* No count of actions exceeds what the messages may have asked for.
LEMMA WorkIsBounded ==
  ASSUME CountInv, WorkInv
  PROVE  due \in Actions /\ dispatched \in Actions
<1>1. accepted \in Nat /\ accepted <= MaxOffers + MaxRequests
  BY CountersAreBounded, BoundsAreNat DEF CountInv, TypesButCounts, Messages
<1>2. MaxSteps * accepted <= MaxSteps * (MaxOffers + MaxRequests)
      /\ MaxSteps * accepted \in Nat /\ MaxSteps * (MaxOffers + MaxRequests) \in Nat
  <2>1. MaxOffers + MaxRequests \in Nat
    BY BoundsAreNat
  <2> QED
    BY <1>1, <2>1, MoreMessagesMoreSteps
<1>3. Cardinality(Asked(queue)) \in Nat
  BY AskedIsFinite DEF CountInv, TypesButCounts
<1>4. dispatched <= due
  BY <1>3, BoundsAreNat DEF WorkInv
<1> QED
  BY <1>2, <1>4 DEF WorkInv, Actions

\* Type correctness for every capacity, every number of messages and of steps: no count of
\* messages exceeds those that were offered, and none of actions what they may ask for.
THEOREM SpecTypeOK == Spec => []TypeOK
<1> DEFINE TypedReport == report \in {NoReport} \cup [dispatched : Actions, failed : Messages]
<1>1. Init => TypedReport
  BY DEF Init
<1>2. CountInv /\ WorkInv /\ TypedReport /\ [Next]_vars => TypedReport'
  <2> SUFFICES ASSUME CountInv, WorkInv, TypedReport, [Next]_vars PROVE TypedReport'
    OBVIOUS
  <2>1. CASE JoinWorker
    <3>1. dispatched \in Actions /\ failed \in Messages
      BY CountersAreBounded, WorkIsBounded
    <3>2. report' = [dispatched |-> dispatched, failed |-> failed]
      BY <2>1 DEF JoinWorker
    <3> QED
      BY <3>1, <3>2
  <2>2. CASE UNCHANGED report
    BY <2>2
  <2> QED
    BY <2>1, <2>2 DEF Next, MainStep, StartHook, HookStartFails, ReceiveShutdown, GiveUpWaiting,
       PostQuit, JoinHook, DetachHook, StopObserver, JoinObserver, RemoveDashboard, RequestStop,
       RetryStop, HookStep, OfferKeyCommand, OfferResize, HookOffers, FireShutdown, HandlerPanics,
       HookExits, ObserverStep, ObserverChecks, ObserverExecutes, ObserverPublishes, WorkerStep,
       ReceiveCommand, ReceiveDisconnected, FinishCommand, Returned, vars, main_vars
<1>3. CountInv /\ WorkInv /\ TypedReport => TypeOK
  BY CountersAreBounded, WorkIsBounded DEF CountInv, TypesButCounts, WorkInv, TypeOK, Message
<1> QED
  BY <1>1, <1>2, <1>3, SpecCounts, SpecWork, PTL DEF Spec

-----------------------------------------------------------------------------
(***************************************************************************)
(* The report.  In an orderly stop nobody sends any more when Stop does,   *)
(* so Stop is the last message, and the worker leaves an empty queue.      *)
(***************************************************************************)
ReportInv ==
  /\ Orderly => \A i \in StopsAt(queue) : i = Len(queue)
  /\ Orderly /\ worker = "exited" => queue = <<>>
  /\ main = "returned" => worker = "exited" /\ report = [dispatched |-> dispatched, failed |-> failed]

\* A run that is not orderly does not become so.
LEMMA OrderlyStays ==
  ASSUME [Next]_vars, Orderly'
  PROVE  Orderly
<1> USE DEF Orderly, Goto
<1>1. CASE StartHook \/ HookStartFails \/ ReceiveShutdown \/ GiveUpWaiting \/ PostQuit
  BY <1>1 DEF StartHook, HookStartFails, ReceiveShutdown, GiveUpWaiting, PostQuit
<1>2. CASE JoinHook \/ DetachHook
  BY <1>2 DEF JoinHook, DetachHook
<1>3. CASE StopObserver \/ JoinObserver \/ RemoveDashboard
  <2>1. UNCHANGED detached
    BY <1>3 DEF StopObserver, JoinObserver, RemoveDashboard
  <2>2. CASE StopObserver
    BY <2>1, <2>2 DEF StopObserver
  <2>3. CASE JoinObserver
    BY <2>1, <2>3 DEF JoinObserver
  <2>4. CASE RemoveDashboard
    BY <2>1, <2>4 DEF RemoveDashboard
  <2> QED
    BY <1>3, <2>2, <2>3, <2>4
<1>4. CASE RequestStop \/ RetryStop \/ JoinWorker
  BY <1>4 DEF RequestStop, RetryStop, JoinWorker, GotoJoinWorker
<1>5. CASE UNCHANGED <<main, detached>>
  BY <1>5
<1>6. CASE HookStep \/ ObserverStep \/ WorkerStep \/ Returned \/ UNCHANGED vars
  BY <1>5, <1>6 DEF HookStep, OfferKeyCommand, OfferResize, HookOffers, FireShutdown,
     HandlerPanics, HookExits, ObserverStep, ObserverChecks, ObserverExecutes, ObserverPublishes,
     WorkerStep, ReceiveCommand, ReceiveDisconnected, FinishCommand, Returned, vars, main_vars
<1> QED
  BY <1>1, <1>2, <1>3, <1>4, <1>6 DEF Next, MainStep

\* In an orderly run a command is sent only before Stop, when none is in the queue.
LEMMA CommandsPrecedeStop ==
  ASSUME CountInv, JoinedInv, Orderly, HookStep \/ ObserverStep, queue' # queue
  PROVE  StopsAt(queue) = {} /\ worker # "exited" /\ \E n \in 1..MaxSteps : Send(n)
<1>1. hook # "exited" \/ observer # "exited"
  BY DEF HookStep, OfferKeyCommand, OfferResize, HookOffers, FireShutdown, HandlerPanics,
     HookExits, HookRuns, ObserverStep, ObserverChecks, ObserverExecutes, ObserverPublishes,
     queue_vars
<1>2. /\ worker # "exited" /\ \E n \in 1..MaxSteps : Send(n)
      /\ hook \in {"running", "quitting"} \/ observer = "execute"
  <2>1. ASSUME NEW n \in 1..MaxSteps, HookOffers(n)
        PROVE  worker # "exited" /\ Send(n) /\ hook \in {"running", "quitting"}
    BY <2>1 DEF HookOffers, HookRuns, Accept, HasRoom, queue_vars
  <2>2. CASE HookStep
    BY <2>1, <2>2, CommandsAreNotStop DEF HookStep, OfferKeyCommand, OfferResize, FireShutdown,
       HandlerPanics, HookExits, queue_vars
  <2>3. CASE ObserverStep
    <3>1. worker # "exited" /\ Send(1) /\ observer = "execute"
      BY <2>3 DEF ObserverStep, ObserverChecks, ObserverExecutes, ObserverPublishes, Accept,
         HasRoom, queue_vars
    <3> QED
      BY <3>1, CommandsAreNotStop
  <2> QED
    BY <2>2, <2>3
<1>3. main \notin {"join_worker", "returned"}
  BY <1>2 DEF JoinedInv
<1>4. BeforeStop
  BY <1>3 DEF BeforeStop, Orderly
<1> QED
  BY <1>2, <1>4 DEF CountInv

LEMMA ReportStep ==
  ASSUME CountInv, JoinedInv, ReportInv, [Next]_vars
  PROVE  ReportInv'
<1>0. queue \in Seq(Message)
  BY DEF CountInv, TypesButCounts
<1>1. Orderly' => \A i \in StopsAt(queue') : i = Len(queue')
  <2> SUFFICES ASSUME Orderly' PROVE \A i \in StopsAt(queue') : i = Len(queue')
    OBVIOUS
  <2>0. Orderly
    BY OrderlyStays
  <2>1. CASE UNCHANGED queue
    BY <2>0, <2>1 DEF ReportInv
  <2>2. CASE RequestStop
    <3>1. StopsAt(queue) = {} /\ queue' = Append(queue, Stop)
      BY <2>2 DEF RequestStop, GotoJoinWorker, Goto, Send, BeforeStop, CountInv
    <3> QED
      BY <1>0, <3>1, CommandsAreNotStop, AppendStops
  <2>3. CASE (HookStep \/ ObserverStep) /\ queue' # queue
    <3>1. PICK n \in 1..MaxSteps : queue' = Append(queue, n)
      BY <2>0, <2>3, CommandsPrecedeStop DEF Send
    <3>2. n \in Message /\ n # Stop /\ StopsAt(queue) = {}
      BY <2>0, <2>3, CommandsPrecedeStop, CommandsAreNotStop
    <3>3. StopsAt(queue') = {}
      BY <1>0, <3>1, <3>2, AppendStops
    <3> QED
      BY <3>3
  <2>4. CASE ReceiveCommand
    <3>1. queue # <<>> /\ queue' = Tail(queue)
      BY <2>4 DEF ReceiveCommand
    <3>2. \A i \in StopsAt(queue') : i \in Nat /\ i + 1 = Len(queue)
      BY <1>0, <2>0, <3>1, TailStops DEF ReportInv
    <3> QED
      BY <1>0, <3>1, <3>2, TailStops
  <2> QED
    BY <2>1, <2>2, <2>3, <2>4 DEF Next, MainStep, StartHook, HookStartFails, ReceiveShutdown,
       GiveUpWaiting, PostQuit, JoinHook, DetachHook, StopObserver, JoinObserver, RemoveDashboard,
       RetryStop, JoinWorker, WorkerStep, ReceiveDisconnected, FinishCommand, Returned, vars,
       queue_vars
<1>2. Orderly' /\ worker' = "exited" => queue' = <<>>
  <2> SUFFICES ASSUME Orderly', worker' = "exited" PROVE queue' = <<>>
    OBVIOUS
  <2>0. Orderly
    BY OrderlyStays
  <2>1. CASE worker = "exited"
    <3>1. queue' = queue
      BY <2>1 DEF Next, MainStep, StartHook, HookStartFails, ReceiveShutdown, GiveUpWaiting,
         PostQuit, JoinHook, DetachHook, StopObserver, JoinObserver, RemoveDashboard, RequestStop,
         RetryStop, JoinWorker, HookStep, OfferKeyCommand, OfferResize, HookOffers, FireShutdown,
         HandlerPanics, HookExits, ObserverStep, ObserverChecks, ObserverExecutes,
         ObserverPublishes, WorkerStep, ReceiveCommand, ReceiveDisconnected, FinishCommand,
         Accept, HasRoom, Returned, vars, queue_vars
    <3> QED
      BY <2>0, <2>1, <3>1 DEF ReportInv
  <2>2. CASE ReceiveCommand
    <3>1. queue # <<>> /\ queue' = Tail(queue) /\ Head(queue) = Stop
      BY <2>2 DEF ReceiveCommand
    <3>2. 1 \in StopsAt(queue)
      BY <1>0, <3>1 DEF StopsAt
    <3>3. Len(queue) = 1
      BY <2>0, <3>2 DEF ReportInv
    <3>4. Len(Tail(queue)) = 0
      BY <1>0, <3>1, <3>3
    <3> QED
      BY <1>0, <3>1, <3>4, EmptySeq
  <2>3. CASE ReceiveDisconnected
    BY <2>3 DEF ReceiveDisconnected, queue_vars
  <2>4. CASE UNCHANGED worker
    BY <2>1, <2>4
  <2> QED
    BY <2>1, <2>2, <2>3, <2>4 DEF Next, MainStep, StartHook, HookStartFails, ReceiveShutdown,
       GiveUpWaiting, PostQuit, JoinHook, DetachHook, StopObserver, JoinObserver, RemoveDashboard,
       RequestStop, RetryStop, JoinWorker, HookStep, OfferKeyCommand, OfferResize, HookOffers,
       FireShutdown, HandlerPanics, HookExits, ObserverStep, ObserverChecks, ObserverExecutes,
       ObserverPublishes, WorkerStep, FinishCommand, Returned, vars, worker_vars
<1>3. main' = "returned" => worker' = "exited" /\ report' = [dispatched |-> dispatched', failed |-> failed']
  BY DEF ReportInv, Next, MainStep, StartHook, HookStartFails, ReceiveShutdown, GiveUpWaiting,
     PostQuit, JoinHook, DetachHook, StopObserver, JoinObserver, RemoveDashboard, GotoJoinWorker,
     RequestStop, RetryStop, JoinWorker, Goto, HookStep, OfferKeyCommand, OfferResize, HookOffers,
     FireShutdown, HandlerPanics, HookExits, ObserverStep, ObserverChecks, ObserverExecutes,
     ObserverPublishes, WorkerStep, ReceiveCommand, ReceiveDisconnected, FinishCommand, Returned,
     vars, main_vars, worker_vars
<1> QED
  BY <1>1, <1>2, <1>3 DEF ReportInv

\* Whatever the capacity, the retries and the interleaving, a run that returns with its
\* hook thread joined reports every message the queue ever took, and every action of
\* those it carried out.
THEOREM SpecReportIsComplete == Spec => []ReportIsComplete
<1>1. Init => ReportInv
  BY DEF Init, ReportInv, StopsAt
<1>2. CountInv /\ JoinedInv /\ ReportInv /\ [Next]_vars => ReportInv'
  BY ReportStep
<1>3. CountInv /\ WorkInv /\ ReportInv => ReportIsComplete
  <2> SUFFICES ASSUME CountInv, WorkInv, ReportInv, main = "returned", ~detached
               PROVE  carried_out + report.failed = accepted /\ report.dispatched = due
    BY DEF ReportIsComplete
  <2>1. worker = "exited" /\ queue = <<>> /\ report = [dispatched |-> dispatched, failed |-> failed]
    BY DEF ReportInv, Orderly
  <2>2. Stops = 0 /\ Busy = 0 /\ Len(queue) = 0
    BY <2>1 DEF Stops, StopsAt, Busy
  <2>3. Account(accepted, Stops, carried_out, failed, Busy, Len(queue)) /\ TypesButCounts
    BY DEF CountInv
  <2>4. carried_out + report.failed = accepted
    BY <2>1, <2>2, <2>3, AccountTerms DEF Account
  <2>5. report.dispatched = due
    BY <2>1, EmptyAsksNothing DEF WorkInv
  <2> QED
    BY <2>4, <2>5
<1> QED
  BY <1>1, <1>2, <1>3, SpecCounts, SpecWork, SpecJoined, PTL DEF Spec

-----------------------------------------------------------------------------
(***************************************************************************)
(* The plan of a chord.                                                    *)
(***************************************************************************)

\* What the chord presses: its target, and its modifiers the user does not hold.
PressedKeys == {Left[m] : m \in Modifier \cap (wanted \ planned)} \cup {Target}

LEMMA LeftKeys ==
  /\ \A m \in Modifier : Left[m] \in Key \ {Target} /\ Right[m] \in Key
  /\ \A m, other \in Modifier : Left[m] # Right[other] /\ (Left[m] = Left[other] => m = other)
  /\ Target \in Key
  /\ \A m \in Modifier : Right[m] # Target
BY DEF Modifier, Left, Right, Key, Target, Windows

LEMMA OneKey ==
  ASSUME NEW S, NEW x \in S
  PROVE  <<x>> \in Seq(S) /\ Len(<<x>>) = 1 /\ Range(<<x>>) = {x}
<1>1. <<x>> \in Seq(S) /\ Len(<<x>>) = 1 /\ <<x>>[1] = x
  OBVIOUS
<1>2. Range(<<x>>) = {<<x>>[i] : i \in 1..1}
  BY <1>1, RangeEquality
<1> QED
  BY <1>1, <1>2

LEMMA Joining ==
  ASSUME NEW S, NEW s \in Seq(S), NEW t \in Seq(S)
  PROVE  /\ s \o t \in Seq(S)
         /\ Len(s \o t) = Len(s) + Len(t)
         /\ Range(s \o t) = Range(s) \cup Range(t)
BY ConcatProperties, RangeConcatenation

LEMMA PressedModifier ==
  ASSUME NEW m \in Modifier
  PROVE  /\ Pressed(m) \in Seq(Key)
         /\ Len(Pressed(m)) \in 0..1
         /\ Range(Pressed(m)) = IF m \in wanted \ planned THEN {Left[m]} ELSE {}
<1>1. Left[m] \in Key
  BY LeftKeys
<1>2. CASE m \in wanted \ planned
  <2>1. Pressed(m) = <<Left[m]>>
    BY <1>2 DEF Pressed
  <2>2. <<Left[m]>> \in Seq(Key) /\ Len(<<Left[m]>>) = 1 /\ Range(<<Left[m]>>) = {Left[m]}
    BY <1>1, OneKey
  <2> QED
    BY <1>2, <2>1, <2>2
<1>3. CASE m \notin wanted \ planned
  <2>1. Pressed(m) = <<>>
    BY <1>3 DEF Pressed
  <2> QED
    BY <1>3, <2>1 DEF Range
<1> QED
  BY <1>2, <1>3

LEMMA ChordKeysProperties ==
  /\ ChordKeys \in Seq(Key)
  /\ Len(ChordKeys) \in 1..4
  /\ Range(ChordKeys) = PressedKeys
<1> DEFINE control == Pressed("control")
           alt == Pressed("alt")
           shift == Pressed("shift")
           two == control \o alt
           three == two \o shift
           last == <<Target>>
<1>1. {"control", "alt", "shift"} = Modifier
  BY DEF Modifier
<1>2. /\ control \in Seq(Key) /\ Len(control) \in 0..1
      /\ Range(control) = IF "control" \in wanted \ planned THEN {Left["control"]} ELSE {}
  BY <1>1, PressedModifier
<1>3. /\ alt \in Seq(Key) /\ Len(alt) \in 0..1
      /\ Range(alt) = IF "alt" \in wanted \ planned THEN {Left["alt"]} ELSE {}
  BY <1>1, PressedModifier
<1>4. /\ shift \in Seq(Key) /\ Len(shift) \in 0..1
      /\ Range(shift) = IF "shift" \in wanted \ planned THEN {Left["shift"]} ELSE {}
  BY <1>1, PressedModifier
<1>5. <<Target>> \in Seq(Key) /\ Len(<<Target>>) = 1 /\ Range(<<Target>>) = {Target}
  BY LeftKeys, OneKey
<1>6. ChordKeys = ((control \o alt) \o shift) \o <<Target>>
  BY DEF ChordKeys
<1> HIDE DEF control, alt, shift, last
<1>7. /\ two \in Seq(Key) /\ Len(two) = Len(control) + Len(alt)
      /\ Range(two) = Range(control) \cup Range(alt)
  <2>1. control \in Seq(Key) /\ alt \in Seq(Key)
    BY <1>2, <1>3
  <2> QED
    BY <2>1, Joining, Zenon
<1> HIDE DEF two
<1>8. /\ three \in Seq(Key) /\ Len(three) = Len(two) + Len(shift)
      /\ Range(three) = Range(two) \cup Range(shift)
  <2>1. two \in Seq(Key) /\ shift \in Seq(Key)
    BY <1>4, <1>7
  <2> QED
    BY <2>1, Joining, Zenon
<1> HIDE DEF three
<1>9. /\ ChordKeys \in Seq(Key) /\ Len(ChordKeys) = Len(three) + 1
      /\ Range(ChordKeys) = Range(three) \cup {Target}
  <2>1. last \in Seq(Key) /\ Len(last) = 1 /\ Range(last) = {Target}
    BY <1>5 DEF last
  <2>2. ChordKeys = three \o last
    BY <1>6 DEF two, three, last
  <2>3. /\ three \o last \in Seq(Key)
        /\ Len(three \o last) = Len(three) + Len(last)
        /\ Range(three \o last) = Range(three) \cup Range(last)
    <3>1. three \in Seq(Key) /\ last \in Seq(Key)
      BY <1>8, <2>1
    <3> QED
      BY <3>1, Joining, Zenon
  <2> QED
    BY <2>1, <2>2, <2>3
<1>10. Range(control) \cup Range(alt) \cup Range(shift)
         = {Left[m] : m \in Modifier \cap (wanted \ planned)}
  BY <1>2, <1>3, <1>4 DEF Modifier
<1>11. Len(ChordKeys) \in 1..4
  <2>1. Len(ChordKeys) = Len(control) + Len(alt) + Len(shift) + 1
    BY <1>7, <1>8, <1>9
  <2>2. Len(control) \in 0..1 /\ Len(alt) \in 0..1 /\ Len(shift) \in 0..1
    BY <1>2, <1>3, <1>4
  <2>3. \A i, j, k \in 0..1 : i + j + k + 1 \in 1..4
    OBVIOUS
  <2> QED
    BY <2>1, <2>2, <2>3, Zenon
<1> QED
  BY <1>7, <1>8, <1>9, <1>10, <1>11 DEF PressedKeys

Event == [key: Key, transition: {"Down", "Up"}]

LEMMA EventsProperties ==
  ASSUME NEW pressed \in Seq(Key), NEW transition \in {"Down", "Up"}
  PROVE  /\ Events(pressed, transition) \in Seq(Event)
         /\ Len(Events(pressed, transition)) = Len(pressed)
         /\ Range(Events(pressed, transition)) = {[key |-> k, transition |-> transition] : k \in Range(pressed)}
<1>1. /\ Events(pressed, transition) \in Seq(Event)
      /\ Len(Events(pressed, transition)) = Len(pressed)
  BY DEF Events, Event
<1>2. Range(pressed) = {pressed[i] : i \in 1..Len(pressed)}
  BY RangeEquality
<1>3. Range(Events(pressed, transition)) = {Events(pressed, transition)[i] : i \in 1..Len(pressed)}
  BY <1>1, RangeEquality
<1> QED
  BY <1>1, <1>2, <1>3 DEF Events

LEMMA PlanProperties ==
  /\ Plan \in Seq(Event)
  /\ Len(Plan) = 2 * Len(ChordKeys)
  /\ Range(Plan) = [key: PressedKeys, transition: {"Down", "Up"}]
  /\ SubSeq(Plan, 1, Len(ChordKeys)) = Events(ChordKeys, "Down")
<1>1. ChordKeys \in Seq(Key) /\ Len(ChordKeys) \in 1..4 /\ Range(ChordKeys) = PressedKeys
  BY ChordKeysProperties
<1>2. /\ Reverse(ChordKeys) \in Seq(Key) /\ Len(Reverse(ChordKeys)) = Len(ChordKeys)
  BY <1>1 DEF Reverse
<1>3. Range(Reverse(ChordKeys)) = Range(ChordKeys)
  <2>1. Range(ChordKeys) = {ChordKeys[i] : i \in 1..Len(ChordKeys)}
    BY <1>1, RangeEquality
  <2>2. Range(Reverse(ChordKeys)) = {Reverse(ChordKeys)[i] : i \in 1..Len(ChordKeys)}
    BY <1>2, RangeEquality
  <2>3. \A i \in 1..Len(ChordKeys) :
          /\ Len(ChordKeys) - i + 1 \in 1..Len(ChordKeys)
          /\ Reverse(ChordKeys)[i] = ChordKeys[Len(ChordKeys) - i + 1]
          /\ Reverse(ChordKeys)[Len(ChordKeys) - i + 1] = ChordKeys[i]
    BY <1>1 DEF Reverse
  <2> QED
    BY <2>1, <2>2, <2>3
<1> DEFINE press == Events(ChordKeys, "Down")
           release == Events(Reverse(ChordKeys), "Up")
<1>4. /\ press \in Seq(Event) /\ Len(press) = Len(ChordKeys)
      /\ Range(press) = {[key |-> k, transition |-> "Down"] : k \in PressedKeys}
  BY <1>1, EventsProperties
<1>5. /\ release \in Seq(Event) /\ Len(release) = Len(ChordKeys)
      /\ Range(release) = {[key |-> k, transition |-> "Up"] : k \in PressedKeys}
  BY <1>1, <1>2, <1>3, EventsProperties
<1>6. Plan = press \o release
  BY DEF Plan
<1> HIDE DEF press, release
<1>7. Plan \in Seq(Event) /\ Len(Plan) = 2 * Len(ChordKeys)
  <2>1. Plan \in Seq(Event) /\ Len(Plan) = Len(press) + Len(release)
    <3>1. press \in Seq(Event) /\ release \in Seq(Event)
      BY <1>4, <1>5
    <3> QED
      BY <1>6, <3>1, Joining, Zenon
  <2> QED
    BY <1>1, <1>4, <1>5, <2>1
<1>8. Range(Plan) = Range(press) \cup Range(release)
  <2>1. press \in Seq(Event) /\ release \in Seq(Event)
    BY <1>4, <1>5
  <2> QED
    BY <1>6, <2>1, Joining, Zenon
<1>9. Range(Plan) = [key: PressedKeys, transition: {"Down", "Up"}]
  <2> DEFINE Downs == {[key |-> k, transition |-> "Down"] : k \in PressedKeys}
             Ups == {[key |-> k, transition |-> "Up"] : k \in PressedKeys}
  <2>1. ASSUME NEW e \in [key: PressedKeys, transition: {"Down", "Up"}]
        PROVE  e \in Downs \cup Ups
    <3>1. e.key \in PressedKeys /\ e = [key |-> e.key, transition |-> e.transition]
      OBVIOUS
    <3>2. CASE e.transition = "Down"
      BY <3>1, <3>2
    <3>3. CASE e.transition = "Up"
      BY <3>1, <3>3
    <3> QED
      BY <3>2, <3>3
  <2>2. ASSUME NEW e \in Downs \cup Ups
        PROVE  e \in [key: PressedKeys, transition: {"Down", "Up"}]
    OBVIOUS
  <2>3. Range(Plan) = Downs \cup Ups
    BY <1>4, <1>5, <1>8
  <2> HIDE DEF Downs, Ups
  <2> QED
    BY <2>1, <2>2, <2>3
<1>10. SubSeq(Plan, 1, Len(ChordKeys)) = SubSeq(press, 1, Len(ChordKeys))
  BY <1>1, <1>4, <1>5, <1>6, SubSeqOfConcat1
<1>11. SubSeq(press, 1, Len(ChordKeys)) = press
  BY <1>4, SubSeqFull
<1> QED
  BY <1>7, <1>9, <1>10, <1>11 DEF press

\* What is inserted of the plan touches no key but the pressed ones.
LEMMA InsertedKeys ==
  ASSUME NEW n \in 0..Len(Plan)
  PROVE  /\ SubSeq(Plan, 1, n) \in Seq(Event)
         /\ KeysOf(Range(SubSeq(Plan, 1, n))) \subseteq PressedKeys
         /\ KeysOf(LeftDown(SubSeq(Plan, 1, n))) \subseteq KeysOf(Range(SubSeq(Plan, 1, n)))
<1>1. Plan \in Seq(Event) /\ Range(Plan) = [key: PressedKeys, transition: {"Down", "Up"}]
  BY PlanProperties
<1>2. Len(Plan) \in Nat /\ \A i \in 1..n : Plan[i] \in Event
  BY <1>1
<1>3. /\ SubSeq(Plan, 1, n) \in Seq(Event)
      /\ Len(SubSeq(Plan, 1, n)) = n
      /\ \A i \in 1..n : SubSeq(Plan, 1, n)[i] = Plan[i]
  BY <1>2, SubSeqProperties
<1>4. Range(Plan) = {Plan[i] : i \in 1..Len(Plan)}
  BY <1>1, RangeEquality
<1>5. Range(SubSeq(Plan, 1, n)) = {SubSeq(Plan, 1, n)[i] : i \in 1..Len(SubSeq(Plan, 1, n))}
  BY <1>3, RangeEquality
<1>6. Range(SubSeq(Plan, 1, n)) \subseteq Range(Plan)
  BY <1>2, <1>3, <1>4, <1>5
<1>7. \A e \in Range(Plan) : e.key \in PressedKeys
  BY <1>1
<1> QED
  BY <1>3, <1>6, <1>7 DEF KeysOf, LeftDown

\* A whole plan releases all it presses.
LEMMA WholePlan ==
  /\ SubSeq(Plan, 1, Len(Plan)) = Plan
  /\ KeysOf(Range(Plan)) = PressedKeys
  /\ KeysOf(LeftDown(Plan)) = {}
<1>1. Plan \in Seq(Event) /\ Range(Plan) = [key: PressedKeys, transition: {"Down", "Up"}]
  BY PlanProperties
<1>2. SubSeq(Plan, 1, Len(Plan)) = Plan
  BY <1>1, SubSeqFull
<1>3. KeysOf(Range(Plan)) = PressedKeys
  <2>1. \A k \in PressedKeys : [key |-> k, transition |-> "Up"] \in Range(Plan)
    BY <1>1
  <2>2. \A e \in Range(Plan) : e.key \in PressedKeys
    BY <1>1
  <2>3. \A k \in PressedKeys : [key |-> k, transition |-> "Up"].key = k
    OBVIOUS
  <2> QED
    BY <2>1, <2>2, <2>3 DEF KeysOf
<1>4. LeftDown(Plan) = {}
  BY <1>1 DEF LeftDown
<1> QED
  BY <1>2, <1>3, <1>4 DEF KeysOf

\* The half that presses leaves every pressed key down.
LEMMA PressHalf ==
  ASSUME NEW held
  PROVE  After(held, SubSeq(Plan, 1, Len(ChordKeys))) = held \cup PressedKeys
<1> DEFINE half == Events(ChordKeys, "Down")
<1>1. SubSeq(Plan, 1, Len(ChordKeys)) = half
  BY PlanProperties
<1>2. Range(half) = {[key |-> k, transition |-> "Down"] : k \in PressedKeys}
  BY ChordKeysProperties, EventsProperties
<1> HIDE DEF half
<1>3. LeftDown(half) = Range(half)
  <2>1. \A e \in Range(half) : e.transition = "Down" /\ [e EXCEPT !.transition = "Up"].transition = "Up"
    BY <1>2
  <2>2. \A e \in Range(half) : [e EXCEPT !.transition = "Up"] \notin Range(half)
    BY <2>1
  <2> QED
    BY <2>1, <2>2 DEF LeftDown
<1>4. KeysOf(Range(half)) = PressedKeys
  <2>1. \A k \in PressedKeys : [key |-> k, transition |-> "Down"] \in Range(half)
    BY <1>2
  <2>2. \A e \in Range(half) : e.key \in PressedKeys
    BY <1>2
  <2>3. \A k \in PressedKeys : [key |-> k, transition |-> "Down"].key = k
    OBVIOUS
  <2> QED
    BY <2>1, <2>2, <2>3 DEF KeysOf
<1> QED
  BY <1>1, <1>3, <1>4 DEF After

LEMMA SamePlan ==
  ASSUME UNCHANGED <<wanted, planned>>
  PROVE  Plan' = Plan /\ ChordKeys' = ChordKeys /\ PressedKeys' = PressedKeys
BY DEF Plan, ChordKeys, Pressed, PressedKeys

-----------------------------------------------------------------------------
(***************************************************************************)
(* Whose the keys are.                                                     *)
(***************************************************************************)

LeftByInserted == IF step = "partial" THEN CleanupAfter(Inserted) ELSE {}

\* The keyboard state shows the user's press of the key.
SeenHeld(k) == k \in physical /\ ~(k = Target /\ swallowed)

\* Every key that is down is the user's, or the next Cleanup looks at it, or an
\* error told of it.
OwnersInv ==
  /\ \A k \in down : k \in stuck \/ k \in LeftByInserted \/ SeenHeld(k)
  /\ swallowed => Target \in physical
  /\ step = "partial" => sent \in 0..Len(Plan)

\* What has been held since before the plan is down, and the plan does not press it.
KeptInv ==
  /\ kept \subseteq down
  /\ Target \notin kept
  /\ step # "idle" => \A m \in Modifier : Left[m] \in kept => m \in planned

LEMMA KeptUntouched ==
  ASSUME KeptInv, step # "idle"
  PROVE  kept \cap PressedKeys = {}
BY DEF KeptInv, PressedKeys

LEMMA KeptStep ==
  ASSUME KeptInv, OwnersInv, [ChordNext]_chord_vars
  PROVE  KeptInv'
<1> USE DEF KeptInv
<1>1. ASSUME NEW modifiers, NEW replay, SendChord(modifiers, replay)
      PROVE  KeptInv'
  <2>1. kept' = (physical \cap down) \ {Target} /\ down' = down
    BY <1>1 DEF SendChord, user_vars
  <2>2. step' = "idle" \/ planned' = Captured
    BY <1>1 DEF SendChord, End
  <2>3. \A m \in Modifier : Left[m] \in down => m \in Captured
    BY DEF Captured, HeldModifiers
  <2> QED
    BY <2>1, <2>2, <2>3
<1>2. CASE CheckTarget \/ Recheck
  BY <1>2 DEF CheckTarget, Recheck, End, request, user_vars
<1>3. ASSUME NEW n \in 0..Len(Plan), Insert(n)
      PROVE  KeptInv'
  <2>1. step = "checked" /\ kept' = kept /\ down' = After(down, SubSeq(Plan, 1, n))
    BY <1>3 DEF Insert
  <2>2. kept \subseteq down'
    <3>1. kept \cap PressedKeys = {}
      BY <2>1, KeptUntouched
    <3>2. KeysOf(Range(SubSeq(Plan, 1, n))) \subseteq PressedKeys
      BY InsertedKeys
    <3> QED
      BY <2>1, <3>1, <3>2 DEF After
  <2>3. step' = "idle" \/ planned' = planned
    BY <1>3 DEF Insert, End, request
  <2> QED
    BY <2>1, <2>2, <2>3
<1>4. ASSUME NEW released, Cleanup(released)
      PROVE  KeptInv'
  <2>1. /\ step = "partial" /\ released \subseteq CleanupAfter(Inserted)
        /\ kept' = kept /\ down' = down \ released /\ step' = "idle"
    BY <1>4 DEF Cleanup, End
  <2>2. kept \cap PressedKeys = {}
    BY <2>1, KeptUntouched
  <2>3. CleanupAfter(Inserted) \subseteq PressedKeys
    BY <2>1, InsertedKeys DEF OwnersInv, CleanupAfter, Inserted
  <2> QED
    BY <2>1, <2>2, <2>3
<1>5. ASSUME NEW k, Press(k)
      PROVE  KeptInv'
  BY <1>5 DEF Press, request
<1>6. ASSUME NEW k, Release(k)
      PROVE  KeptInv'
  BY <1>6 DEF Release, request
<1>7. CASE FocusChange
  BY <1>7 DEF FocusChange, request
<1>8. CASE UNCHANGED chord_vars
  BY <1>8 DEF chord_vars, user_vars, request
<1> QED
  BY <1>1, <1>2, <1>3, <1>4, <1>5, <1>6, <1>7, <1>8 DEF ChordNext

\* A step that leaves the plan and its progress alone leaves the same keys to clean up.
LEMMA SameLeftovers ==
  ASSUME UNCHANGED <<step, request, sent>>
  PROVE  LeftByInserted' = LeftByInserted /\ Len(Plan)' = Len(Plan)
<1>1. Plan' = Plan
  BY SamePlan DEF request
<1> QED
  BY <1>1 DEF LeftByInserted, CleanupAfter, Inserted, request

LEMMA OwnersStep ==
  ASSUME OwnersInv, [ChordNext]_chord_vars
  PROVE  OwnersInv'
<1> USE DEF OwnersInv, SeenHeld
<1>1. ASSUME NEW modifiers, NEW replay, SendChord(modifiers, replay)
      PROVE  OwnersInv'
  <2>1. UNCHANGED <<physical, swallowed, down, stuck>> /\ step = "idle" /\ step' # "partial"
    BY <1>1 DEF SendChord, End, user_vars
  <2>2. LeftByInserted = {}
    BY <2>1 DEF LeftByInserted
  <2> QED
    BY <2>1, <2>2
<1>2. CASE CheckTarget \/ Recheck
  <2>1. UNCHANGED <<physical, swallowed, down, stuck>> /\ step # "partial" /\ step' # "partial"
    BY <1>2 DEF CheckTarget, Recheck, End, user_vars
  <2>2. LeftByInserted = {}
    BY <2>1 DEF LeftByInserted
  <2> QED
    BY <2>1, <2>2
<1>3. ASSUME NEW n \in 0..Len(Plan), Insert(n)
      PROVE  OwnersInv'
  <2> DEFINE events == SubSeq(Plan, 1, n)
             touched == KeysOf(Range(events))
             left == KeysOf(LeftDown(events))
  <2>1. /\ step = "checked" /\ UNCHANGED <<physical, swallowed>>
        /\ down' = (down \ touched) \cup left
        /\ stuck' = stuck \ touched
    BY <1>3 DEF Insert, After
  <2>2. LeftByInserted = {}
    BY <2>1 DEF LeftByInserted
  <2>3. CASE n = Len(Plan)
    <3>1. left = {}
      BY <2>3, WholePlan
    <3>2. step' = "idle"
      BY <1>3, <2>3 DEF Insert, End
    <3> HIDE DEF events, touched, left
    <3> QED
      BY <2>1, <2>2, <3>1, <3>2
  <2>4. CASE n # Len(Plan)
    <3>1. step' = "partial" /\ sent' = n /\ UNCHANGED <<wanted, planned>>
      BY <1>3, <2>4 DEF Insert, request
    <3>2. Plan' = Plan
      BY <3>1, SamePlan
    <3>3. LeftByInserted' = left
      BY <3>1, <3>2 DEF LeftByInserted, CleanupAfter, Inserted
    <3>4. sent' \in 0..Len(Plan)'
      BY <3>1, <3>2
    <3> HIDE DEF events, touched, left
    <3> QED
      BY <2>1, <2>2, <3>1, <3>3, <3>4
  <2> QED
    BY <2>3, <2>4
<1>4. ASSUME NEW released, Cleanup(released)
      PROVE  OwnersInv'
  <2>1. /\ step = "partial" /\ step' = "idle"
        /\ UNCHANGED <<physical, swallowed>>
        /\ down' = down \ released
        /\ stuck' = (stuck \ released) \cup (CleanupAfter(Inserted) \ released)
    BY <1>4 DEF Cleanup, End
  <2>2. LeftByInserted = CleanupAfter(Inserted)
    BY <2>1 DEF LeftByInserted
  <2> QED
    BY <2>1, <2>2
<1>5. ASSUME NEW k, Press(k)
      PROVE  OwnersInv'
  <2>1. UNCHANGED <<step, request, sent>> /\ k \notin physical /\ physical' = physical \cup {k}
    BY <1>5 DEF Press
  <2>2. LeftByInserted' = LeftByInserted /\ Len(Plan)' = Len(Plan)
    BY <2>1, SameLeftovers
  <2>3. \/ down' = down \cup {k} /\ stuck' = stuck \ {k} /\ swallowed' = swallowed
        \/ k = Target /\ swallowed' = TRUE /\ down' = down /\ stuck' = stuck
    BY <1>5 DEF Press
  <2> QED
    BY <2>1, <2>2, <2>3
<1>6. ASSUME NEW k, Release(k)
      PROVE  OwnersInv'
  <2>1. UNCHANGED <<step, request, sent>> /\ k \in physical /\ physical' = physical \ {k}
    BY <1>6 DEF Release
  <2>2. LeftByInserted' = LeftByInserted /\ Len(Plan)' = Len(Plan)
    BY <2>1, SameLeftovers
  <2>3. CASE k = Target /\ swallowed
    <3>1. swallowed' = FALSE /\ down' = down /\ stuck' = stuck
      BY <1>6, <2>3 DEF Release
    <3> QED
      BY <2>1, <2>2, <2>3, <3>1
  <2>4. CASE ~(k = Target /\ swallowed)
    <3>1. down' = down \ {k} /\ stuck' = stuck \ {k} /\ swallowed' = swallowed
      BY <1>6, <2>4 DEF Release
    <3> QED
      BY <2>1, <2>2, <2>4, <3>1
  <2> QED
    BY <2>3, <2>4
<1>7. CASE FocusChange \/ UNCHANGED chord_vars
  <2>1. UNCHANGED <<physical, swallowed, down, stuck, step, request, sent>>
    BY <1>7 DEF FocusChange, chord_vars, user_vars
  <2>2. LeftByInserted' = LeftByInserted /\ Len(Plan)' = Len(Plan)
    BY <2>1, SameLeftovers
  <2> QED
    BY <2>1, <2>2
<1> QED
  BY <1>1, <1>2, <1>3, <1>4, <1>5, <1>6, <1>7 DEF ChordNext

\* Whatever keys the user touches, and however little SendInput inserts, a chord and
\* its cleanup leave no key down that the user does not hold, but those an error told
\* of, and release no modifier the user has held all along.
THEOREM SpecKeyboardIsTheUsers == ChordSpec => []KeyboardIsTheUsers
<1>1. ChordInit => OwnersInv /\ KeptInv
  BY DEF ChordInit, OwnersInv, KeptInv
<1>2. OwnersInv /\ KeptInv /\ [ChordNext]_chord_vars => (OwnersInv /\ KeptInv)'
  BY OwnersStep, KeptStep
<1>3. OwnersInv /\ KeptInv => KeyboardIsTheUsers
  BY DEF OwnersInv, KeptInv, LeftByInserted, SeenHeld, KeyboardIsTheUsers, NothingStuck,
     HeldKeysStay
<1> QED
  BY <1>1, <1>2, <1>3, PTL DEF ChordSpec

-----------------------------------------------------------------------------
(***************************************************************************)
(* What a chord is heard as.                                               *)
(***************************************************************************)

\* The snapshot the plan was built on still holds where send_chord relies on it.
SnapshotInv ==
  /\ wanted \subseteq Modifier /\ planned \cap Modifier \subseteq wanted
  /\ step = "checked" /\ "keys" \in steady => HeldModifiers(down) = planned \cap Modifier
  /\ "window" \in steady => front

LEMMA CapturedModifiers == Captured \cap Modifier = HeldModifiers(down)
BY DEF Captured, HeldModifiers, Modifier, Windows, Target

LEMMA SnapshotStep ==
  ASSUME SnapshotInv, [ChordNext]_chord_vars
  PROVE  SnapshotInv'
<1> USE DEF SnapshotInv
<1>1. ASSUME NEW modifiers \in SUBSET Modifier, NEW replay, SendChord(modifiers, replay)
      PROVE  SnapshotInv'
  <2>1. front' = front /\ step' # "checked"
    BY <1>1 DEF SendChord, End, user_vars
  <2>2. CASE Refused(modifiers, replay, Captured)
    BY <1>1, <2>1, <2>2 DEF SendChord, End
  <2>3. CASE ~Refused(modifiers, replay, Captured)
    BY <1>1, <2>1, <2>3 DEF SendChord, Refused
  <2> QED
    BY <2>2, <2>3
<1>2. CASE CheckTarget
  BY <1>2 DEF CheckTarget, End, request, user_vars
<1>3. CASE Recheck
  <2>1. front' = front /\ down' = down
    BY <1>3 DEF Recheck, user_vars
  <2>2. CASE Drifted
    BY <1>3, <2>1, <2>2 DEF Recheck, End
  <2>3. CASE ~Drifted
    <3>1. /\ steady' = steady \cup {"keys"} /\ wanted' = wanted /\ planned' = planned
      BY <1>3, <2>3 DEF Recheck, request
    <3>2. Captured \cap Modifier = planned \cap Modifier
      BY <2>3 DEF Drifted
    <3>3. HeldModifiers(down)' = HeldModifiers(down)
      BY <2>1 DEF HeldModifiers
    <3> QED
      BY <2>1, <3>1, <3>2, <3>3, CapturedModifiers
  <2> QED
    BY <2>2, <2>3
<1>4. ASSUME NEW n, Insert(n)
      PROVE  SnapshotInv'
  BY <1>4 DEF Insert, End, request
<1>5. ASSUME NEW released, Cleanup(released)
      PROVE  SnapshotInv'
  BY <1>5 DEF Cleanup, End
<1>6. ASSUME NEW k, Press(k) \/ Release(k)
      PROVE  SnapshotInv'
  BY <1>6 DEF Press, Release, request
<1>7. CASE FocusChange
  <2>1. /\ steady' = steady \ {"window"} /\ UNCHANGED <<down, step, wanted, planned>>
    BY <1>7 DEF FocusChange, request
  <2> QED
    BY <2>1 DEF HeldModifiers
<1>8. CASE UNCHANGED chord_vars
  <2>1. UNCHANGED <<front, steady, down, step, wanted, planned>>
    BY <1>8 DEF chord_vars, user_vars, request
  <2> QED
    BY <2>1 DEF HeldModifiers
<1> QED
  BY <1>1, <1>2, <1>3, <1>4, <1>5, <1>6, <1>7, <1>8 DEF ChordNext

\* The modifiers that are down while the target is pressed are those the user holds
\* and those the plan presses.
LEMMA HeldWhileTyped ==
  ASSUME NEW held
  PROVE  HeldModifiers(held \cup PressedKeys)
           = HeldModifiers(held) \cup (Modifier \cap (wanted \ planned))
<1>1. \A m \in Modifier : Right[m] \notin PressedKeys
  BY LeftKeys DEF PressedKeys
<1>2. \A m \in Modifier : Left[m] \in PressedKeys <=> m \in wanted \ planned
  BY LeftKeys DEF PressedKeys
<1> QED
  BY <1>1, <1>2 DEF HeldModifiers

LEMMA HeardStep ==
  ASSUME SnapshotInv, HeardAsPlanned, [ChordNext]_chord_vars
  PROVE  HeardAsPlanned'
<1> USE DEF HeardAsPlanned
<1>1. ASSUME NEW n \in 0..Len(Plan), Insert(n)
      PROVE  HeardAsPlanned'
  <2>1. CASE n < Len(ChordKeys)
    <3>1. heard' = Silence
      BY <1>1, <2>1 DEF Insert
    <3> QED
      BY <3>1 DEF Silence
  <2>2. CASE ~(n < Len(ChordKeys))
    <3>1. heard' = [wanted |-> wanted,
                    modifiers |-> HeldModifiers(After(down, SubSeq(Plan, 1, Len(ChordKeys)))),
                    front |-> front, steady |-> steady]
      BY <1>1, <2>2 DEF Insert
    <3>2. heard'.front = front /\ heard'.steady = steady /\ heard'.wanted = wanted
      BY <3>1
    <3>3. heard'.modifiers = HeldModifiers(down) \cup (Modifier \cap (wanted \ planned))
      BY <3>1, PressHalf, HeldWhileTyped
    <3>4. "keys" \in steady => heard'.modifiers = wanted
      <4>1. step = "checked"
        BY <1>1 DEF Insert
      <4> QED
        BY <3>3, <4>1 DEF SnapshotInv
    <3>5. "window" \in steady => front
      BY DEF SnapshotInv
    <3> QED
      BY <3>2, <3>4, <3>5
  <2> QED
    BY <2>1, <2>2
<1>2. ASSUME NEW modifiers, NEW replay, SendChord(modifiers, replay)
      PROVE  HeardAsPlanned'
  <2>1. heard' = Silence
    BY <1>2 DEF SendChord
  <2> QED
    BY <2>1 DEF Silence
<1>3. CASE UNCHANGED heard
  BY <1>3
<1> QED
  BY <1>1, <1>2, <1>3 DEF ChordNext, CheckTarget, Recheck, Cleanup, Press, Release, FocusChange,
     chord_vars

\* A chord goes to the target window with its modifiers and no other, for every chord,
\* unless the window or the keys changed after send_chord last looked at them.
THEOREM SpecHeardAsPlanned == ChordSpec => []HeardAsPlanned
<1>1. ChordInit => SnapshotInv /\ HeardAsPlanned
  BY DEF ChordInit, SnapshotInv, HeardAsPlanned, Silence
<1>2. SnapshotInv /\ HeardAsPlanned /\ [ChordNext]_chord_vars => (SnapshotInv /\ HeardAsPlanned)'
  BY SnapshotStep, HeardStep
<1> QED
  BY <1>1, <1>2, PTL DEF ChordSpec

-----------------------------------------------------------------------------
(***************************************************************************)
(* Types of the chord.                                                     *)
(***************************************************************************)
Switches == swallowed \in BOOLEAN /\ front \in BOOLEAN /\ literal \in BOOLEAN

LEMMA SwitchesStep ==
  ASSUME Switches, [ChordNext]_chord_vars
  PROVE  Switches'
<1> USE Zenon DEF Switches
<1>1. ASSUME NEW modifiers \in SUBSET Modifier, NEW replay \in BOOLEAN, SendChord(modifiers, replay)
      PROVE  Switches'
  BY <1>1 DEF SendChord, End, user_vars
<1>2. CASE CheckTarget
  BY <1>2 DEF CheckTarget, End, user_vars, request
<1>3. CASE Recheck
  BY <1>3 DEF Recheck, End, user_vars, request
<1>4. ASSUME NEW n \in 0..Len(Plan), Insert(n)
      PROVE  Switches'
  BY <1>4 DEF Insert, End, request
<1>5. ASSUME NEW released \in SUBSET CleanupAfter(Inserted), Cleanup(released)
      PROVE  Switches'
  BY <1>5 DEF Cleanup, End
<1>6. ASSUME NEW k \in UserKeys, Press(k)
      PROVE  Switches'
  BY <1>6 DEF Press, request
<1>7. ASSUME NEW k \in UserKeys, Release(k)
      PROVE  Switches'
  BY <1>7 DEF Release, request
<1>8. CASE FocusChange
  BY <1>8 DEF FocusChange, request
<1>9. CASE UNCHANGED chord_vars
  BY <1>9 DEF chord_vars, user_vars, request
<1> QED
  BY <1>1, <1>2, <1>3, <1>4, <1>5, <1>6, <1>7, <1>8, <1>9 DEF ChordNext

\* Each of the three modifiers is planned at most once and the target once, down and up,
\* whatever is wanted and held.
LEMMA PlanIsShort == Len(Plan) \in Nat /\ Len(Plan) <= 8 /\ Len(ChordKeys) \in 1..4
BY PlanProperties, ChordKeysProperties

Heard == [wanted: SUBSET Modifier, modifiers: SUBSET Modifier,
          front: BOOLEAN, steady: SUBSET {"window", "keys"}]

ChordTypes ==
  /\ physical \subseteq Key /\ down \subseteq Key /\ kept \subseteq Key /\ stuck \subseteq Key
  /\ steady \subseteq {"window", "keys"}
  /\ step \in {"idle", "planned", "focused", "checked", "partial"}
  /\ wanted \subseteq Modifier /\ planned \subseteq Modifier \cup {Windows, Target}
  /\ sent \in 0..8

LEMMA TypesOfChord == ChordTypeOK <=> ChordTypes /\ Switches /\ heard \in Heard
<1>1. {swallowed, front, literal} \subseteq BOOLEAN <=> Switches
  BY Zenon DEF Switches
<1>2. Len(Plan) <= 8
  BY PlanIsShort
<1> QED
  BY <1>1, <1>2 DEF ChordTypeOK, ChordTypes, Heard

\* What End leaves, but for the switch.
EndsTyped == step' = "idle" /\ wanted' = {} /\ planned' = {} /\ sent' = 0 /\ steady' = {}

LEMMA EndIsTyped == End => EndsTyped
BY DEF End, EndsTyped

LEMMA ChordTypesStep ==
  ASSUME ChordTypes, OwnersInv, [ChordNext]_chord_vars
  PROVE  ChordTypes'
<1> USE DEF ChordTypes
<1>0. Target \in Key /\ UserKeys \subseteq Key /\ PressedKeys \subseteq Key
  BY UserKeysAssumption, LeftKeys DEF Key, PressedKeys
<1>1. ASSUME NEW modifiers \in SUBSET Modifier, NEW replay \in BOOLEAN, SendChord(modifiers, replay)
      PROVE  ChordTypes'
  <2>1. Captured \subseteq Modifier \cup {Windows, Target}
    BY DEF Captured, HeldModifiers
  <2>2. \/ EndsTyped
        \/ /\ step' = "planned" /\ wanted' = modifiers /\ planned' = Captured
           /\ sent' = sent /\ steady' = steady
    BY <1>1, EndIsTyped DEF SendChord
  <2>3. kept' = (physical \cap down) \ {Target} /\ UNCHANGED <<physical, down, stuck>>
    BY <1>1 DEF SendChord, user_vars
  <2>4. CASE EndsTyped
    BY <2>3, <2>4 DEF EndsTyped
  <2>5. CASE ~EndsTyped
    BY <2>1, <2>2, <2>3, <2>5
  <2> QED
    BY <2>4, <2>5
<1>2. CASE CheckTarget
  BY <1>2 DEF CheckTarget, End, user_vars, request
<1>3. CASE Recheck
  <2>1. \/ EndsTyped
        \/ /\ step' = "checked" /\ steady' = steady \cup {"keys"}
           /\ wanted' = wanted /\ planned' = planned /\ sent' = sent
    BY <1>3, EndIsTyped DEF Recheck, request
  <2>2. UNCHANGED <<physical, down, kept, stuck>>
    BY <1>3 DEF Recheck, user_vars
  <2>3. steady \cup {"keys"} \subseteq {"window", "keys"}
    OBVIOUS
  <2>4. CASE EndsTyped
    BY <2>2, <2>4 DEF EndsTyped
  <2>5. CASE ~EndsTyped
    BY <2>1, <2>2, <2>3, <2>5
  <2> QED
    BY <2>4, <2>5
<1>4. ASSUME NEW n \in 0..Len(Plan), Insert(n)
      PROVE  ChordTypes'
  <2>1. KeysOf(Range(SubSeq(Plan, 1, n))) \subseteq Key /\ KeysOf(LeftDown(SubSeq(Plan, 1, n))) \subseteq Key
    BY <1>0, InsertedKeys
  <2>2. down' \subseteq Key /\ stuck' \subseteq Key
    BY <1>4, <2>1 DEF Insert, After
  <2>3. \/ EndsTyped
        \/ /\ step' = "partial" /\ sent' = n /\ steady' = steady
           /\ wanted' = wanted /\ planned' = planned
    BY <1>4, EndIsTyped DEF Insert, request
  <2>4. n \in 0..8
    BY PlanIsShort
  <2>5. UNCHANGED <<physical, kept>>
    BY <1>4 DEF Insert
  <2> QED
    <3>1. CASE EndsTyped
      BY <2>2, <2>5, <3>1 DEF EndsTyped
    <3>2. CASE ~EndsTyped
      BY <2>2, <2>3, <2>4, <2>5, <3>2
    <3> QED
      BY <3>1, <3>2
<1>5. ASSUME NEW released \in SUBSET CleanupAfter(Inserted), Cleanup(released)
      PROVE  ChordTypes'
  <2>1. CleanupAfter(Inserted) \subseteq Key
    BY <1>0, <1>5, InsertedKeys DEF OwnersInv, CleanupAfter, Inserted, Cleanup
  <2> QED
    BY <1>5, <2>1 DEF Cleanup, End
<1>6. ASSUME NEW k \in UserKeys, Press(k) \/ Release(k)
      PROVE  ChordTypes'
  BY <1>0, <1>6 DEF Press, Release, request
<1>7. CASE FocusChange
  BY <1>7 DEF FocusChange, request
<1>8. CASE UNCHANGED chord_vars
  BY <1>8 DEF chord_vars, user_vars, request
<1> QED
  BY <1>1, <1>2, <1>3, <1>4, <1>5, <1>6, <1>7, <1>8 DEF ChordNext

LEMMA HeardTypesStep ==
  ASSUME ChordTypes, Switches, heard \in Heard, [ChordNext]_chord_vars
  PROVE  heard' \in Heard
<1>1. Silence \in Heard
  BY Zenon DEF Silence, Heard
<1>2. ASSUME NEW n \in 0..Len(Plan), Insert(n)
      PROVE  heard' \in Heard
  <2>1. HeldModifiers(After(down, SubSeq(Plan, 1, Len(ChordKeys)))) \in SUBSET Modifier
    BY DEF HeldModifiers
  <2>2. front \in BOOLEAN /\ steady \in SUBSET {"window", "keys"} /\ wanted \in SUBSET Modifier
    BY Zenon DEF Switches, ChordTypes
  <2> QED
    BY <1>1, <1>2, <2>1, <2>2, Zenon DEF Insert, Heard
<1>3. ASSUME ~\E n \in 0..Len(Plan) : Insert(n)
      PROVE  heard' \in {heard, Silence}
  BY <1>3 DEF ChordNext, SendChord, CheckTarget, Recheck, Cleanup, Press, Release, FocusChange,
     chord_vars
<1> QED
  BY <1>1, <1>2, <1>3

\* Whatever is inserted of a chord and whenever the user interferes, only keys of the
\* keyboard go down, and no plan exceeds eight events.
THEOREM SpecChordTypeOK == ChordSpec => []ChordTypeOK
<1> DEFINE I == ChordTypes /\ OwnersInv /\ Switches /\ heard \in Heard
<1>1. ChordInit => I
  <2>1. ChordInit => Switches
    BY Zenon DEF ChordInit, Switches
  <2>2. Silence \in Heard
    BY Zenon DEF Silence, Heard
  <2> QED
    BY <2>1, <2>2 DEF ChordInit, ChordTypes, OwnersInv
<1>2. I /\ [ChordNext]_chord_vars => I'
  BY ChordTypesStep, OwnersStep, SwitchesStep, HeardTypesStep
<1>3. I => ChordTypeOK
  BY TypesOfChord
<1> QED
  BY <1>1, <1>2, <1>3, PTL DEF ChordSpec

=============================================================================
