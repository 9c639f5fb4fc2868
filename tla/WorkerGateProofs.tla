-------------------------- MODULE WorkerGateProofs --------------------------
(***************************************************************************)
(* What is proved of WorkerGate for every set of polls, requests and rows: *)
(* its type invariant, and that a held poll misses a wake-up only in the   *)
(* ways NoMissedWork and NoMissedResume name.                              *)
(*                                                                         *)
(* Both are about parked polls and neither is inductive: a poll becomes    *)
(* parked when it finds its event down, so what the event being down says  *)
(* has to hold of the polls that have not looked at it yet, from the       *)
(* moment they read what the event is about (Query for the work, ReadGate  *)
(* for the row of the gate).                                               *)
(***************************************************************************)
EXTENDS WorkerGate, TLAPS

-----------------------------------------------------------------------------
(* What sending a signal does *)

(* Notify raises one event, and of a poll it changes the place only: parked on that
   event becomes woken (asyncio.Event.set).                                        *)
LEMMA NotifyWakes ==
  ASSUME TypeOK, NEW e \in {"work", "control"}, Notify(e)
  PROVE  /\ event' \in [{"work", "control"} -> BOOLEAN]
         /\ event'[e]
         /\ \A d \in {"work", "control"} : event[d] => event'[d]
         /\ poll' \in [Pollers -> Poller]
         /\ \A p \in Pollers :
              /\ poll'[p].on = poll[p].on
              /\ poll'[p].paused = poll[p].paused
              /\ poll[p].pc = "parked" /\ poll[p].on = e => poll'[p].pc = "woken"
              /\ ~(poll[p].pc = "parked" /\ poll[p].on = e) => poll'[p].pc = poll[p].pc
<1>1. /\ event' \in [{"work", "control"} -> BOOLEAN]
      /\ event'[e]
      /\ \A d \in {"work", "control"} : event[d] => event'[d]
  BY DEF TypeOK, Notify
<1>2. ASSUME NEW p \in Pollers
      PROVE  /\ poll'[p] \in Poller
             /\ poll'[p].on = poll[p].on
             /\ poll'[p].paused = poll[p].paused
             /\ poll[p].pc = "parked" /\ poll[p].on = e => poll'[p].pc = "woken"
             /\ ~(poll[p].pc = "parked" /\ poll[p].on = e) => poll'[p].pc = poll[p].pc
  BY <1>2 DEF TypeOK, Notify, Poller
<1>3. poll' \in [Pollers -> Poller]
  BY <1>2 DEF Notify
<1> QED BY <1>1, <1>2, <1>3

(* The place a poll goes to is all that Goto changes. *)
LEMMA GotoMoves ==
  ASSUME TypeOK, NEW p \in Pollers,
         NEW pc \in {"away", "gate", "flag", "query", "wait", "parked", "woken", "serving"},
         Goto(p, pc)
  PROVE  /\ poll' \in [Pollers -> Poller]
         /\ poll'[p].pc = pc
         /\ poll'[p].on = poll[p].on
         /\ poll'[p].paused = poll[p].paused
         /\ \A q \in Pollers \ {p} : poll'[q] = poll[q]
BY DEF TypeOK, Goto, Poller

-----------------------------------------------------------------------------
(* Types *)

LEMMA AwayIsAPoller == Away \in Poller
BY DEF Away, Poller

LEMMA NoCallIsARequest == NoCall \in Request
BY DEF NoCall, Request

LEMMA TypeInit == Init => TypeOK
<1> SUFFICES ASSUME Init PROVE TypeOK
  OBVIOUS
<1>1. rows \in [RowIds -> {"none", "open", "paused"}] /\ flag \in BOOLEAN /\ work \subseteq Tiers
  BY DEF Init
<1>2. event \in [{"work", "control"} -> BOOLEAN] /\ begun \in 0 .. MaxCalls
  BY CallsAssumption DEF Init
<1>3. /\ poll \in [Pollers -> Poller]
      /\ \A p \in Pollers : poll[p].pc \in {"query", "serving"} => ~poll[p].paused
  BY AwayIsAPoller DEF Init, Away
<1>4. call \in [Calls -> Request] /\ \A c \in Calls : call[c].pc = "idle" => call[c] = NoCall
  BY NoCallIsARequest DEF Init
<1> QED BY <1>1, <1>2, <1>3, <1>4 DEF TypeOK

(* Steps of a poll. *)
LEMMA TypePollStep ==
  ASSUME TypeOK, NEW p \in Pollers, PollStep(p) \/ Timeout(p)
  PROVE  TypeOK'
<1> USE DEF TypeOK
<1> SUFFICES /\ event' \in [{"work", "control"} -> BOOLEAN]
             /\ poll' \in [Pollers -> Poller]
             /\ \A q \in Pollers : poll'[q].pc \in {"query", "serving"} => ~poll'[q].paused
             /\ UNCHANGED <<rows, flag, work, call, begun>>
  OBVIOUS
<1>1. CASE ReadGate(p)
  <2>1. PICK b \in BOOLEAN :
          poll' = [poll EXCEPT ![p] = [Away EXCEPT !.pc = "flag", !.paused = b]]
    BY <1>1 DEF ReadGate
  <2>2. [Away EXCEPT !.pc = "flag", !.paused = b] \in Poller
    BY DEF Away, Poller
  <2>3. [Away EXCEPT !.pc = "flag", !.paused = b].pc = "flag"
    BY DEF Away
  <2> QED BY <1>1, <2>1, <2>2, <2>3 DEF ReadGate
<1>2. CASE ReadFlag(p)
  <2>1. CASE poll' = [poll EXCEPT ![p] = [@ EXCEPT !.pc = "wait", !.on = "control", !.paused = FALSE]]
    BY <1>2, <2>1 DEF ReadFlag, Poller
  <2>2. CASE ~poll[p].paused /\ Goto(p, "query")
    BY <1>2, <2>2, GotoMoves DEF ReadFlag
  <2> QED BY <1>2, <2>1, <2>2 DEF ReadFlag
<1>3. CASE Query(p)
  <2>1. CASE Goto(p, "serving")
    BY <1>3, <2>1, GotoMoves DEF Query
  <2>2. CASE poll' = [poll EXCEPT ![p] = [@ EXCEPT !.pc = "wait", !.on = "work"]]
    BY <1>3, <2>2 DEF Query, Poller
  <2> QED BY <1>3, <2>1, <2>2 DEF Query
<1>4. CASE Deliver(p)
  BY <1>4, GotoMoves DEF Deliver
<1>5. CASE Wait(p)
  BY <1>5, GotoMoves DEF Wait
<1>6. CASE Wake(p)
  BY <1>6 DEF Wake, Away, Poller
<1>7. CASE Timeout(p)
  BY <1>7 DEF Timeout, Away, Poller
<1> QED BY <1>1, <1>2, <1>3, <1>4, <1>5, <1>6, <1>7 DEF PollStep

(* What SELECT can return is a row that is there. *)
LEMMA FirstRowsAreRows ==
  ASSUME TypeOK, NEW r \in FirstRows
  PROVE  r \in RowIds \cup {0} /\ RowAt(r) \in {"none", "open", "paused"}
BY RowsAssumption DEF TypeOK, FirstRows, Present, RowAt

LEMMA WrittenIsTyped ==
  ASSUME TypeOK, NEW c \in Calls, call[c].kind \in WorkerKinds, NEW new \in Written(c)
  PROVE  new \in [RowIds -> {"none", "open", "paused"}]
<1>1. call[c] \in Request
  BY DEF TypeOK
<1>2. Wanted(c) \in {"none", "open", "paused"}
  BY <1>1 DEF Wanted, Request
<1> QED BY <1>1, <1>2 DEF TypeOK, Written, Request

(* Steps of another request. *)
LEMMA TypeCallStep ==
  ASSUME TypeOK, NEW c \in Calls,
         \/ \E k \in WorkerKinds : WorkerCall(c, k)
         \/ PauseNotify(c) \/ RowCommit(c) \/ WorkCommit(c) \/ CallNotify(c) \/ CallFails(c)
  PROVE  TypeOK'
<1> USE DEF TypeOK
<1>c. call[c] \in Request
  OBVIOUS
<1>1. ASSUME NEW k \in WorkerKinds, WorkerCall(c, k) PROVE TypeOK'
  <2>1. PICK r \in FirstRows :
          call' = [call EXCEPT ![c] = [pc |-> "read", kind |-> k, row |-> r, saw |-> RowAt(r)]]
    BY <1>1 DEF WorkerCall
  <2>2. call' \in [Calls -> Request] /\ \A d \in Calls : call'[d].pc = "idle" => call'[d] = NoCall
    BY <2>1, FirstRowsAreRows DEF Request
  <2>3. begun' \in 0 .. MaxCalls
    BY <1>1, CallsAssumption DEF WorkerCall, Arrives
  <2> QED BY <1>1, <2>2, <2>3 DEF WorkerCall
<1>2. CASE PauseNotify(c)
  <2>1. call' \in [Calls -> Request] /\ \A d \in Calls : call'[d].pc = "idle" => call'[d] = NoCall
    BY <1>2, <1>c DEF PauseNotify, Request
  <2> QED BY <1>2, <2>1, NotifyWakes DEF PauseNotify
<1>3. CASE RowCommit(c)
  <2>1. call' \in [Calls -> Request] /\ \A d \in Calls : call'[d].pc = "idle" => call'[d] = NoCall
    BY <1>3, NoCallIsARequest DEF RowCommit, Request, NoCall
  <2>2. rows' \in [RowIds -> {"none", "open", "paused"}]
    BY <1>3, WrittenIsTyped DEF RowCommit, WorkerKinds
  <2> QED BY <1>3, <2>1, <2>2 DEF RowCommit
<1>4. CASE WorkCommit(c)
  <2>1. call' \in [Calls -> Request] /\ \A d \in Calls : call'[d].pc = "idle" => call'[d] = NoCall
    BY <1>4 DEF WorkCommit, Request, NoCall
  <2>2. begun' \in 0 .. MaxCalls /\ work' \subseteq Tiers
    BY <1>4, CallsAssumption DEF WorkCommit, Arrives
  <2> QED BY <1>4, <2>1, <2>2 DEF WorkCommit
<1>5. CASE CallNotify(c)
  <2>1. call' \in [Calls -> Request] /\ \A d \in Calls : call'[d].pc = "idle" => call'[d] = NoCall
    BY <1>5, NoCallIsARequest DEF CallNotify
  <2>2. Signal(c) \in {"work", "control"}
    BY DEF Signal
  <2> QED BY <1>5, <2>1, <2>2, NotifyWakes DEF CallNotify
<1>6. CASE CallFails(c)
  <2>1. call' \in [Calls -> Request] /\ \A d \in Calls : call'[d].pc = "idle" => call'[d] = NoCall
    BY <1>6, NoCallIsARequest DEF CallFails
  <2> QED BY <1>6, <2>1 DEF CallFails
<1> QED BY <1>1, <1>2, <1>3, <1>4, <1>5, <1>6

LEMMA TypeNext == TypeOK /\ [Next]_vars => TypeOK'
<1> SUFFICES ASSUME TypeOK, [Next]_vars PROVE TypeOK'
  OBVIOUS
<1>1. ASSUME NEW p \in Pollers, PollStep(p) \/ Timeout(p) PROVE TypeOK'
  BY <1>1, TypePollStep
<1>2. ASSUME NEW c \in Calls,
             \/ \E k \in WorkerKinds : WorkerCall(c, k)
             \/ PauseNotify(c) \/ RowCommit(c) \/ WorkCommit(c) \/ CallNotify(c) \/ CallFails(c)
      PROVE  TypeOK'
  BY <1>2, TypeCallStep
<1>3. ASSUME NEW t \in Tiers, WorkGone(t) PROVE TypeOK'
  BY <1>3 DEF WorkGone, TypeOK
<1>4. CASE PauseWorkers \/ ResumeWorkers
  <2>1. flag' \in BOOLEAN /\ begun' \in 0 .. MaxCalls
    <3>1. flag' = TRUE \/ flag' = FALSE \/ flag' = flag
      BY <1>4 DEF PauseWorkers, ResumeWorkers, FlagWritten
    <3>2. begun' = begun + 1 /\ begun < MaxCalls
      BY <1>4 DEF PauseWorkers, ResumeWorkers
    <3>3. flag' \in BOOLEAN
      BY <3>1 DEF TypeOK
    <3>4. begun' \in 0 .. MaxCalls
      BY <3>2, CallsAssumption DEF TypeOK
    <3> QED BY <3>3, <3>4
  <2> QED BY <1>4, <2>1, NotifyWakes DEF PauseWorkers, ResumeWorkers, TypeOK
<1>5. CASE FlagExpires
  BY <1>5 DEF FlagExpires, TypeOK
<1>6. CASE Restart
  BY <1>6, CallsAssumption, AwayIsAPoller, NoCallIsARequest DEF Restart, TypeOK, Away
<1>7. CASE UNCHANGED vars
  BY <1>7 DEF vars, TypeOK
<1> QED BY <1>1, <1>2, <1>3, <1>4, <1>5, <1>6, <1>7 DEF Next

(* Every reachable state is well typed: the rows, the flag and the requests in flight
   have the values the handlers write, and a poll that went past both gates had read
   neither as paused (_wait_for_work, _get_worker_state, is_paused).                 *)
THEOREM TypesHold == Spec => []TypeOK
BY TypeInit, TypeNext, PTL DEF Spec
-----------------------------------------------------------------------------
(* The inductive invariants *)

(* Something will still tell a poll that waits for, or is about to wait for, the event e:
   the event is up, a handler is about to raise it, or the poll is excused.              *)
WillHear(p, e, kind) == event[e] \/ Notifying(kind) \/ p \in deaf

(* What NoMissedWork leaves out: the poll that read the queue as empty and has not looked
   at its event yet, which event.wait() answers at once when the event is up.            *)
WorkIsHeard ==
  \A p \in Pollers :
    poll[p].pc = "wait" /\ poll[p].on = "work" /\ Mode[p] \in work
      => WillHear(p, "work", "work")

(* What NoMissedResume leaves out: the poll that waits for the gate and has not looked at
   its event yet, and before it the poll that read a paused row and not yet the flag.    *)
ResumeIsHeard ==
  \A p \in Pollers :
    (\/ poll[p].pc = "wait" /\ poll[p].on = "control"
     \/ poll[p].pc = "flag" /\ poll[p].paused) /\ GateOpen
      => WillHear(p, "control", "resume")

(* A handler that found a row read one of the values a row can have: a heartbeat writes
   none of its own into it.                                                              *)
FoundIsThere == \A c \in Calls : call[c].row # 0 => call[c].saw # "none"

WorkInv == TypeOK /\ NoMissedWork /\ WorkIsHeard
ResumeInv == TypeOK /\ NoMissedResume /\ ResumeIsHeard /\ FoundIsThere

-----------------------------------------------------------------------------
(* Steps, by what they leave alone *)

(* Where a poll's own step takes it. *)
LEMMA OwnStepMoves ==
  ASSUME TypeOK, NEW p \in Pollers
  PROVE  /\ ReadGate(p) => poll'[p].pc = "flag" /\ (poll'[p].paused => ~GateOpen)
         /\ ReadFlag(p) => \/ poll'[p].pc = "query"
                           \/ /\ poll'[p].pc = "wait" /\ poll'[p].on = "control"
                              /\ poll[p].pc = "flag" /\ (poll[p].paused \/ flag)
         /\ Query(p) => \/ poll'[p].pc = "serving"
                        \/ poll'[p].pc = "wait" /\ poll'[p].on = "work" /\ Mode[p] \notin work
         /\ Deliver(p) \/ Timeout(p) => poll'[p].pc = "away"
         /\ Wait(p) => /\ poll[p].pc = "wait" /\ poll'[p].on = poll[p].on
                       /\ poll'[p].pc = IF event[poll[p].on] THEN "woken" ELSE "parked"
<1>1. ASSUME ReadGate(p) PROVE poll'[p].pc = "flag" /\ (poll'[p].paused => ~GateOpen)
  <2>1. PICK r \in FirstRows :
          poll' = [poll EXCEPT ![p] = [Away EXCEPT !.pc = "flag", !.paused = RowAt(r) = "paused"]]
    BY <1>1 DEF ReadGate
  <2>2. PICK b \in BOOLEAN : b = (RowAt(r) = "paused")
    OBVIOUS
  <2>3. poll' = [poll EXCEPT ![p] = [Away EXCEPT !.pc = "flag", !.paused = b]]
    BY <2>1, <2>2
  <2>4. poll'[p].pc = "flag" /\ poll'[p].paused = b
    BY <2>3 DEF Away, TypeOK
  <2>5. RowAt(r) = "paused" => ~GateOpen
    BY RowsAssumption DEF GateOpen, RowAt, FirstRows, Present
  <2> QED BY <2>2, <2>4, <2>5
<1>2. ASSUME ReadFlag(p)
      PROVE  \/ poll'[p].pc = "query"
             \/ /\ poll'[p].pc = "wait" /\ poll'[p].on = "control"
                /\ poll[p].pc = "flag" /\ (poll[p].paused \/ flag)
  <2>1. CASE /\ poll[p].paused \/ TRUE \in FlagReads
             /\ poll' = [poll EXCEPT ![p] = [@ EXCEPT !.pc = "wait", !.on = "control", !.paused = FALSE]]
    <3>1. poll'[p].pc = "wait" /\ poll'[p].on = "control"
      BY <2>1 DEF TypeOK, Poller
    <3>2. TRUE \in FlagReads => flag
      BY DEF FlagReads, TypeOK
    <3> QED BY <1>2, <2>1, <3>1, <3>2 DEF ReadFlag
  <2>2. CASE Goto(p, "query")
    BY <2>2, GotoMoves
  <2> QED BY <1>2, <2>1, <2>2 DEF ReadFlag
<1>3. ASSUME Query(p)
      PROVE  \/ poll'[p].pc = "serving"
             \/ poll'[p].pc = "wait" /\ poll'[p].on = "work" /\ Mode[p] \notin work
  <2>1. CASE Goto(p, "serving")
    BY <2>1, GotoMoves
  <2>2. CASE /\ Mode[p] \notin work
             /\ poll' = [poll EXCEPT ![p] = [@ EXCEPT !.pc = "wait", !.on = "work"]]
    BY <2>2 DEF TypeOK, Poller
  <2> QED BY <1>3, <2>1, <2>2 DEF Query
<1>4. ASSUME Deliver(p) \/ Timeout(p) PROVE poll'[p].pc = "away"
  <2>1. CASE Deliver(p)
    BY <2>1, GotoMoves DEF Deliver
  <2>2. CASE Timeout(p)
    BY <2>2 DEF Timeout, Away, TypeOK
  <2> QED BY <1>4, <2>1, <2>2
<1>5. ASSUME Wait(p)
      PROVE  /\ poll[p].pc = "wait" /\ poll'[p].on = poll[p].on
             /\ poll'[p].pc = IF event[poll[p].on] THEN "woken" ELSE "parked"
  BY <1>5, GotoMoves DEF Wait
<1> QED BY <1>1, <1>2, <1>3, <1>4, <1>5

(* A poll that moves on by itself changes nothing another poll will hear of, and a step
   other than Wake leaves the events alone.                                            *)
LEMMA OwnStepIsPrivate ==
  ASSUME TypeOK, NEW p \in Pollers, NEW q \in Pollers \ {p}, NEW e \in {"work", "control"},
         NEW kind,
         ReadGate(p) \/ ReadFlag(p) \/ Query(p) \/ Deliver(p) \/ Wait(p) \/ Timeout(p)
  PROVE  /\ poll'[q] = poll[q]
         /\ WillHear(q, e, kind) => WillHear(q, e, kind)'
         /\ UNCHANGED <<rows, flag, work, event, call>>
         /\ Notifying(kind) => Notifying(kind)'
         /\ q \in deaf => q \in deaf'
<1>1. poll'[q] = poll[q]
  BY DEF TypeOK, ReadGate, ReadFlag, Query, Deliver, Wait, Timeout, Goto
<1>2. UNCHANGED <<rows, flag, work, event, call>> /\ (q \in deaf => q \in deaf')
  BY DEF ReadGate, ReadFlag, Query, Deliver, Wait, Timeout
<1> QED BY <1>1, <1>2 DEF WillHear, Notifying

(* The poll that clears an event excuses whoever was to hear of it: everyone who had read
   what the event is about. Every other poll stays where it is.                          *)
LEMMA WakeExcuses ==
  ASSUME TypeOK, NEW p \in Pollers, Wake(p)
  PROVE  /\ poll'[p] = [Away EXCEPT !.pc = "gate"]
         /\ \A q \in Pollers \ {p} : poll'[q] = poll[q]
         /\ deaf' = deaf \cup Expecting(poll[p].on)
         /\ \A e \in {"work", "control"} : e # poll[p].on => event'[e] = event[e]
         /\ UNCHANGED <<rows, flag, work, call>>
         /\ \A kind : Notifying(kind) <=> Notifying(kind)'
<1>1. /\ poll'[p] = [Away EXCEPT !.pc = "gate"]
      /\ \A q \in Pollers \ {p} : poll'[q] = poll[q]
  BY DEF TypeOK, Wake
<1>2. \A e \in {"work", "control"} : e # poll[p].on => event'[e] = event[e]
  BY DEF TypeOK, Wake
<1>3. \A kind : Notifying(kind) <=> Notifying(kind)'
  BY DEF Notifying, Wake
<1> QED BY <1>1, <1>2, <1>3 DEF Wake

(* A request that is not about to signal leaves every other request's signal pending. *)
LEMMA OthersStillNotify ==
  ASSUME TypeOK, NEW c \in Calls, NEW kind, NEW new,
         call' = [call EXCEPT ![c] = new],
         call[c].pc = "notify" /\ call[c].kind = kind => new.pc = "notify" /\ new.kind = kind
  PROVE  Notifying(kind) => Notifying(kind)'
<1>1. \A d \in Calls : call'[d] = IF d = c THEN new ELSE call[d]
  BY DEF TypeOK
<1> QED BY <1>1 DEF Notifying

-----------------------------------------------------------------------------
(* No work is missed *)

(* What the two invariants say of one poll. *)
MissesNoWork(p) ==
  poll[p].on = "work" /\ Mode[p] \in work =>
    /\ poll[p].pc = "parked" => Notifying("work") \/ p \in deaf
    /\ poll[p].pc = "wait" => WillHear(p, "work", "work")

LEMMA WorkInvByPoll == WorkInv <=> TypeOK /\ \A p \in Pollers : MissesNoWork(p)
BY DEF WorkInv, NoMissedWork, WorkIsHeard, MissesNoWork

(* A poll that stays where it is misses nothing by a step that adds no work and takes no
   signal from it.                                                                       *)
LEMMA WorkQuietStep ==
  ASSUME NEW p \in Pollers, MissesNoWork(p), poll'[p] = poll[p],
         Mode[p] \in work' => Mode[p] \in work,
         Notifying("work") => Notifying("work")',
         p \in deaf => p \in deaf',
         WillHear(p, "work", "work") => WillHear(p, "work", "work")'
  PROVE  MissesNoWork(p)'
BY DEF MissesNoWork

(* A signal of the event "control", or of the event "work" itself, with or without the
   end of the request that sent it.                                                    *)
LEMMA WorkNotifyStep ==
  ASSUME TypeOK, NEW p \in Pollers, MissesNoWork(p), NEW e \in {"work", "control"}, Notify(e),
         UNCHANGED <<work, deaf>>,
         e = "control" => (Notifying("work") => Notifying("work")')
  PROVE  MissesNoWork(p)'
<1>1. /\ poll'[p].on = poll[p].on
      /\ poll[p].pc = "parked" /\ poll[p].on = e => poll'[p].pc = "woken"
      /\ ~(poll[p].pc = "parked" /\ poll[p].on = e) => poll'[p].pc = poll[p].pc
      /\ event'[e]
      /\ event["work"] => event'["work"]
  BY NotifyWakes
<1>2. CASE e = "work"
  BY <1>1, <1>2 DEF MissesNoWork, WillHear
<1>3. CASE e = "control"
  BY <1>1, <1>3 DEF MissesNoWork, WillHear
<1> QED BY <1>2, <1>3

LEMMA WorkInit == Init => WorkInv
BY TypeInit DEF Init, WorkInv, NoMissedWork, WorkIsHeard, Away

LEMMA WorkPollStep ==
  ASSUME TypeOK, \A q \in Pollers : MissesNoWork(q), NEW p \in Pollers, PollStep(p) \/ Timeout(p)
  PROVE  \A q \in Pollers : MissesNoWork(q)'
<1> SUFFICES ASSUME NEW q \in Pollers PROVE MissesNoWork(q)'
  OBVIOUS
<1>1. CASE ReadGate(p) \/ ReadFlag(p) \/ Query(p) \/ Deliver(p) \/ Wait(p) \/ Timeout(p)
  <2>1. CASE q # p
    <3>1. /\ poll'[q] = poll[q] /\ UNCHANGED work
          /\ Notifying("work") => Notifying("work")'
          /\ q \in deaf => q \in deaf'
          /\ WillHear(q, "work", "work") => WillHear(q, "work", "work")'
      BY <1>1, <2>1, OwnStepIsPrivate
    <3> QED BY <3>1, WorkQuietStep
  <2>2. CASE q = p /\ (ReadGate(p) \/ Deliver(p) \/ Timeout(p))
    BY <2>2, OwnStepMoves DEF MissesNoWork
  <2>3. CASE q = p /\ ReadFlag(p)
    BY <2>3, OwnStepMoves DEF MissesNoWork
  <2>4. CASE q = p /\ Query(p)
    <3>1. UNCHANGED work
      BY <2>4 DEF Query
    <3> QED BY <2>4, <3>1, OwnStepMoves DEF MissesNoWork
  <2>5. CASE q = p /\ Wait(p)
    <3>1. /\ poll[p].pc = "wait" /\ poll'[p].on = poll[p].on
          /\ poll'[p].pc = IF event[poll[p].on] THEN "woken" ELSE "parked"
      BY <2>5, OwnStepMoves
    <3>2. UNCHANGED <<work, deaf>> /\ (Notifying("work") <=> Notifying("work")')
      BY <2>5 DEF Wait, Notifying
    <3> QED BY <2>5, <3>1, <3>2 DEF MissesNoWork, WillHear
  <2> QED BY <1>1, <2>1, <2>2, <2>3, <2>4, <2>5
<1>2. CASE Wake(p)
  <2>1. CASE q = p
    <3>1. poll'[p].pc = "gate"
      BY <1>2, WakeExcuses DEF Away
    <3> QED BY <2>1, <3>1 DEF MissesNoWork
  <2>2. CASE q # p
    <3>1. /\ poll'[q] = poll[q] /\ UNCHANGED work
          /\ deaf' = deaf \cup Expecting(poll[p].on)
          /\ Notifying("work") <=> Notifying("work")'
          /\ "work" # poll[p].on => event'["work"] = event["work"]
      BY <1>2, <2>2, WakeExcuses
    <3>2. CASE poll[p].on = "work"
      BY <3>1, <3>2 DEF MissesNoWork, WillHear, Expecting
    <3>3. CASE poll[p].on # "work"
      BY <3>1, <3>3, WorkQuietStep DEF WillHear
    <3> QED BY <3>2, <3>3
  <2> QED BY <2>1, <2>2
<1> QED BY <1>1, <1>2 DEF PollStep

LEMMA WorkCallStep ==
  ASSUME TypeOK, \A q \in Pollers : MissesNoWork(q), NEW c \in Calls,
         \/ \E k \in WorkerKinds : WorkerCall(c, k)
         \/ PauseNotify(c) \/ RowCommit(c) \/ WorkCommit(c) \/ CallNotify(c) \/ CallFails(c)
  PROVE  \A q \in Pollers : MissesNoWork(q)'
<1> SUFFICES ASSUME NEW q \in Pollers PROVE MissesNoWork(q)'
  OBVIOUS
<1>1. CASE (\E k \in WorkerKinds : WorkerCall(c, k)) \/ RowCommit(c)
  <2>1. PICK new : call' = [call EXCEPT ![c] = new]
    BY <1>1 DEF WorkerCall, RowCommit
  <2>2. call[c].pc # "notify"
    BY <1>1 DEF WorkerCall, RowCommit, Arrives
  <2>3. Notifying("work") => Notifying("work")'
    BY <2>1, <2>2, OthersStillNotify
  <2>4. UNCHANGED <<work, event, poll, deaf>>
    BY <1>1 DEF WorkerCall, RowCommit
  <2> QED BY <2>3, <2>4, WorkQuietStep DEF WillHear
<1>2. CASE PauseNotify(c)
  <2>1. PICK new : call' = [call EXCEPT ![c] = new]
    BY <1>2 DEF PauseNotify
  <2>2. Notifying("work") => Notifying("work")'
    BY <1>2, <2>1, OthersStillNotify DEF PauseNotify
  <2> QED BY <1>2, <2>2, WorkNotifyStep DEF PauseNotify
<1>3. CASE WorkCommit(c)
  <2>1. call'[c].pc = "notify" /\ call'[c].kind = "work"
    BY <1>3 DEF WorkCommit, NoCall, TypeOK
  <2>2. Notifying("work")'
    BY <2>1 DEF Notifying
  <2> QED BY <2>2 DEF MissesNoWork, WillHear
<1>4. CASE CallNotify(c)
  <2>1. call' = [call EXCEPT ![c] = NoCall] /\ Notify(Signal(c)) /\ UNCHANGED <<work, deaf>>
    BY <1>4 DEF CallNotify
  <2>2. CASE call[c].kind = "resume"
    <3>1. Notifying("work") => Notifying("work")'
      BY <2>1, <2>2, OthersStillNotify
    <3> QED BY <2>1, <2>2, <3>1, WorkNotifyStep DEF Signal
  <2>3. CASE call[c].kind # "resume"
    BY <2>1, <2>3, WorkNotifyStep DEF Signal
  <2> QED BY <2>2, <2>3
<1>5. CASE CallFails(c)
  <2>1. call' = [call EXCEPT ![c] = NoCall] /\ UNCHANGED <<work, event, poll>>
    BY <1>5 DEF CallFails
  <2>2. deaf' = IF call[c].pc = "notify" THEN deaf \cup Expecting(Signal(c)) ELSE deaf
    BY <1>5 DEF CallFails
  <2>3. CASE call[c].pc = "notify" /\ call[c].kind = "work"
    <3>1. deaf' = deaf \cup Expecting("work")
      BY <2>2, <2>3 DEF Signal
    <3> QED BY <2>1, <3>1 DEF MissesNoWork, WillHear, Expecting
  <2>4. CASE ~(call[c].pc = "notify" /\ call[c].kind = "work")
    <3>1. Notifying("work") => Notifying("work")'
      BY <2>1, <2>4, OthersStillNotify
    <3> QED BY <2>1, <2>2, <3>1, WorkQuietStep DEF WillHear
  <2> QED BY <2>3, <2>4
<1> QED BY <1>1, <1>2, <1>3, <1>4, <1>5

LEMMA WorkNext == WorkInv /\ [Next]_vars => WorkInv'
<1> SUFFICES ASSUME WorkInv, [Next]_vars PROVE WorkInv'
  OBVIOUS
<1>t. TypeOK /\ TypeOK' /\ \A q \in Pollers : MissesNoWork(q)
  BY WorkInvByPoll, TypeNext
<1> SUFFICES \A q \in Pollers : MissesNoWork(q)'
  BY <1>t DEF WorkInv, NoMissedWork, WorkIsHeard, MissesNoWork
<1>1. ASSUME NEW p \in Pollers, PollStep(p) \/ Timeout(p)
      PROVE  \A q \in Pollers : MissesNoWork(q)'
  BY <1>1, <1>t, WorkPollStep
<1>2. ASSUME NEW c \in Calls,
             \/ \E k \in WorkerKinds : WorkerCall(c, k)
             \/ PauseNotify(c) \/ RowCommit(c) \/ WorkCommit(c) \/ CallNotify(c) \/ CallFails(c)
      PROVE  \A q \in Pollers : MissesNoWork(q)'
  BY <1>2, <1>t, WorkCallStep
<1>3. CASE \/ \E t \in Tiers : WorkGone(t)
           \/ FlagExpires \/ UNCHANGED vars
  <2>1. UNCHANGED <<event, poll, call>> /\ work' \subseteq work /\ deaf \subseteq deaf'
    BY <1>3 DEF WorkGone, FlagExpires, vars
  <2> QED BY <2>1, <1>t, WorkQuietStep DEF WillHear, Notifying
<1>4. CASE PauseWorkers \/ ResumeWorkers
  <2>1. Notify("control") /\ UNCHANGED <<work, deaf, call>>
    BY <1>4 DEF PauseWorkers, ResumeWorkers
  <2> QED BY <2>1, <1>t, WorkNotifyStep DEF Notifying
<1>5. CASE Restart
  <2>1. \A q \in Pollers : poll'[q].pc = "away"
    BY <1>5 DEF Restart, Away
  <2> QED BY <2>1 DEF MissesNoWork
<1> QED BY <1>1, <1>2, <1>3, <1>4, <1>5 DEF Next

(* enrichment_signals.wait_for never parks a poll on a queue that has work: whichever way
   the commit of an upload, a requeue or a release falls between a poll's query and its
   wait, the handler has still to signal, unless another poll consumed the signal or the
   handler failed before it.                                                             *)
THEOREM WorkIsNotMissed == Spec => []NoMissedWork
<1>1. WorkInv => NoMissedWork
  BY DEF WorkInv
<1> QED BY <1>1, WorkInit, WorkNext, PTL DEF Spec

-----------------------------------------------------------------------------
(* No resume is missed *)

(* What the two invariants say of one poll. *)
MissesNoResume(p) ==
  GateOpen =>
    /\ poll[p].pc = "parked" /\ poll[p].on = "control" => Notifying("resume") \/ p \in deaf
    /\ poll[p].pc = "wait" /\ poll[p].on = "control" => WillHear(p, "control", "resume")
    /\ poll[p].pc = "flag" /\ poll[p].paused => WillHear(p, "control", "resume")

LEMMA ResumeInvByPoll ==
  ResumeInv <=> TypeOK /\ FoundIsThere /\ \A p \in Pollers : MissesNoResume(p)
BY DEF ResumeInv, NoMissedResume, ResumeIsHeard, MissesNoResume

(* A poll that stays where it is misses nothing by a step that does not open the gate and
   takes no signal from it.                                                              *)
LEMMA ResumeQuietStep ==
  ASSUME NEW p \in Pollers, MissesNoResume(p), poll'[p] = poll[p],
         GateOpen' => GateOpen,
         Notifying("resume") => Notifying("resume")',
         p \in deaf => p \in deaf',
         WillHear(p, "control", "resume") => WillHear(p, "control", "resume")'
  PROVE  MissesNoResume(p)'
BY DEF MissesNoResume

(* A signal of the event "work", or of "control" itself, whatever becomes of the gate and
   of the request that sent it.                                                          *)
LEMMA ResumeNotifyStep ==
  ASSUME TypeOK, NEW p \in Pollers, MissesNoResume(p), NEW e \in {"work", "control"}, Notify(e),
         UNCHANGED deaf,
         e = "work" => (GateOpen' => GateOpen) /\ (Notifying("resume") => Notifying("resume")')
  PROVE  MissesNoResume(p)'
<1>1. /\ poll'[p].on = poll[p].on /\ poll'[p].paused = poll[p].paused
      /\ poll[p].pc = "parked" /\ poll[p].on = e => poll'[p].pc = "woken"
      /\ ~(poll[p].pc = "parked" /\ poll[p].on = e) => poll'[p].pc = poll[p].pc
      /\ event'[e]
      /\ event["control"] => event'["control"]
  BY NotifyWakes
<1>2. CASE e = "control"
  BY <1>1, <1>2 DEF MissesNoResume, WillHear
<1>3. CASE e = "work"
  BY <1>1, <1>3 DEF MissesNoResume, WillHear
<1> QED BY <1>2, <1>3

(* Only a resume turns a paused row into an open one: a pause closes, a heartbeat writes
   back what it read or inserts a row that was not there.                               *)
LEMMA OnlyResumeOpens ==
  ASSUME TypeOK, FoundIsThere, NEW c \in Calls, RowCommit(c), call[c].kind # "resume"
  PROVE  GateOpen' => GateOpen
<1>1. call[c] \in Request /\ UNCHANGED flag /\ rows' \in Written(c)
  BY DEF TypeOK, RowCommit
<1>2. CASE call[c].row = 0
  <2>1. PICK r \in RowIds \ Present : rows' = [rows EXCEPT ![r] = Wanted(c)]
    BY <1>1, <1>2 DEF Written
  <2>2. rows[r] # "paused"
    BY <2>1 DEF Present
  <2> QED BY <1>1, <2>1, <2>2 DEF GateOpen, TypeOK
<1>3. CASE call[c].row # 0
  <2>1. CASE call[c].saw = Wanted(c)
    <3>1. rows' = rows
      BY <1>1, <1>3, <2>1 DEF Written
    <3> QED BY <1>1, <3>1 DEF GateOpen
  <2>2. CASE call[c].saw # Wanted(c)
    <3>1. rows' = [rows EXCEPT ![call[c].row] = Wanted(c)]
      BY <1>1, <1>3, <2>2 DEF Written
    <3>2. Wanted(c) = "paused"
      BY <1>3, <2>2 DEF Wanted, RowCommit, FoundIsThere
    <3> QED BY <1>1, <3>1, <3>2 DEF GateOpen, TypeOK
  <2> QED BY <2>1, <2>2
<1> QED BY <1>2, <1>3

LEMMA FoundNext == TypeOK /\ FoundIsThere /\ [Next]_vars => FoundIsThere'
<1> SUFFICES ASSUME TypeOK, FoundIsThere, [Next]_vars PROVE FoundIsThere'
  OBVIOUS
<1>1. ASSUME NEW c \in Calls, NEW k \in WorkerKinds, WorkerCall(c, k) PROVE FoundIsThere'
  <2>1. PICK r \in FirstRows :
          call' = [call EXCEPT ![c] = [pc |-> "read", kind |-> k, row |-> r, saw |-> RowAt(r)]]
    BY <1>1 DEF WorkerCall
  <2>2. r # 0 => RowAt(r) # "none"
    BY DEF FirstRows, Present, RowAt
  <2>3. \A d \in Calls : IF d = c THEN call'[d].row = r /\ call'[d].saw = RowAt(r)
                                  ELSE call'[d] = call[d]
    BY <2>1 DEF TypeOK
  <2> QED BY <2>2, <2>3 DEF FoundIsThere
<1>2. ASSUME NEW c \in Calls, PauseNotify(c) PROVE FoundIsThere'
  <2>1. \A d \in Calls : call'[d].row = call[d].row /\ call'[d].saw = call[d].saw
    BY <1>2 DEF PauseNotify, TypeOK, Request
  <2> QED BY <2>1 DEF FoundIsThere
<1>3. ASSUME NEW c \in Calls, RowCommit(c) \/ WorkCommit(c) \/ CallNotify(c) \/ CallFails(c)
      PROVE  FoundIsThere'
  <2>1. PICK new : call' = [call EXCEPT ![c] = new] /\ new.row = 0
    <3>1. NoCall.row = 0 /\ [NoCall EXCEPT !.pc = "notify", !.kind = "resume"].row = 0
      BY DEF NoCall
    <3>2. [NoCall EXCEPT !.pc = "notify", !.kind = "work"].row = 0
      BY DEF NoCall
    <3> QED BY <1>3, <3>1, <3>2 DEF RowCommit, WorkCommit, CallNotify, CallFails
  <2>2. \A d \in Calls : call'[d] = call[d] \/ call'[d].row = 0
    BY <2>1 DEF TypeOK
  <2> QED BY <2>2 DEF FoundIsThere
<1>4. CASE Restart
  BY <1>4 DEF Restart, FoundIsThere, NoCall
<1>5. CASE UNCHANGED call
  BY <1>5 DEF FoundIsThere
<1>6. ASSUME NEW p \in Pollers, PollStep(p) \/ Timeout(p) PROVE UNCHANGED call
  BY <1>6 DEF PollStep, Timeout, ReadGate, ReadFlag, Query, Deliver, Wait, Wake
<1>7. ASSUME (\E t \in Tiers : WorkGone(t)) \/ PauseWorkers \/ ResumeWorkers \/ FlagExpires
             \/ UNCHANGED vars
      PROVE  UNCHANGED call
  BY <1>7 DEF WorkGone, PauseWorkers, ResumeWorkers, FlagExpires, vars
<1> QED BY <1>1, <1>2, <1>3, <1>4, <1>5, <1>6, <1>7 DEF Next

LEMMA ResumeInit == Init => ResumeInv
BY TypeInit DEF Init, ResumeInv, NoMissedResume, ResumeIsHeard, FoundIsThere, Away, NoCall

LEMMA ResumePollStep ==
  ASSUME TypeOK, \A q \in Pollers : MissesNoResume(q), NEW p \in Pollers,
         PollStep(p) \/ Timeout(p)
  PROVE  \A q \in Pollers : MissesNoResume(q)'
<1> SUFFICES ASSUME NEW q \in Pollers PROVE MissesNoResume(q)'
  OBVIOUS
<1>1. CASE ReadGate(p) \/ ReadFlag(p) \/ Query(p) \/ Deliver(p) \/ Wait(p) \/ Timeout(p)
  <2>0. UNCHANGED <<rows, flag, event, call>> /\ (GateOpen' <=> GateOpen)
    <3>1. UNCHANGED <<rows, flag, event, call>>
      BY <1>1 DEF ReadGate, ReadFlag, Query, Deliver, Wait, Timeout
    <3> QED BY <3>1 DEF GateOpen
  <2>1. CASE q # p
    <3>1. /\ poll'[q] = poll[q]
          /\ Notifying("resume") => Notifying("resume")'
          /\ q \in deaf => q \in deaf'
          /\ WillHear(q, "control", "resume") => WillHear(q, "control", "resume")'
      BY <1>1, <2>1, OwnStepIsPrivate
    <3> QED BY <2>0, <3>1, ResumeQuietStep
  <2>2. CASE q = p /\ ReadGate(p)
    BY <2>0, <2>2, OwnStepMoves DEF MissesNoResume
  <2>3. CASE q = p /\ ReadFlag(p)
    <3>1. flag => ~GateOpen
      BY DEF GateOpen
    <3>2. UNCHANGED <<event, deaf>> /\ (Notifying("resume") <=> Notifying("resume")')
      BY <2>0, <2>3 DEF ReadFlag, Notifying
    <3> QED BY <2>0, <2>3, <3>1, <3>2, OwnStepMoves DEF MissesNoResume, WillHear
  <2>4. CASE q = p /\ (Query(p) \/ Deliver(p) \/ Timeout(p))
    BY <2>4, OwnStepMoves DEF MissesNoResume
  <2>5. CASE q = p /\ Wait(p)
    <3>1. UNCHANGED deaf /\ (Notifying("resume") <=> Notifying("resume")')
      BY <2>5 DEF Wait, Notifying
    <3> QED BY <2>0, <2>5, <3>1, OwnStepMoves DEF MissesNoResume, WillHear
  <2> QED BY <1>1, <2>1, <2>2, <2>3, <2>4, <2>5
<1>2. CASE Wake(p)
  <2>1. CASE q = p
    <3>1. poll'[p].pc = "gate"
      BY <1>2, WakeExcuses DEF Away
    <3> QED BY <2>1, <3>1 DEF MissesNoResume
  <2>2. CASE q # p
    <3>1. /\ poll'[q] = poll[q] /\ UNCHANGED <<rows, flag>>
          /\ deaf' = deaf \cup Expecting(poll[p].on)
          /\ Notifying("resume") <=> Notifying("resume")'
          /\ "control" # poll[p].on => event'["control"] = event["control"]
      BY <1>2, <2>2, WakeExcuses
    <3>2. CASE poll[p].on = "control"
      BY <3>1, <3>2 DEF MissesNoResume, WillHear, Expecting
    <3>3. CASE poll[p].on # "control"
      BY <3>1, <3>3, ResumeQuietStep DEF WillHear, GateOpen
    <3> QED BY <3>2, <3>3
  <2> QED BY <2>1, <2>2
<1> QED BY <1>1, <1>2 DEF PollStep

LEMMA ResumeCallStep ==
  ASSUME TypeOK, FoundIsThere, \A q \in Pollers : MissesNoResume(q), NEW c \in Calls,
         \/ \E k \in WorkerKinds : WorkerCall(c, k)
         \/ PauseNotify(c) \/ RowCommit(c) \/ WorkCommit(c) \/ CallNotify(c) \/ CallFails(c)
  PROVE  \A q \in Pollers : MissesNoResume(q)'
<1> SUFFICES ASSUME NEW q \in Pollers PROVE MissesNoResume(q)'
  OBVIOUS
<1>1. CASE (\E k \in WorkerKinds : WorkerCall(c, k)) \/ WorkCommit(c)
  <2>1. PICK new : call' = [call EXCEPT ![c] = new]
    BY <1>1 DEF WorkerCall, WorkCommit
  <2>2. call[c].pc # "notify"
    BY <1>1 DEF WorkerCall, WorkCommit, Arrives
  <2>3. Notifying("resume") => Notifying("resume")'
    BY <2>1, <2>2, OthersStillNotify
  <2>4. UNCHANGED <<rows, flag, event, poll, deaf>>
    BY <1>1 DEF WorkerCall, WorkCommit
  <2> QED BY <2>3, <2>4, ResumeQuietStep DEF WillHear, GateOpen
<1>2. CASE PauseNotify(c)
  BY <1>2, ResumeNotifyStep DEF PauseNotify
<1>3. CASE RowCommit(c) /\ call[c].kind = "resume"
  <2>1. call' = [call EXCEPT ![c] = [NoCall EXCEPT !.pc = "notify", !.kind = "resume"]]
    BY <1>3 DEF RowCommit
  <2>2. call'[c].pc = "notify" /\ call'[c].kind = "resume"
    BY <2>1 DEF NoCall, TypeOK
  <2>3. Notifying("resume")'
    BY <2>2 DEF Notifying
  <2> QED BY <2>3 DEF MissesNoResume, WillHear
<1>4. CASE RowCommit(c) /\ call[c].kind # "resume"
  <2>1. call' = [call EXCEPT ![c] = NoCall] /\ UNCHANGED <<event, poll, deaf>>
    BY <1>4 DEF RowCommit
  <2>2. Notifying("resume") => Notifying("resume")'
    BY <1>4, <2>1, OthersStillNotify
  <2>3. GateOpen' => GateOpen
    BY <1>4, OnlyResumeOpens
  <2> QED BY <2>1, <2>2, <2>3, ResumeQuietStep DEF WillHear
<1>5. CASE CallNotify(c)
  <2>1. /\ call' = [call EXCEPT ![c] = NoCall] /\ Notify(Signal(c)) /\ UNCHANGED deaf
        /\ UNCHANGED <<rows, flag>>
    BY <1>5 DEF CallNotify
  <2>2. CASE call[c].kind = "resume"
    BY <2>1, <2>2, ResumeNotifyStep DEF Signal
  <2>3. CASE call[c].kind # "resume"
    <3>1. Notifying("resume") => Notifying("resume")'
      BY <2>1, <2>3, OthersStillNotify
    <3>2. GateOpen' <=> GateOpen
      BY <2>1 DEF GateOpen
    <3> QED BY <2>1, <2>3, <3>1, <3>2, ResumeNotifyStep DEF Signal
  <2> QED BY <2>2, <2>3
<1>6. CASE CallFails(c)
  <2>1. call' = [call EXCEPT ![c] = NoCall] /\ UNCHANGED <<rows, flag, event, poll>>
    BY <1>6 DEF CallFails
  <2>2. deaf' = IF call[c].pc = "notify" THEN deaf \cup Expecting(Signal(c)) ELSE deaf
    BY <1>6 DEF CallFails
  <2>3. GateOpen' <=> GateOpen
    BY <2>1 DEF GateOpen
  <2>4. CASE call[c].pc = "notify" /\ call[c].kind = "resume"
    <3>1. deaf' = deaf \cup Expecting("control")
      BY <2>2, <2>4 DEF Signal
    <3> QED BY <2>1, <2>3, <3>1 DEF MissesNoResume, WillHear, Expecting
  <2>5. CASE ~(call[c].pc = "notify" /\ call[c].kind = "resume")
    <3>1. Notifying("resume") => Notifying("resume")'
      BY <2>1, <2>5, OthersStillNotify
    <3> QED BY <2>1, <2>2, <2>3, <3>1, ResumeQuietStep DEF WillHear
  <2> QED BY <2>4, <2>5
<1> QED BY <1>1, <1>2, <1>3, <1>4, <1>5, <1>6

LEMMA ResumeNext == ResumeInv /\ [Next]_vars => ResumeInv'
<1> SUFFICES ASSUME ResumeInv, [Next]_vars PROVE ResumeInv'
  OBVIOUS
<1>t. TypeOK /\ TypeOK' /\ FoundIsThere /\ FoundIsThere' /\ \A q \in Pollers : MissesNoResume(q)
  BY ResumeInvByPoll, TypeNext, FoundNext
<1> SUFFICES \A q \in Pollers : MissesNoResume(q)'
  BY <1>t DEF ResumeInv, NoMissedResume, ResumeIsHeard, MissesNoResume
<1>1. ASSUME NEW p \in Pollers, PollStep(p) \/ Timeout(p)
      PROVE  \A q \in Pollers : MissesNoResume(q)'
  BY <1>1, <1>t, ResumePollStep
<1>2. ASSUME NEW c \in Calls,
             \/ \E k \in WorkerKinds : WorkerCall(c, k)
             \/ PauseNotify(c) \/ RowCommit(c) \/ WorkCommit(c) \/ CallNotify(c) \/ CallFails(c)
      PROVE  \A q \in Pollers : MissesNoResume(q)'
  BY <1>2, <1>t, ResumeCallStep
<1>3. CASE (\E t \in Tiers : WorkGone(t)) \/ UNCHANGED vars
  <2>1. UNCHANGED <<rows, flag, event, poll, call, deaf>>
    BY <1>3 DEF WorkGone, vars
  <2> QED BY <2>1, <1>t, ResumeQuietStep DEF WillHear, Notifying, GateOpen
<1>4. CASE PauseWorkers \/ ResumeWorkers
  <2>1. Notify("control") /\ UNCHANGED deaf
    BY <1>4 DEF PauseWorkers, ResumeWorkers
  <2> QED BY <2>1, <1>t, ResumeNotifyStep
<1>5. CASE FlagExpires
  <2>1. UNCHANGED <<event, poll, call>> /\ deaf' = deaf \cup Expecting("control")
    BY <1>5 DEF FlagExpires
  <2> QED BY <2>1 DEF MissesNoResume, WillHear, Expecting
<1>6. CASE Restart
  <2>1. \A q \in Pollers : poll'[q].pc = "away"
    BY <1>6 DEF Restart, Away
  <2> QED BY <2>1 DEF MissesNoResume
<1> QED BY <1>1, <1>2, <1>3, <1>4, <1>5, <1>6 DEF Next

(* A resume wakes a poll that is parked on the gate, through either gate and whichever way
   its commit falls between the poll's reading of the row, of the flag, and its wait
   (_wait_for_work, resume_enrichment, resume_workers): the exceptions are another poll
   that consumed the signal, a handler that failed before it, and a pause that expired.  *)
THEOREM ResumeIsNotMissed == Spec => []NoMissedResume
<1>1. ResumeInv => NoMissedResume
  BY DEF ResumeInv
<1> QED BY <1>1, ResumeInit, ResumeNext, PTL DEF Spec
=============================================================================
