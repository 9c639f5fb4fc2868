----------------------------- MODULE WorkerGate -----------------------------
(***************************************************************************)
(* The held poll GET /queue/wait: two pause gates (a row of                *)
(* enrichment_worker_state and a flag in Redis), two asyncio events that   *)
(* wake held polls, and the handlers that change a gate or add work and    *)
(* then signal.                                                            *)
(* Source: app/controllers/enrichment.py, app/services/worker_pause.py,    *)
(* app/services/enrichment_signals.py, app/controllers/system.py.          *)
(*                                                                         *)
(* The server is one process: what lies between two awaits is one action.  *)
(* The work queue itself is EnrichmentLedger's; here it is the set of      *)
(* tiers at which some lead is eligible.                                   *)
(***************************************************************************)
EXTENDS Naturals, FiniteSets

CONSTANTS
  Pollers,   \* finders that hold a poll
  Mode,      \* the cost_mode each of them asks for
  Calls,     \* other requests that can be in flight at once, numbered
  RowIds,    \* rows that enrichment_worker_state can come to hold
  Faults,    \* whether handlers, Redis and the server may fail
  MaxCalls   \* bound: requests begun, and server restarts

Tiers == {"low", "high"}
WorkerKinds == {"heartbeat", "pause", "resume"}

ASSUME ModeAssumption == Mode \in [Pollers -> Tiers]
ASSUME FaultsAssumption == Faults \in BOOLEAN
ASSUME RowsAssumption == RowIds \subseteq Nat \ {0} /\ IsFiniteSet(RowIds)
ASSUME CallsAssumption == Calls \subseteq Nat /\ MaxCalls \in Nat

VARIABLES
  rows,    \* enrichment_worker_state: "none", or the paused column of each row
  flag,    \* whether the Redis key is there
  work,    \* tiers with an eligible lead
  event,   \* the flags of work_available and control_changed
  poll,    \* where each held poll is
  call,    \* where each other request is
  begun,   \* requests begun so far
  deaf     \* history: polls whose signal another poll consumed, or no one sent

vars == <<rows, flag, work, event, poll, call, begun, deaf>>

-----------------------------------------------------------------------------
(* Polls and requests *)

Poller == [pc : {"away", "gate", "flag", "query", "wait", "parked", "woken", "serving"},
           paused : BOOLEAN, on : {"work", "control"}]

Away == [pc |-> "away", paused |-> FALSE, on |-> "work"]

Request == [pc : {"idle", "read", "commit", "notify"},
            kind : WorkerKinds \cup {"work", "none"},
            row : RowIds \cup {0}, saw : {"none", "open", "paused"}]

NoCall == [pc |-> "idle", kind |-> "none", row |-> 0, saw |-> "none"]

Present == {r \in RowIds : rows[r] # "none"}

(* What SELECT ... LIMIT 1 without an order can return; 0 for no row. *)
FirstRows == IF Present = {} THEN {0} ELSE Present

RowAt(r) == IF r = 0 THEN "none" ELSE rows[r]

GateOpen == (\A r \in RowIds : rows[r] # "paused") /\ ~flag

(* The polls that have read what the signal e is about, and will wait for it. *)
Expecting(e) == {p \in Pollers : \/ poll[p].pc \in {"wait", "parked"} /\ poll[p].on = e
                                 \/ poll[p].pc = "flag" /\ e = "control"}

(* set() wakes whoever is parked on the event, and the flag stays up. *)
Notify(e) ==
  /\ event' = [event EXCEPT ![e] = TRUE]
  /\ poll' = [p \in Pollers |->
                IF poll[p].pc = "parked" /\ poll[p].on = e
                THEN [poll[p] EXCEPT !.pc = "woken"] ELSE poll[p]]

Init ==
  /\ rows = [r \in RowIds |-> "none"]
  /\ flag = FALSE
  /\ work = {}
  /\ event = [e \in {"work", "control"} |-> FALSE]
  /\ poll = [p \in Pollers |-> Away]
  /\ call = [c \in Calls |-> NoCall]
  /\ begun = 0
  /\ deaf = {}

-----------------------------------------------------------------------------
(* The held poll *)

Goto(p, pc) == poll' = [poll EXCEPT ![p].pc = pc]

(* A poll arrives, or checks again: _get_worker_state, in a session of its own. *)
ReadGate(p) ==
  /\ poll[p].pc \in {"away", "gate"}
  /\ \E r \in FirstRows :
       poll' = [poll EXCEPT ![p] = [Away EXCEPT !.pc = "flag", !.paused = RowAt(r) = "paused"]]
  /\ deaf' = deaf \ {p}
  /\ UNCHANGED <<rows, flag, work, event, call, begun>>

(* is_paused: an unreachable Redis reads as not paused. *)
FlagReads == {flag} \cup (IF Faults THEN {FALSE} ELSE {})

(* Mutated form: the poll consults the Redis flag only. *)
ReadFlagOnly(p) ==
  /\ poll[p].pc = "flag"
  /\ \/ /\ TRUE \in FlagReads
        /\ poll' = [poll EXCEPT ![p] = [@ EXCEPT !.pc = "wait", !.on = "control", !.paused = FALSE]]
     \/ /\ FALSE \in FlagReads
        /\ Goto(p, "query")
  /\ UNCHANGED <<rows, flag, work, event, call, begun, deaf>>

(* The Redis flag is read when the row has come back. *)
ReadFlag(p) ==
  /\ poll[p].pc = "flag"
  /\ \/ /\ poll[p].paused \/ TRUE \in FlagReads
        /\ poll' = [poll EXCEPT ![p] = [@ EXCEPT !.pc = "wait", !.on = "control", !.paused = FALSE]]
     \/ /\ ~poll[p].paused
        /\ FALSE \in FlagReads
        /\ Goto(p, "query")
  /\ UNCHANGED <<rows, flag, work, event, call, begun, deaf>>

Query(p) ==
  /\ poll[p].pc = "query"
  /\ \/ /\ Mode[p] \in work
        /\ Goto(p, "serving")
     \/ /\ Mode[p] \notin work
        /\ poll' = [poll EXCEPT ![p] = [@ EXCEPT !.pc = "wait", !.on = "work"]]
  /\ UNCHANGED <<rows, flag, work, event, call, begun, deaf>>

Deliver(p) ==
  /\ poll[p].pc = "serving"
  /\ Goto(p, "away")
  /\ UNCHANGED <<rows, flag, work, event, call, begun, deaf>>

(* Mutated form: the poll waits for the next signal, like on a condition. *)
WaitForNext(p) ==
  /\ poll[p].pc = "wait"
  /\ Goto(p, "parked")
  /\ UNCHANGED <<rows, flag, work, event, call, begun, deaf>>

(* event.wait() returns at once when the flag is up. *)
Wait(p) ==
  /\ poll[p].pc = "wait"
  /\ Goto(p, IF event[poll[p].on] THEN "woken" ELSE "parked")
  /\ UNCHANGED <<rows, flag, work, event, call, begun, deaf>>

(* The woken poll clears the flag and checks everything again. *)
Wake(p) ==
  /\ poll[p].pc = "woken"
  /\ event' = [event EXCEPT ![poll[p].on] = FALSE]
  /\ poll' = [poll EXCEPT ![p] = [Away EXCEPT !.pc = "gate"]]
  /\ deaf' = deaf \cup Expecting(poll[p].on)
  /\ UNCHANGED <<rows, flag, work, call, begun>>

(* Mutated form: only polls whose event has fired look at the clock. *)
TimeoutWhenWoken(p) ==
  /\ poll[p].pc = "woken"
  /\ poll' = [poll EXCEPT ![p] = Away]
  /\ UNCHANGED <<rows, flag, work, event, call, begun, deaf>>

(* The deadline passes: an empty answer, and the event is not consumed. The first
   check of a poll never finds it passed: its place is "away".                   *)
Timeout(p) ==
  /\ poll[p].pc \in {"parked", "woken", "gate"}
  /\ poll' = [poll EXCEPT ![p] = Away]
  /\ UNCHANGED <<rows, flag, work, event, call, begun, deaf>>

-----------------------------------------------------------------------------
(* POST /heartbeat, /pause, /resume: read the row, write the row, signal *)

(* A request has just arrived: it takes the first slot that is free. *)
Arrives(c) ==
  /\ begun < MaxCalls
  /\ call[c].pc = "idle"
  /\ \A d \in Calls : d < c => call[d].pc # "idle"

WorkerCall(c, k) ==
  /\ Arrives(c)
  /\ \E r \in FirstRows :
       call' = [call EXCEPT ![c] = [pc |-> "read", kind |-> k, row |-> r, saw |-> RowAt(r)]]
  /\ begun' = begun + 1
  /\ UNCHANGED <<rows, flag, work, event, poll, deaf>>

(* pause_enrichment signals first: the session commits after the handler returned. *)
PauseNotify(c) ==
  /\ call[c].pc = "read"
  /\ call[c].kind = "pause"
  /\ Notify("control")
  /\ call' = [call EXCEPT ![c].pc = "commit"]
  /\ UNCHANGED <<rows, flag, work, begun, deaf>>

(* The paused column a request asks for; a heartbeat leaves it alone. *)
Wanted(c) == CASE call[c].kind = "pause" -> "paused"
               [] call[c].kind = "resume" -> "open"
               [] OTHER -> IF call[c].saw = "none" THEN "open" ELSE call[c].saw

(* No row was found: insert one. A row was found: the session writes a column only
   when it differs from what was read.                                            *)
Written(c) ==
  IF call[c].row = 0
  THEN {[rows EXCEPT ![r] = Wanted(c)] : r \in RowIds \ Present}
  ELSE {IF call[c].saw = Wanted(c) THEN rows ELSE [rows EXCEPT ![call[c].row] = Wanted(c)]}

RowCommit(c) ==
  /\ \/ call[c].pc = "commit" /\ call[c].kind = "pause"
     \/ call[c].pc = "read" /\ call[c].kind \in {"heartbeat", "resume"}
  /\ rows' \in Written(c)
  /\ call' = [call EXCEPT ![c] = IF call[c].kind = "resume"
                                 THEN [NoCall EXCEPT !.pc = "notify", !.kind = "resume"]
                                 ELSE NoCall]
  /\ UNCHANGED <<flag, work, event, poll, begun, deaf>>

-----------------------------------------------------------------------------
(* Uploads, requeues and releases: commit, then signal *)

(* The commit of an upload, a requeue or a release that released some may make leads
   eligible at a tier or at both. What it did before, nobody saw.                   *)
WorkCommit(c) ==
  /\ Arrives(c)
  /\ \E new \in SUBSET Tiers : work' = work \cup new
  /\ call' = [call EXCEPT ![c] = [NoCall EXCEPT !.pc = "notify", !.kind = "work"]]
  /\ begun' = begun + 1
  /\ UNCHANGED <<rows, flag, event, poll, deaf>>

(* Mutated form: a resume is not signalled to the polls parked on the gate. *)
CallNotifyWork(c) ==
  /\ call[c].pc = "notify"
  /\ Notify("work")
  /\ call' = [call EXCEPT ![c] = NoCall]
  /\ UNCHANGED <<rows, flag, work, begun, deaf>>

(* Which event a handler is about to set. *)
Signal(c) == IF call[c].kind = "resume" THEN "control" ELSE "work"

CallNotify(c) ==
  /\ call[c].pc = "notify"
  /\ Notify(Signal(c))
  /\ call' = [call EXCEPT ![c] = NoCall]
  /\ UNCHANGED <<rows, flag, work, begun, deaf>>

(* Results, merged emails, holds and deletions empty a tier's queue; none signals. *)
WorkGone(t) ==
  /\ t \in work
  /\ work' = work \ {t}
  /\ UNCHANGED <<rows, flag, event, poll, call, begun, deaf>>

-----------------------------------------------------------------------------
(* The global pause: no await between the flag and the signal *)

(* SET and DEL: nothing happens when Redis is unreachable. *)
FlagWritten(v) == flag' = v \/ (Faults /\ UNCHANGED flag)

PauseWorkers ==
  /\ begun < MaxCalls
  /\ FlagWritten(TRUE)
  /\ Notify("control")
  /\ begun' = begun + 1
  /\ UNCHANGED <<rows, work, call, deaf>>

ResumeWorkers ==
  /\ begun < MaxCalls
  /\ FlagWritten(FALSE)
  /\ Notify("control")
  /\ begun' = begun + 1
  /\ UNCHANGED <<rows, work, call, deaf>>

(* Seven days later, without a signal. *)
FlagExpires ==
  /\ flag
  /\ flag' = FALSE
  /\ deaf' = deaf \cup Expecting("control")
  /\ UNCHANGED <<rows, work, event, poll, call, begun>>

-----------------------------------------------------------------------------
(* Failures *)

(* A handler raises: what it had not committed is rolled back, what it had not
   signalled is not signalled.                                                *)
CallFails(c) ==
  /\ Faults
  /\ call[c].pc # "idle"
  /\ call' = [call EXCEPT ![c] = NoCall]
  /\ deaf' = IF call[c].pc = "notify" THEN deaf \cup Expecting(Signal(c)) ELSE deaf
  /\ UNCHANGED <<rows, flag, work, event, poll, begun>>

(* The process starts again: held polls, handlers and events are gone. *)
Restart ==
  /\ Faults
  /\ begun < MaxCalls
  /\ event' = [e \in {"work", "control"} |-> FALSE]
  /\ poll' = [p \in Pollers |-> Away]
  /\ call' = [c \in Calls |-> NoCall]
  /\ begun' = begun + 1
  /\ deaf' = {}
  /\ UNCHANGED <<rows, flag, work>>

-----------------------------------------------------------------------------
PollStep(p) == ReadGate(p) \/ ReadFlag(p) \/ Query(p) \/ Deliver(p) \/ Wait(p) \/ Wake(p)

Next ==
  \/ \E p \in Pollers : PollStep(p) \/ Timeout(p)
  \/ \E c \in Calls : \/ \E k \in WorkerKinds : WorkerCall(c, k)
                      \/ PauseNotify(c)
                      \/ RowCommit(c)
                      \/ WorkCommit(c)
                      \/ CallNotify(c)
                      \/ CallFails(c)
  \/ \E t \in Tiers : WorkGone(t)
  \/ PauseWorkers \/ ResumeWorkers \/ FlagExpires
  \/ Restart

Spec == Init /\ [][Next]_vars

(* A finder always polls again, the event loop runs every ready coroutine, and the
   clock reaches every deadline. Other requests may fail at any point.            *)
Fairness == \A p \in Pollers : WF_vars(PollStep(p) \/ Timeout(p))

FairSpec == Spec /\ Fairness

-----------------------------------------------------------------------------
(* Properties *)

(* Types, and what the places in the handlers imply: a poll that went past the gates saw
   no pause, and a request that is over holds nothing.                                *)
TypeOK ==
  /\ rows \in [RowIds -> {"none", "open", "paused"}]
  /\ flag \in BOOLEAN
  /\ work \subseteq Tiers
  /\ event \in [{"work", "control"} -> BOOLEAN]
  /\ poll \in [Pollers -> Poller]
  /\ call \in [Calls -> Request]
  /\ begun \in 0 .. MaxCalls
  /\ \A p \in Pollers : poll[p].pc \in {"query", "serving"} => ~poll[p].paused
  /\ \A c \in Calls : call[c].pc = "idle" => call[c] = NoCall

Notifying(kind) == \E c \in Calls : call[c].pc = "notify" /\ call[c].kind = kind

(* A wake-up is lost in two ways only: another finder's poll consumed the signal, or the
   handler that committed the work failed before it sent it. Else a poll is parked
   although its tier has work only while the handler is about to signal it, wherever the
   commit came between the poll's query and its wait (enrichment_signals.wait_for).     *)
NoMissedWork ==
  \A p \in Pollers :
    poll[p].pc = "parked" /\ poll[p].on = "work" /\ Mode[p] \in work
      => Notifying("work") \/ p \in deaf

(* "a Resume wakes it instantly": a poll is parked on the gate only while a pause stands
   or a resume is about to signal, unless another poll consumed that signal, its handler
   failed, or the pause went by its TTL, which signals no one.                          *)
NoMissedResume ==
  \A p \in Pollers :
    poll[p].pc = "parked" /\ poll[p].on = "control" /\ GateOpen
      => Notifying("resume") \/ p \in deaf

(* "a missed signal costs at most one poll-timeout of latency, never work": finders of
   several tiers consume each other's wake-ups, handlers fail before they signal and
   the server restarts, and still work that stays behind an open gate is handed out. *)
WorkIsServed ==
  \A p \in Pollers :
    (Mode[p] \in work /\ GateOpen)
      ~> (Mode[p] \notin work \/ ~GateOpen \/ poll[p].pc = "serving")

(* "Only POST /resume reopens the gate": no check finds the database gate open while a
   row that a worker paused has not been resumed.                                  *)
ClosedGateHolds ==
  [][\A p \in Pollers :
       poll[p].pc # "flag" /\ poll'[p].pc = "flag" /\ ~poll'[p].paused
         => \A r \in RowIds : rows[r] # "paused"]_vars
=============================================================================
