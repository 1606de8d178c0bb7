----------------------------- MODULE PiHostProofs -----------------------------
(* Proofs about the Pi host: for any aspects, batches and reports, a Session *)
(* is settled once its required writes are, and as they went, and its log    *)
(* tells of its participants what its receipt needs.                         *)
EXTENDS PiHost, FiniteSetTheorems, TLAPS

(* Where the driver awaits an operation of the queue, or a report's relay.   *)
QueueWaits == {"init-rejected", "rejected", "registering", "domain-completed",
    "aspect-started", "aspect-threw", "aspect-failed", "aspect-completed", "drain",
    "finalize"}

RelayWaits == {"bound", "started", "shutdown", "flush"}

\* Where aspect is 0 or an index of Aspects, so that there is a publisher.
PublisherSteps == {"initialize", "init-rejected", "load", "bind", "bound", "started",
    "consume", "domain", "publish", "register", "registering", "aspect-started", "after-run",
    "aspect-threw", "aspect-failed", "aspect-completed"}

BeforeOpening == {"initialize", "init-rejected", "load"}
Settled == {"settle", "settling", "ended"}

Terminals == {"session.completed", "session.failed"}
Governance == {line \in Lines : line.type \notin Terminals}

-----------------------------------------------------------------------------
(* Each operation of the queue: it writes no terminal event, it is due       *)
(* unless it came after the flush, and who awaits it is waiting.             *)
QueueOK ==
    \A i \in DOMAIN queue :
        /\ queue[i].lines \in Seq(Governance) /\ queue[i].lines # <<>>
        /\ ~flushed => queue[i].due
        /\ "link" \in queue[i].waiters => linking
        /\ "driver" \in queue[i].waiters =>
              queue[i].due /\ answer = "none" /\ pc \in QueueWaits

(* The driver awaits one operation, in finalize the last of those due; the   *)
(* relay one too.                                                            *)
WaitersOK ==
    \A i, j \in DOMAIN queue : i < j =>
        /\ ~("link" \in queue[i].waiters /\ "link" \in queue[j].waiters)
        /\ "driver" \in queue[i].waiters =>
              /\ "driver" \notin queue[j].waiters
              /\ pc = "finalize" => ~queue[j].due

(* The driver awaits at most one report.                                     *)
RelayOK ==
    /\ linking => observations # <<>>
    /\ \A i \in DOMAIN observations :
          observations[i].awaited => answer = "none" /\ pc \in RelayWaits
    /\ \A i, j \in DOMAIN observations :
          observations[i].awaited /\ observations[j].awaited => i = j

(* Where the driver can be with and without a native session, before and     *)
(* after the flush.                                                          *)
PhaseOK ==
    /\ ~sdkSession =>
          /\ pc \in BeforeOpening \cup {"catch"} \cup Settled
          /\ observations = <<>> /\ ~linking /\ ~flushed /\ extensionError = "none"
          /\ Len(queue) <= 1
          /\ queue # <<>> => pc = "init-rejected" /\ answer = "none"
    /\ sdkSession => pc \notin BeforeOpening
    /\ flushed => pc \in {"finalize"} \cup Settled
    /\ sdkSession /\ pc \in {"finalize"} \cup Settled => flushed
    /\ pc \in PublisherSteps => aspect <= Len(Aspects)

(* A rejection sticks, and the driver is told.                               *)
StickyOK ==
    /\ lost => rejected
    /\ rejected /\ ~flushed => lost
    /\ reading => ~rejected /\ queue # <<>>
    /\ pc \in QueueWaits /\ answer = "rejected" => lost
    /\ pc = "finalize" /\ answer = "ok" => ~lost

(* When the driver is told of the flush, nothing that was due is left.       *)
DrainedOK ==
    \/ pc = "finalize" /\ answer # "none"
    \/ pc \in Settled
    => \A i \in DOMAIN queue : ~queue[i].due

(* What every failure comes from, and what becomes of it.                    *)
CausesOK ==
    /\ fault # "none" => threw \/ lost
    /\ closeFailure # "none" => threw
    /\ extensionError # "none" => threw
    /\ pc = "init-rejected" => threw
    /\ pc = "catch" \/ caught => fault # "none"
    /\ pc \in {"flush", "finalize"} /\ extensionError = "early" => closeFailure # "none"
    /\ pc \in Settled /\ fault = "none" => ~lost /\ extensionError # "early"
    /\ pc \in Settled /\ lost /\ sdkSession => fault = "storage"

RecordOK ==
    /\ HasTerminal => pc \in {"settling", "ended"}
    /\ status # "running" => pc = "ended"
    /\ status = "completed" => fault = "none"
    /\ status = "failed" => fault # "none"

Inv ==
    /\ TypeOK /\ QueueOK /\ WaitersOK /\ RelayOK /\ PhaseOK
    /\ StickyOK /\ DrainedOK /\ CausesOK /\ RecordOK

NobodyWaits ==
    /\ \A i \in DOMAIN queue : "driver" \notin queue[i].waiters
    /\ \A i \in DOMAIN observations : ~observations[i].awaited

(* What a step of the driver does to the queue ...                           *)
Enqueues ==
    \E lines \in Seq(Governance) \ {<<>>} :
        /\ Enqueue(lines, "driver")
        /\ answer' = "none"
        /\ pc' \in QueueWaits \ {"finalize"}

QueueMove ==
    \/ queue' = queue
    \/ Enqueues
    \/ AwaitWrites(pc') /\ pc' \in QueueWaits

(* ... and to the chain of reports.                                          *)
Observes ==
    \E event \in {"started", "shutdown"} :
        /\ Observe(event, Primary, TRUE)
        /\ answer' = "none"
        /\ pc' \in RelayWaits

RelayMove ==
    \/ observations' = observations
    \/ Observes
    \/ AwaitObservations(pc') /\ pc' \in RelayWaits

-----------------------------------------------------------------------------
LEMMA AppendFacts ==
  ASSUME NEW S, NEW q \in Seq(S), NEW x \in S
  PROVE  /\ Append(q, x) \in Seq(S)
         /\ DOMAIN Append(q, x) = 1 .. Len(q) + 1
         /\ Append(q, x)[Len(q) + 1] = x
         /\ \A i \in DOMAIN q : Append(q, x)[i] = q[i]
         /\ DOMAIN q = 1 .. Len(q) /\ Len(q) \in Nat
  OBVIOUS

LEMMA TailFacts ==
  ASSUME NEW S, NEW q \in Seq(S), q # <<>>
  PROVE  /\ Tail(q) \in Seq(S) /\ Head(q) = q[1] /\ 1 \in DOMAIN q
         /\ Len(Tail(q)) = Len(q) - 1 /\ Len(q) \in Nat
         /\ \A i \in DOMAIN Tail(q) :
               Tail(q)[i] = q[i + 1] /\ i + 1 \in DOMAIN q /\ i \in Nat /\ i >= 1
  OBVIOUS

LEMMA ReplaceFacts ==
  ASSUME NEW S, NEW q \in Seq(S), NEW k \in DOMAIN q, NEW x \in S
  PROVE  /\ [q EXCEPT ![k] = x] \in Seq(S)
         /\ Len([q EXCEPT ![k] = x]) = Len(q)
         /\ DOMAIN [q EXCEPT ![k] = x] = DOMAIN q
         /\ \A i \in DOMAIN q : [q EXCEPT ![k] = x][i] = IF i = k THEN x ELSE q[i]
  OBVIOUS

LEMMA LastOf ==
  ASSUME NEW S, NEW q \in Seq(S), q # <<>>
  PROVE  Len(q) \in DOMAIN q /\ \A i \in DOMAIN q : i \in Nat /\ i <= Len(q)
  OBVIOUS

-----------------------------------------------------------------------------
(* The driver's moves keep the queue and the chain of reports in order.      *)
LEMMA DriverIsFree ==
  ASSUME QueueOK, RelayOK,
         answer # "none" \/ pc \notin QueueWaits \cup RelayWaits
  PROVE  NobodyWaits
  BY DEF QueueOK, RelayOK, NobodyWaits

LEMMA QueueStays ==
  ASSUME QueueOK, WaitersOK, NobodyWaits, queue' = queue, linking' = linking,
         flushed => flushed'
  PROVE  QueueOK' /\ WaitersOK'
  BY DEF QueueOK, WaitersOK, NobodyWaits

LEMMA DriverEnqueues ==
  ASSUME queue \in Seq(Operations), QueueOK, WaitersOK, NobodyWaits,
         linking' = linking, flushed' = flushed, ~flushed, Enqueues
  PROVE  queue' \in Seq(Operations) /\ QueueOK' /\ WaitersOK'
<1>1. PICK lines \in Seq(Governance) \ {<<>>} :
        /\ Enqueue(lines, "driver")
        /\ answer' = "none" /\ pc' \in QueueWaits \ {"finalize"}
  BY DEF Enqueues
<1> DEFINE op == [lines |-> lines, waiters |-> {"driver"}, due |-> TRUE, doomed |-> FALSE]
<1>2. lines \in Seq(Lines)
  BY DEF Governance
<1>3. op \in Operations /\ queue' = Append(queue, op)
  BY <1>1, <1>2 DEF Enqueue, Operations
<1> HIDE DEF op
<1>4. /\ queue' \in Seq(Operations)
      /\ DOMAIN queue' = 1 .. Len(queue) + 1
      /\ queue'[Len(queue) + 1] = op
      /\ \A i \in DOMAIN queue : queue'[i] = queue[i]
      /\ DOMAIN queue = 1 .. Len(queue) /\ Len(queue) \in Nat
  BY <1>3, AppendFacts
<1>5. /\ op.lines = lines /\ op.waiters = {"driver"} /\ op.due
  BY DEF op
<1>6. \A i \in DOMAIN queue' : i \in DOMAIN queue \/ i = Len(queue) + 1
  BY <1>4
<1>7. QueueOK'
  BY <1>1, <1>4, <1>5, <1>6 DEF QueueOK, NobodyWaits
<1>8. WaitersOK'
  <2> SUFFICES ASSUME NEW i \in DOMAIN queue', NEW j \in DOMAIN queue', i < j
               PROVE  /\ ~("link" \in queue'[i].waiters /\ "link" \in queue'[j].waiters)
                      /\ "driver" \notin queue'[i].waiters
    BY DEF WaitersOK
  <2>1. i \in DOMAIN queue
    BY <1>4
  <2>2. CASE j \in DOMAIN queue
    BY <2>1, <2>2, <1>4 DEF WaitersOK, NobodyWaits
  <2>3. CASE j = Len(queue) + 1
    BY <2>1, <2>3, <1>4, <1>5 DEF NobodyWaits
  <2> QED
    BY <2>2, <2>3, <1>6
<1> QED
  BY <1>4, <1>7, <1>8

LEMMA DriverAwaitsWrites ==
  ASSUME queue \in Seq(Operations), QueueOK, WaitersOK, NobodyWaits,
         linking' = linking, flushed => flushed', ~flushed,
         NEW step \in QueueWaits, AwaitWrites(step)
  PROVE  queue' \in Seq(Operations) /\ QueueOK' /\ WaitersOK'
<1>1. CASE queue = <<>>
  <2>1. queue' = queue
    BY <1>1 DEF AwaitWrites
  <2> QED
    BY <2>1, QueueStays
<1>2. CASE queue # <<>>
  <2> DEFINE n == Len(queue)
             op == [queue[n] EXCEPT !.waiters = @ \cup {"driver"}]
  <2>1. /\ pc' = step /\ answer' = "none"
        /\ queue' = [queue EXCEPT ![n] = op]
    BY <1>2 DEF AwaitWrites, Goto
  <2>2. n \in DOMAIN queue /\ \A i \in DOMAIN queue : i \in Nat /\ i <= n
    BY <1>2, LastOf
  <2>3. queue[n] \in Operations
    BY <2>2
  <2>4. op \in Operations
    BY <2>3 DEF Operations
  <2>5. /\ op.lines = queue[n].lines /\ op.due = queue[n].due
        /\ op.waiters = queue[n].waiters \cup {"driver"}
    BY <2>3 DEF Operations
  <2>6. \A i \in DOMAIN queue : i < n => i # n
    BY <2>2
  <2> HIDE DEF op, n
  <2>7. /\ queue' \in Seq(Operations) /\ DOMAIN queue' = DOMAIN queue
        /\ \A i \in DOMAIN queue : queue'[i] = IF i = n THEN op ELSE queue[i]
    BY <2>1, <2>2, <2>4, ReplaceFacts
  <2>8. QueueOK'
    BY <2>1, <2>2, <2>5, <2>7 DEF QueueOK, NobodyWaits
  <2>9. WaitersOK'
    <3> SUFFICES ASSUME NEW i \in DOMAIN queue, NEW j \in DOMAIN queue, i < j
                 PROVE  /\ ~("link" \in queue'[i].waiters /\ "link" \in queue'[j].waiters)
                        /\ "driver" \notin queue'[i].waiters
      BY <2>7 DEF WaitersOK
    <3>1. i # n /\ queue'[i] = queue[i]
      BY <2>2, <2>7
    <3>2. "link" \in queue'[j].waiters => "link" \in queue[j].waiters
      BY <2>5, <2>7
    <3> QED
      BY <3>1, <3>2 DEF WaitersOK, NobodyWaits
  <2> QED
    BY <2>7, <2>8, <2>9
<1> QED
  BY <1>1, <1>2

LEMMA DriverQueue ==
  ASSUME queue \in Seq(Operations), QueueOK, WaitersOK, NobodyWaits,
         linking' = linking, flushed' = flushed, ~flushed, QueueMove
  PROVE  queue' \in Seq(Operations) /\ QueueOK' /\ WaitersOK'
<1>1. CASE queue' = queue
  BY <1>1, QueueStays
<1>2. CASE AwaitWrites(pc') /\ pc' \in QueueWaits
  BY <1>2, DriverAwaitsWrites
<1>3. CASE Enqueues
  BY <1>3, DriverEnqueues
<1> QED
  BY <1>1, <1>2, <1>3 DEF QueueMove

LEMMA DriverRelay ==
  ASSUME observations \in Seq(Links), RelayOK, NobodyWaits, linking' = linking, RelayMove
  PROVE  observations' \in Seq(Links) /\ RelayOK'
<1>1. CASE observations' = observations
  BY <1>1 DEF RelayOK, NobodyWaits
<1>2. CASE Observes
  <2>1. PICK event \in {"started", "shutdown"} :
          /\ Observe(event, Primary, TRUE)
          /\ answer' = "none" /\ pc' \in RelayWaits
    BY <1>2 DEF Observes
  <2> DEFINE link == [event |-> event, plugin |-> Primary, awaited |-> TRUE]
  <2>2. link \in Links /\ observations' = Append(observations, link) /\ link.awaited
    BY <2>1 DEF Links, Observe, Plugins
  <2> HIDE DEF link
  <2>3. /\ observations' \in Seq(Links)
        /\ DOMAIN observations' = 1 .. Len(observations) + 1
        /\ observations'[Len(observations) + 1] = link
        /\ \A i \in DOMAIN observations : observations'[i] = observations[i]
        /\ DOMAIN observations = 1 .. Len(observations) /\ Len(observations) \in Nat
    BY <2>2, AppendFacts
  <2>4. \A i \in DOMAIN observations' :
          i \in DOMAIN observations \/ i = Len(observations) + 1
    BY <2>3
  <2>5. observations' # <<>>
    BY <2>3
  <2>6. \A i \in DOMAIN observations' :
          observations'[i].awaited => i = Len(observations) + 1
    BY <2>3, <2>4 DEF NobodyWaits
  <2> QED
    BY <2>1, <2>3, <2>5, <2>6 DEF RelayOK
<1>3. CASE AwaitObservations(pc') /\ pc' \in RelayWaits /\ observations = <<>>
  <2>1. observations' = observations
    BY <1>3 DEF AwaitObservations
  <2> QED
    BY <2>1 DEF RelayOK, NobodyWaits
<1>4. CASE AwaitObservations(pc') /\ pc' \in RelayWaits /\ observations # <<>>
  <2> DEFINE n == Len(observations)
             link == [observations[n] EXCEPT !.awaited = TRUE]
  <2>1. answer' = "none" /\ observations' = [observations EXCEPT ![n] = link]
    BY <1>4 DEF AwaitObservations
  <2>2. n \in DOMAIN observations
    BY <1>4, LastOf
  <2> observations[n] \in Links
    BY <2>2
  <2>3. link \in Links
    BY DEF Links
  <2> HIDE DEF link, n
  <2>4. /\ observations' \in Seq(Links) /\ DOMAIN observations' = DOMAIN observations
        /\ \A i \in DOMAIN observations :
              observations'[i] = IF i = n THEN link ELSE observations[i]
    BY <2>1, <2>2, <2>3, ReplaceFacts
  <2>5. observations' # <<>>
    BY <2>2, <2>4
  <2>6. \A i \in DOMAIN observations' : observations'[i].awaited => i = n
    BY <2>4 DEF NobodyWaits
  <2> QED
    BY <1>4, <2>1, <2>4, <2>5, <2>6 DEF RelayOK
<1> QED
  BY <1>1, <1>2, <1>3, <1>4 DEF RelayMove

-----------------------------------------------------------------------------
(* The writer's steps: its first operation is finished, or goes on.          *)
LEMMA GoesOn ==
  ASSUME queue \in Seq(Operations), QueueOK, WaitersOK, queue # <<>>,
         NEW op \in Operations, op.waiters = queue[1].waiters, op.due = queue[1].due,
         op.lines \in Seq(Governance), op.lines # <<>>,
         queue' = [queue EXCEPT ![1] = op],
         UNCHANGED <<linking, flushed, pc, answer>>
  PROVE  /\ queue' \in Seq(Operations) /\ QueueOK' /\ WaitersOK'
         /\ Len(queue') = Len(queue) /\ queue' # <<>>
         /\ (\A i \in DOMAIN queue : ~queue[i].due) => \A i \in DOMAIN queue' : ~queue'[i].due
<1>1. 1 \in DOMAIN queue
  OBVIOUS
<1>2. /\ queue' \in Seq(Operations) /\ DOMAIN queue' = DOMAIN queue
      /\ Len(queue') = Len(queue)
      /\ \A i \in DOMAIN queue : queue'[i] = IF i = 1 THEN op ELSE queue[i]
  BY <1>1, ReplaceFacts
<1>3. \A i \in DOMAIN queue :
        queue'[i].waiters = queue[i].waiters /\ queue'[i].due = queue[i].due
  BY <1>2
<1>4. \A i \in DOMAIN queue : queue'[i].lines \in Seq(Governance) /\ queue'[i].lines # <<>>
  BY <1>2 DEF QueueOK
<1>5. QueueOK'
  BY <1>2, <1>3, <1>4 DEF QueueOK
<1>6. WaitersOK'
  BY <1>2, <1>3 DEF WaitersOK
<1> QED
  BY <1>1, <1>2, <1>3, <1>5, <1>6

LEMMA Finishes ==
  ASSUME TypeOK, QueueOK, WaitersOK, RelayOK, DrainedOK, queue # <<>>,
         NEW result \in {"ok", "rejected"}, Finish(result), UNCHANGED <<pc, flushed>>
  PROVE  /\ queue' \in Seq(Operations) /\ observations' \in Seq(Links)
         /\ linking' \in BOOLEAN
         /\ observations = <<>> => observations' = <<>>
         /\ QueueOK' /\ WaitersOK' /\ RelayOK' /\ DrainedOK'
         /\ Len(queue') = Len(queue) - 1
         /\ queue[1].due = TRUE \/ queue[1].due = FALSE
         /\ ~flushed => queue[1].due
         /\ lost' = (lost \/ (queue[1].due /\ result = "rejected"))
         /\ pc \in Settled \/ (pc = "finalize" /\ answer # "none") => ~queue[1].due
         /\ \/ answer' = answer
            \/ answer' = result /\ pc \in QueueWaits /\ queue[1].due
            \/ answer' = "ok" /\ pc \in RelayWaits
<1> DEFINE op == queue[1]
<1>1. /\ queue' \in Seq(Operations) /\ Head(queue) = op /\ queue' = Tail(queue)
      /\ 1 \in DOMAIN queue /\ op \in Operations
      /\ Len(queue') = Len(queue) - 1
      /\ \A i \in DOMAIN queue' :
            queue'[i] = queue[i + 1] /\ i + 1 \in DOMAIN queue /\ i \in Nat /\ 1 < i + 1
  BY TailFacts DEF TypeOK, Finish
<1>2. op.due \in BOOLEAN
  BY <1>1 DEF Operations
<1> HIDE DEF op
<1>3. /\ lost' = (lost \/ (op.due /\ result = "rejected"))
      /\ answer' = IF "driver" \in op.waiters THEN result
                   ELSE IF "link" \in op.waiters /\ Head(observations).awaited THEN "ok"
                   ELSE answer
      /\ "link" \in op.waiters => observations' = Tail(observations) /\ linking' = FALSE
      /\ "link" \notin op.waiters => observations' = observations /\ linking' = linking
  BY <1>1 DEF Finish, EndsLink
<1>4. /\ "link" \in op.waiters => linking /\ observations # <<>>
      /\ "driver" \in op.waiters => op.due /\ answer = "none" /\ pc \in QueueWaits
      /\ ~flushed => op.due
  BY <1>1 DEF QueueOK, RelayOK, op
<1>5. \A i \in DOMAIN queue' :
        /\ ~("link" \in op.waiters /\ "link" \in queue'[i].waiters)
        /\ "driver" \in op.waiters => "driver" \notin queue'[i].waiters
        /\ "driver" \in op.waiters /\ pc = "finalize" => ~queue'[i].due
  BY <1>1 DEF WaitersOK, op
<1>6. "link" \in op.waiters =>
        /\ Head(observations) = observations[1] /\ 1 \in DOMAIN observations
        /\ observations' \in Seq(Links)
        /\ \A i \in DOMAIN observations' :
              /\ observations'[i] = observations[i + 1] /\ i + 1 \in DOMAIN observations
              /\ i \in Nat /\ i + 1 # 1
  <2>1. SUFFICES ASSUME "link" \in op.waiters
                 PROVE  /\ Head(observations) = observations[1] /\ 1 \in DOMAIN observations
                        /\ observations' \in Seq(Links)
                        /\ \A i \in DOMAIN observations' :
                              /\ observations'[i] = observations[i + 1]
                              /\ i + 1 \in DOMAIN observations
                              /\ i \in Nat /\ i + 1 # 1
    OBVIOUS
  <2>2. observations \in Seq(Links) /\ observations # <<>> /\ observations' = Tail(observations)
    BY <1>3, <1>4, <2>1 DEF TypeOK
  <2>3. /\ Tail(observations) \in Seq(Links) /\ Head(observations) = observations[1]
        /\ 1 \in DOMAIN observations
        /\ \A i \in DOMAIN Tail(observations) :
              /\ Tail(observations)[i] = observations[i + 1] /\ i + 1 \in DOMAIN observations
              /\ i \in Nat /\ i >= 1
    BY <2>2, TailFacts
  <2> QED
    BY <2>2, <2>3
<1>7. "link" \in op.waiters /\ Head(observations).awaited =>
        answer = "none" /\ pc \in RelayWaits
  BY <1>6 DEF RelayOK
<1>8. \/ answer' = answer
      \/ answer' = result /\ "driver" \in op.waiters
      \/ answer' = "ok" /\ pc \in RelayWaits /\ "link" \in op.waiters
  BY <1>3, <1>7
<1>9. QueueOK'
  <2> SUFFICES ASSUME NEW i \in DOMAIN queue'
               PROVE  /\ queue'[i].lines \in Seq(Governance) /\ queue'[i].lines # <<>>
                      /\ ~flushed' => queue'[i].due
                      /\ "link" \in queue'[i].waiters => linking'
                      /\ "driver" \in queue'[i].waiters =>
                            queue'[i].due /\ answer' = "none" /\ pc' \in QueueWaits
    BY DEF QueueOK
  <2>1. /\ queue'[i].lines \in Seq(Governance) /\ queue'[i].lines # <<>>
        /\ ~flushed' => queue'[i].due
    BY <1>1 DEF QueueOK
  <2>2. "link" \in queue'[i].waiters => linking'
    BY <1>1, <1>3, <1>5 DEF QueueOK
  <2>3. ASSUME "driver" \in queue'[i].waiters
        PROVE  queue'[i].due /\ answer' = "none" /\ pc' \in QueueWaits
    <3>1. queue'[i].due /\ answer = "none" /\ pc \in QueueWaits
      BY <1>1, <2>3 DEF QueueOK
    <3>2. pc \notin RelayWaits
      BY <3>1 DEF QueueWaits, RelayWaits
    <3> QED
      BY <1>5, <1>8, <2>3, <3>1, <3>2
  <2> QED
    BY <2>1, <2>2, <2>3
<1>10. WaitersOK'
  <2> SUFFICES ASSUME NEW i \in DOMAIN queue', NEW j \in DOMAIN queue', i < j
               PROVE  /\ ~("link" \in queue'[i].waiters /\ "link" \in queue'[j].waiters)
                      /\ "driver" \in queue'[i].waiters =>
                            /\ "driver" \notin queue'[j].waiters
                            /\ pc' = "finalize" => ~queue'[j].due
    BY DEF WaitersOK
  <2>1. /\ i + 1 \in DOMAIN queue /\ j + 1 \in DOMAIN queue /\ i + 1 < j + 1
        /\ queue'[i] = queue[i + 1] /\ queue'[j] = queue[j + 1]
    BY <1>1
  <2> QED
    BY <2>1 DEF WaitersOK
<1>11. RelayOK' /\ observations' \in Seq(Links)
  <2>1. CASE "link" \in op.waiters
    <3>1. ASSUME NEW i \in DOMAIN observations', observations'[i].awaited
          PROVE  answer' = "none" /\ pc' \in RelayWaits
      <4>1. observations[i + 1].awaited /\ i + 1 \in DOMAIN observations /\ i + 1 # 1
        BY <1>6, <2>1, <3>1
      <4>2. answer = "none" /\ pc \in RelayWaits /\ ~observations[1].awaited
        BY <4>1, <1>6, <2>1 DEF RelayOK
      <4>3. "driver" \notin op.waiters
        BY <4>2, <1>4 DEF QueueWaits, RelayWaits
      <4> QED
        BY <4>2, <4>3, <1>3, <1>6, <2>1
    <3>2. ASSUME NEW i \in DOMAIN observations', NEW j \in DOMAIN observations',
                 observations'[i].awaited, observations'[j].awaited
          PROVE  i = j
      <4>1. i + 1 = j + 1
        BY <1>6, <2>1, <3>2 DEF RelayOK
      <4> QED
        BY <4>1, <1>6, <2>1
    <3> QED
      BY <1>3, <1>6, <2>1, <3>1, <3>2 DEF RelayOK
  <2>2. CASE "link" \notin op.waiters
    <3>1. observations' = observations /\ linking' = linking
      BY <1>3, <2>2
    <3>2. ASSUME NEW i \in DOMAIN observations, observations[i].awaited
          PROVE  answer' = "none" /\ pc \in RelayWaits
      <4>1. answer = "none" /\ pc \in RelayWaits
        BY <3>2 DEF RelayOK
      <4>2. "driver" \notin op.waiters
        BY <4>1, <1>4 DEF QueueWaits, RelayWaits
      <4> QED
        BY <4>1, <4>2, <1>3, <2>2
    <3> QED
      BY <3>1, <3>2 DEF RelayOK, TypeOK
  <2> QED
    BY <2>1, <2>2
<1>12. pc \in Settled \/ (pc = "finalize" /\ answer # "none") =>
         \A i \in DOMAIN queue : ~queue[i].due
  BY DEF DrainedOK
<1>13. DrainedOK'
  <2> SUFFICES ASSUME (pc = "finalize" /\ answer' # "none") \/ pc \in Settled,
                      NEW i \in DOMAIN queue'
               PROVE  ~queue'[i].due
    BY DEF DrainedOK
  <2>1. CASE pc \in Settled \/ (pc = "finalize" /\ answer # "none")
    BY <1>1, <1>12, <2>1
  <2>2. CASE pc = "finalize" /\ answer = "none" /\ answer' # "none"
    <3>1. "driver" \in op.waiters
      BY <1>8, <2>2 DEF RelayWaits
    <3> QED
      BY <3>1, <1>5, <2>2
  <2> QED
    BY <2>1, <2>2 DEF Settled
<1> QED
  <2>1. linking' \in BOOLEAN
    <3>1. linking \in BOOLEAN
      BY DEF TypeOK
    <3> QED
      BY <1>3, <3>1
  <2>2. observations = <<>> => observations' = <<>>
    BY <1>3, <1>4
  <2>3. \/ answer' = answer
        \/ answer' = result /\ pc \in QueueWaits /\ op.due
        \/ answer' = "ok" /\ pc \in RelayWaits
    BY <1>4, <1>8
  <2>4. pc \in Settled \/ (pc = "finalize" /\ answer # "none") => ~op.due
    BY <1>1, <1>12 DEF op
  <2> QED
    BY <1>1, <1>2, <1>3, <1>4, <1>9, <1>10, <1>11, <1>13, <2>1, <2>2, <2>3, <2>4 DEF op

LogMove == log' = log \/ \E line \in Governance : log' = Append(log, line)

LEMMA LogGrows ==
  ASSUME log \in Seq(Lines), LogMove
  PROVE  log' \in Seq(Lines) /\ (HasTerminal' => HasTerminal)
<1>1. CASE log' = log
  BY <1>1 DEF HasTerminal
<1>2. CASE \E line \in Governance : log' = Append(log, line)
  <2>1. PICK line \in Governance : log' = Append(log, line)
    BY <1>2
  <2>2. line \in Lines /\ line.type \notin Terminals
    BY DEF Governance
  <2>3. /\ log' \in Seq(Lines) /\ DOMAIN log' = 1 .. Len(log) + 1
        /\ log'[Len(log) + 1] = line
        /\ \A i \in DOMAIN log : log'[i] = log[i]
        /\ DOMAIN log = 1 .. Len(log) /\ Len(log) \in Nat
    BY <2>1, <2>2, AppendFacts
  <2>4. \A i \in DOMAIN log' : i \in DOMAIN log \/ i = Len(log) + 1
    BY <2>3
  <2> QED
    BY <2>2, <2>3, <2>4 DEF HasTerminal, Terminals
<1> QED
  BY <1>1, <1>2 DEF LogMove

LEMMA FinishKeeps ==
  ASSUME Inv, queue # <<>>, NEW result \in {"ok", "rejected"}, Finish(result),
         result = "ok" => ~rejected, NotTheWriter, LogMove
  PROVE  Inv'
<1>1. TypeOK /\ QueueOK /\ WaitersOK /\ RelayOK /\ DrainedOK /\ UNCHANGED <<pc, flushed>>
  BY DEF Inv, NotTheWriter
<1>2. /\ queue' \in Seq(Operations) /\ observations' \in Seq(Links) /\ linking' \in BOOLEAN
      /\ observations = <<>> => observations' = <<>>
      /\ QueueOK' /\ WaitersOK' /\ RelayOK' /\ DrainedOK'
      /\ Len(queue') = Len(queue) - 1
      /\ queue[1].due = TRUE \/ queue[1].due = FALSE
      /\ ~flushed => queue[1].due
      /\ lost' = (lost \/ (queue[1].due /\ result = "rejected"))
      /\ pc \in Settled \/ (pc = "finalize" /\ answer # "none") => ~queue[1].due
      /\ \/ answer' = answer
         \/ answer' = result /\ pc \in QueueWaits /\ queue[1].due
         \/ answer' = "ok" /\ pc \in RelayWaits
  BY <1>1, Finishes
<1>3. log' \in Seq(Lines) /\ (HasTerminal' => HasTerminal)
  BY <1>1, LogGrows DEF TypeOK
<1>4. rejected' = (rejected \/ result = "rejected") /\ reading' = FALSE
  BY DEF Finish, StaysRejected
<1>5. UNCHANGED <<pc, sdkSession, fault, caught, aspect, batch, class, closeFailure, reports,
                  extensionError, status, flushed, threw>>
  BY DEF NotTheWriter
<1>6. lost' \in BOOLEAN /\ rejected' \in BOOLEAN /\ answer' \in {"none", "ok", "rejected"}
  BY <1>1, <1>2, <1>4 DEF TypeOK
<1>7. TypeOK'
  BY <1>1, <1>2, <1>3, <1>4, <1>5, <1>6 DEF TypeOK
<1>8. PhaseOK'
  <2>1. ASSUME ~sdkSession
        PROVE  observations' = <<>> /\ ~linking' /\ Len(queue') <= 1 /\ queue' = <<>>
    <3>1. observations' = <<>>
      BY <1>2, <2>1 DEF Inv, PhaseOK
    <3>2. ~linking'
      BY <1>2, <3>1 DEF RelayOK
    <3>3. Len(queue) <= 1 /\ Len(queue) \in Nat /\ Len(queue') \in Nat
      BY <1>1, <1>2, <2>1 DEF Inv, PhaseOK, TypeOK
    <3>4. Len(queue') = 0
      BY <1>2, <3>3
    <3>5. queue' = <<>>
      BY <1>2, <3>4
    <3> QED
      BY <3>1, <3>2, <3>4, <3>5
  <2> QED
    BY <1>5, <2>1 DEF Inv, PhaseOK
<1>9. StickyOK'
  <2>1. /\ lost => rejected
        /\ rejected /\ ~flushed => lost
        /\ pc \in QueueWaits /\ answer = "rejected" => lost
        /\ pc = "finalize" /\ answer = "ok" => ~lost
    BY DEF Inv, StickyOK
  <2>2. /\ lost' => rejected'
        /\ rejected' /\ ~flushed' => lost'
    BY <1>2, <1>4, <1>5, <2>1
  <2>3. pc' \in QueueWaits /\ answer' = "rejected" => lost'
    BY <1>2, <1>5, <2>1
  <2>4. ASSUME pc' = "finalize", answer' = "ok"
        PROVE  ~lost'
    <3>1. pc = "finalize" /\ pc \notin RelayWaits
      BY <1>5, <2>4 DEF RelayWaits
    <3>2. CASE answer' = answer
      BY <1>2, <2>1, <2>4, <3>1, <3>2
    <3>3. CASE answer' = result
      BY <1>2, <2>1, <2>4, <3>3
    <3> QED
      BY <1>2, <3>1, <3>2, <3>3
  <2> QED
    BY <1>4, <2>2, <2>3, <2>4 DEF StickyOK
<1>10. CausesOK'
  <2>1. pc \in Settled => lost' = lost
    BY <1>2 , <1>1 DEF TypeOK
  <2>2. lost => lost'
    BY <1>2
  <2> QED
    BY <1>5, <2>1, <2>2 DEF Inv, CausesOK
<1>11. RecordOK'
  BY <1>3, <1>5 DEF Inv, RecordOK
<1> QED
  BY <1>2, <1>7, <1>8, <1>9, <1>10, <1>11 DEF Inv

LEMMA GoesOnKeeps ==
  ASSUME Inv, queue # <<>>, NEW op \in Operations,
         op.waiters = queue[1].waiters, op.due = queue[1].due,
         op.lines \in Seq(Governance), op.lines # <<>>,
         queue' = [queue EXCEPT ![1] = op],
         reading' \in BOOLEAN, reading' => ~rejected, LogMove, NotTheWriter,
         UNCHANGED <<answer, rejected, lost, observations, linking>>
  PROVE  Inv'
<1>1. UNCHANGED <<pc, sdkSession, fault, caught, aspect, batch, class, closeFailure, reports,
                  extensionError, status, flushed, threw>>
  BY DEF NotTheWriter
<1>2. /\ queue' \in Seq(Operations) /\ QueueOK' /\ WaitersOK'
      /\ Len(queue') = Len(queue) /\ queue' # <<>>
      /\ (\A i \in DOMAIN queue : ~queue[i].due) => \A i \in DOMAIN queue' : ~queue'[i].due
  BY <1>1, GoesOn DEF Inv, TypeOK
<1>3. log' \in Seq(Lines) /\ (HasTerminal' => HasTerminal)
  BY LogGrows DEF Inv, TypeOK
<1>4. TypeOK'
  BY <1>1, <1>2, <1>3 DEF Inv, TypeOK
<1>5. RelayOK'
  BY <1>1 DEF Inv, RelayOK
<1>6. PhaseOK'
  BY <1>1, <1>2 DEF Inv, PhaseOK
<1>7. StickyOK'
  BY <1>1, <1>2 DEF Inv, StickyOK
<1>8. DrainedOK'
  BY <1>1, <1>2 DEF Inv, DrainedOK
<1>9. CausesOK'
  BY <1>1 DEF Inv, CausesOK
<1>10. RecordOK'
  BY <1>1, <1>3 DEF Inv, RecordOK
<1> QED
  BY <1>2, <1>4, <1>5, <1>6, <1>7, <1>8, <1>9, <1>10 DEF Inv

LEMMA FirstOperation ==
  ASSUME Inv, queue # <<>>
  PROVE  /\ Head(queue) = queue[1] /\ queue[1] \in Operations
         /\ queue[1].lines \in Seq(Governance) /\ queue[1].lines # <<>>
         /\ Head(queue[1].lines) \in Governance
<1>1. Head(queue) = queue[1] /\ 1 \in DOMAIN queue /\ queue[1] \in Operations
  BY DEF Inv, TypeOK
<1>2. queue[1].lines \in Seq(Governance) /\ queue[1].lines # <<>>
  BY <1>1 DEF Inv, QueueOK
<1> QED
  BY <1>1, <1>2

LEMMA FailKeeps ==
  ASSUME Inv, queue # <<>>, Fail, LogMove, NotTheWriter
  PROVE  Inv'
<1> DEFINE first == queue[1]
           line == Head(first.lines)
<1>1. /\ Head(queue) = first /\ first \in Operations
      /\ line \in Lines
  BY FirstOperation DEF Governance
<1>2. CASE ~(line.type = "artifact" /\ line.plugin # Primary)
  <2>1. Finish("rejected")
    BY <1>1, <1>2 DEF Fail
  <2> QED
    BY <2>1, FinishKeeps
<1>3. CASE line.type = "artifact" /\ line.plugin # Primary
  <2> DEFINE lines == AspectFailure(line.plugin, "governance-storage")
             op == [first EXCEPT !.lines = lines, !.doomed = TRUE]
  <2>1. /\ queue' = [queue EXCEPT ![1].lines = lines, ![1].doomed = TRUE]
        /\ reading' = FALSE
        /\ UNCHANGED <<answer, rejected, lost, observations, linking>>
    BY <1>1, <1>3 DEF Fail
  <2>2. lines \in Seq(Governance) /\ lines # <<>> /\ lines \in Seq(Lines)
    <3>1. line.plugin \in Plugins
      BY <1>1 DEF Lines
    <3>2. Line("observer.failed", line.plugin, "governance-storage") \in Governance
      BY <3>1 DEF Line, Lines, Governance, Terminals
    <3> QED
      BY <3>2 DEF AspectFailure, Governance
  <2>3. 1 \in DOMAIN queue
    BY DEF Inv, TypeOK
  <2> HIDE DEF lines, line
  <2>4. op \in Operations
    BY <1>1, <2>2 DEF Operations
  <2>5. op.waiters = first.waiters /\ op.due = first.due /\ op.lines = lines
    BY <1>1 DEF Operations
  <2>6. queue' = [queue EXCEPT ![1] = op]
    BY <2>1, <2>3 DEF Inv, TypeOK
  <2> HIDE DEF op
  <2> QED
    BY <2>1, <2>2, <2>4, <2>5, <2>6, GoesOnKeeps
<1> QED
  BY <1>2, <1>3

LEMMA SkipKeeps ==
  ASSUME Inv, Skip
  PROVE  Inv'
  BY FinishKeeps DEF Skip, LogMove

LEMMA ReadKeeps ==
  ASSUME Inv, Read
  PROVE  Inv'
<1>1. LogMove /\ NotTheWriter /\ queue # <<>> /\ ~rejected
  BY DEF Read, LogMove
<1>2. CASE Fail
  BY <1>1, <1>2, FailKeeps
<1>3. CASE reading' = TRUE /\ UNCHANGED <<answer, queue, rejected, lost, observations, linking>>
  <2>1. queue' = [queue EXCEPT ![1] = queue[1]]
    BY <1>3 DEF Inv, TypeOK
  <2> QED
    BY <1>1, <1>3, <2>1, FirstOperation, GoesOnKeeps
<1> QED
  BY <1>2, <1>3 DEF Read

LEMMA WriteKeeps ==
  ASSUME Inv, Write
  PROVE  Inv'
<1> DEFINE first == queue[1]
<1>1. reading /\ queue # <<>> /\ ~rejected /\ NotTheWriter
  BY DEF Write, Inv, StickyOK
<1>2. /\ Head(queue) = first /\ first \in Operations
      /\ first.lines \in Seq(Governance) /\ first.lines # <<>>
      /\ Head(first.lines) \in Governance
  BY <1>1, FirstOperation
<1>3. CASE log' \in {log, Append(log, Head(first.lines))} /\ Fail
  <2>1. LogMove
    BY <1>2, <1>3 DEF LogMove
  <2> QED
    BY <1>1, <1>3, <2>1, FailKeeps
<1>4. CASE /\ log' = Append(log, Head(first.lines))
           /\ Finish(IF first.doomed THEN "rejected" ELSE "ok")
  <2>1. LogMove
    BY <1>2, <1>4 DEF LogMove
  <2> QED
    BY <1>1, <1>4, <2>1, FinishKeeps
<1>5. CASE /\ log' = Append(log, Head(first.lines)) /\ Len(first.lines) > 1
           /\ queue' = [queue EXCEPT ![1].lines = Tail(first.lines)]
           /\ reading' = FALSE
           /\ UNCHANGED <<answer, rejected, lost, observations, linking>>
  <2> DEFINE lines == Tail(first.lines)
             op == [first EXCEPT !.lines = lines]
  <2>1. LogMove
    BY <1>2, <1>5 DEF LogMove
  <2>2. lines \in Seq(Governance) /\ lines # <<>> /\ lines \in Seq(Lines)
    <3>1. lines \in Seq(Governance) /\ Len(lines) = Len(first.lines) - 1
      BY <1>2
    <3>2. lines # <<>>
      BY <1>2, <1>5, <3>1
    <3> QED
      BY <3>1, <3>2 DEF Governance
  <2>3. 1 \in DOMAIN queue
    BY <1>1 DEF Inv, TypeOK
  <2> HIDE DEF lines
  <2>4. op \in Operations
    BY <1>2, <2>2 DEF Operations
  <2>5. op.waiters = first.waiters /\ op.due = first.due /\ op.lines = lines
    BY <1>2 DEF Operations
  <2>6. queue' = [queue EXCEPT ![1] = op]
    BY <1>5, <2>3 DEF Inv, TypeOK, lines
  <2> HIDE DEF op
  <2> QED
    BY <1>1, <1>5, <2>1, <2>2, <2>4, <2>5, <2>6, GoesOnKeeps
<1> QED
  BY <1>1, <1>2, <1>3, <1>4, <1>5 DEF Write

-----------------------------------------------------------------------------
(* The lines of an observation.                                              *)
LEMMA ObservationLines ==
  ASSUME NEW event \in {"initialization-rejected", "started", "shutdown", "domain-completed",
                        "execution-rejected", "aspect-started", "aspect-completed",
                        "aspect-error", "extension-error"},
         NEW plugin \in Plugins
  PROVE  Observation(event, plugin) \in Seq(Governance) \ {<<>>}
<1> DEFINE first == Line("runtime.pi", plugin, event)
<1>1. first \in Governance
  BY DEF Line, Lines, Governance, Terminals
<1>2. \A detail \in {"completed", "failed", "started"} :
        Line("participant", plugin, detail) \in Governance
  BY DEF Line, Lines, Governance, Terminals
<1>3. Line("observer.failed", plugin, "native-hook") \in Governance
  BY DEF Line, Lines, Governance, Terminals
<1> HIDE DEF first
<1>4. CASE event = "domain-completed" \/ event = "aspect-completed"
  <2>1. Observation(event, plugin) = <<first>> \o <<Line("participant", plugin, "completed")>>
    BY <1>4 DEF Observation, first
  <2> QED
    BY <1>1, <1>2, <2>1
<1>5. CASE event = "execution-rejected"
  <2>1. Observation(event, plugin) = <<first>> \o <<Line("participant", plugin, "failed")>>
    BY <1>5 DEF Observation, first
  <2> QED
    BY <1>1, <1>2, <2>1
<1>6. CASE event = "aspect-started"
  <2>1. Observation(event, plugin) = <<first>> \o <<Line("participant", plugin, "started")>>
    BY <1>6 DEF Observation, first
  <2> QED
    BY <1>1, <1>2, <2>1
<1>7. CASE event = "aspect-error"
  <2>1. Observation(event, plugin) = <<first>> \o <<Line("observer.failed", plugin, "native-hook")>>
    BY <1>7 DEF Observation, first
  <2> QED
    BY <1>1, <1>3, <2>1
<1>8. CASE event \in {"initialization-rejected", "started", "shutdown", "extension-error"}
  <2>1. Observation(event, plugin) = <<first>> \o <<>>
    BY <1>8 DEF Observation, first
  <2> QED
    BY <1>1, <2>1
<1> QED
  BY <1>4, <1>5, <1>6, <1>7, <1>8

LEMMA StartLinkKeeps ==
  ASSUME Inv, StartLink
  PROVE  Inv'
<1> DEFINE report == observations[1]
           lines == Observation(report.event, report.plugin)
           op == [lines |-> lines, waiters |-> {"link"}, due |-> ~flushed, doomed |-> FALSE]
<1>1. observations # <<>> /\ ~linking /\ linking' = TRUE
  BY DEF StartLink
<1>2. UNCHANGED <<pc, answer, sdkSession, fault, caught, aspect, batch, class, closeFailure,
                  rejected, reading, lost, observations, reports, extensionError, log, status,
                  flushed, threw>>
  BY DEF StartLink, driverVars, recordVars
<1>3. Head(observations) = report /\ report \in Links
  BY <1>1 DEF Inv, TypeOK
<1>4. lines \in Seq(Governance) \ {<<>>}
  <2>1. /\ report.event \in {"started", "shutdown", "aspect-error", "extension-error"}
        /\ report.plugin \in Plugins
    BY <1>3 DEF Links
  <2> HIDE DEF report
  <2> QED
    BY <2>1, ObservationLines
<1>5. queue' = Append(queue, op)
  BY <1>3 DEF StartLink, Enqueue
<1>6. lines \in Seq(Lines)
  BY <1>4 DEF Governance
<1> HIDE DEF lines
<1>7. op \in Operations
  BY <1>6 DEF Operations, Inv, TypeOK
<1>8. op.lines = lines /\ op.waiters = {"link"} /\ op.due = ~flushed
  OBVIOUS
<1> HIDE DEF op
<1>9. /\ queue' \in Seq(Operations)
      /\ DOMAIN queue' = 1 .. Len(queue) + 1
      /\ queue'[Len(queue) + 1] = op
      /\ \A i \in DOMAIN queue : queue'[i] = queue[i]
      /\ DOMAIN queue = 1 .. Len(queue) /\ Len(queue) \in Nat
  BY <1>5, <1>7, AppendFacts DEF Inv, TypeOK
<1>10. \A i \in DOMAIN queue' : i \in DOMAIN queue \/ i = Len(queue) + 1
  BY <1>9
<1>11. \A i \in DOMAIN queue : "link" \notin queue[i].waiters
  BY <1>1 DEF Inv, QueueOK
<1>12. sdkSession
  BY <1>1 DEF Inv, PhaseOK
<1>13. pc \in {"finalize"} \cup Settled => flushed
  BY <1>12 DEF Inv, PhaseOK
<1>14. QueueOK'
  <2> SUFFICES ASSUME NEW i \in DOMAIN queue'
               PROVE  /\ queue'[i].lines \in Seq(Governance) /\ queue'[i].lines # <<>>
                      /\ ~flushed => queue'[i].due
                      /\ "link" \in queue'[i].waiters => linking'
                      /\ "driver" \in queue'[i].waiters =>
                            queue'[i].due /\ answer = "none" /\ pc \in QueueWaits
    BY <1>2 DEF QueueOK
  <2>1. CASE i \in DOMAIN queue
    BY <1>1, <1>9, <2>1 DEF Inv, QueueOK
  <2>2. CASE i = Len(queue) + 1
    <3>1. ~flushed => op.due
      BY <1>8
    <3> QED
      BY <1>1, <1>4, <1>8, <1>9, <2>2, <3>1
  <2> QED
    BY <1>10, <2>1, <2>2
<1>15. WaitersOK'
  <2> SUFFICES ASSUME NEW i \in DOMAIN queue', NEW j \in DOMAIN queue', i < j
               PROVE  /\ ~("link" \in queue'[i].waiters /\ "link" \in queue'[j].waiters)
                      /\ "driver" \in queue'[i].waiters =>
                            /\ "driver" \notin queue'[j].waiters
                            /\ pc' = "finalize" => ~queue'[j].due
    BY DEF WaitersOK
  <2>1. i \in DOMAIN queue
    BY <1>9
  <2>2. CASE j \in DOMAIN queue
    BY <1>2, <1>9, <2>1, <2>2 DEF Inv, WaitersOK
  <2>3. CASE j = Len(queue) + 1
    BY <1>2, <1>8, <1>9, <1>11, <1>13, <2>1, <2>3
  <2> QED
    BY <1>10, <2>2, <2>3
<1>16. DrainedOK'
  BY <1>2, <1>8, <1>9, <1>10, <1>13 DEF Inv, DrainedOK
<1>17. queue' # <<>>
  BY <1>9
<1>18. TypeOK'
  BY <1>1, <1>2, <1>9 DEF Inv, TypeOK
<1>19. RelayOK'
  BY <1>1, <1>2 DEF Inv, RelayOK
<1>20. PhaseOK'
  BY <1>2, <1>12 DEF Inv, PhaseOK
<1>21. StickyOK'
  BY <1>2, <1>17 DEF Inv, StickyOK
<1>22. CausesOK'
  BY <1>2 DEF Inv, CausesOK
<1>23. RecordOK'
  BY <1>2 DEF Inv, RecordOK, HasTerminal
<1> QED
  BY <1>14, <1>15, <1>16, <1>18, <1>19, <1>20, <1>21, <1>22, <1>23 DEF Inv

LEMMA ReportKeeps ==
  ASSUME Inv, NEW plugin \in Plugins, ExtensionReports(plugin)
  PROVE  Inv'
<1> DEFINE link == [event |-> IF plugin \in AspectSet THEN "aspect-error" ELSE "extension-error",
                    plugin |-> plugin, awaited |-> FALSE]
<1>1. /\ sdkSession /\ reports < MaxReports /\ reports' = reports + 1
      /\ extensionError' =
            IF extensionError # "none" \/ plugin \in AspectSet THEN extensionError
            ELSE IF pc \in AfterShutdownCheck THEN "late" ELSE "early"
      /\ observations' = Append(observations, link)
      /\ threw' = (threw \/ plugin \notin AspectSet)
      /\ UNCHANGED <<pc, answer, sdkSession, fault, caught, aspect, batch, class, closeFailure,
                     queue, rejected, reading, lost, linking, log, status, flushed>>
  BY DEF ExtensionReports, Observe, IsFatal, driverVars, writerVars, recordVars
<1>2. link \in Links /\ link.awaited = FALSE
  BY DEF Links
<1> HIDE DEF link
<1>3. /\ observations' \in Seq(Links)
      /\ DOMAIN observations' = 1 .. Len(observations) + 1
      /\ observations'[Len(observations) + 1] = link
      /\ \A i \in DOMAIN observations : observations'[i] = observations[i]
      /\ DOMAIN observations = 1 .. Len(observations) /\ Len(observations) \in Nat
  BY <1>1, <1>2, AppendFacts DEF Inv, TypeOK
<1>4. \A i \in DOMAIN observations' :
        i \in DOMAIN observations \/ i = Len(observations) + 1
  BY <1>3
<1>5. observations' # <<>>
  BY <1>3
<1>6. threw' \in BOOLEAN /\ (threw => threw')
  BY <1>1 DEF Inv, TypeOK
<1>7. TypeOK'
  <2>1. extensionError' \in {"none", "early", "late"}
    BY <1>1 DEF Inv, TypeOK
  <2>2. reports' \in 0 .. MaxReports
    BY <1>1, BoundsAssumption DEF Inv, TypeOK
  <2> QED
    BY <1>1, <1>3, <1>6, <2>1, <2>2 DEF Inv, TypeOK
<1>8. QueueOK' /\ WaitersOK'
  BY <1>1 DEF Inv, QueueOK, WaitersOK
<1>9. RelayOK'
  BY <1>1, <1>2, <1>3, <1>4, <1>5 DEF Inv, RelayOK
<1>10. PhaseOK'
  BY <1>1 DEF Inv, PhaseOK
<1>11. StickyOK' /\ DrainedOK'
  BY <1>1 DEF Inv, StickyOK, DrainedOK
<1>12. CausesOK'
  <2>1. extensionError' # "none" => threw'
    BY <1>1, <1>6 DEF Inv, CausesOK
  <2>2. pc \in AfterShutdownCheck /\ extensionError' = "early" => extensionError = "early"
    BY <1>1 DEF Inv, TypeOK
  <2>3. pc \in {"flush", "finalize"} \cup Settled => pc \in AfterShutdownCheck
    BY DEF Settled, AfterShutdownCheck
  <2> QED
    BY <1>1, <1>6, <2>1, <2>2, <2>3 DEF Inv, CausesOK
<1>13. RecordOK'
  BY <1>1 DEF Inv, RecordOK, HasTerminal
<1> QED
  BY <1>7, <1>8, <1>9, <1>10, <1>11, <1>12, <1>13 DEF Inv

-----------------------------------------------------------------------------
(* The driver while a native session is open and its writes are not flushed. *)
Middle == DriverSteps \ (BeforeOpening \cup {"flush", "finalize"} \cup Settled)

MiddleMove ==
    /\ pc \in Middle /\ pc' \in Middle /\ sdkSession
    /\ UNCHANGED <<sdkSession, closeFailure, rejected, reading, lost, linking, reports,
                   extensionError, status, flushed>>
    /\ QueueMove /\ RelayMove /\ LogMove
    /\ pc' \in QueueWaits => Enqueues \/ AwaitWrites(pc')
    /\ answer' \in {"none", "ok", "rejected"}
    /\ fault' \in {"none", "native", "storage"}
    /\ fault' # "none" => threw' \/ lost
    /\ pc' = "catch" \/ caught' => fault' # "none"
    /\ threw' \in BOOLEAN
    /\ threw => threw'
    /\ caught' \in BOOLEAN
    /\ batch' \in 0 .. MaxBatch
    /\ class' \in {"aspect-execution", "publication-validation"}
    /\ aspect' \in 0 .. Len(Aspects) + 1
    /\ pc' \in PublisherSteps => aspect' <= Len(Aspects)

LEMMA MiddleKeeps ==
  ASSUME Inv, answer # "none" \/ pc \notin QueueWaits \cup RelayWaits, MiddleMove
  PROVE  Inv'
<1>1. /\ pc \in Middle /\ pc' \in Middle /\ sdkSession
      /\ UNCHANGED <<sdkSession, closeFailure, rejected, reading, lost, linking, reports,
                     extensionError, status, flushed>>
  BY DEF MiddleMove
<1>2. NobodyWaits
  BY DriverIsFree DEF Inv
<1>3. ~flushed /\ ~flushed' /\ flushed' \in BOOLEAN /\ flushed \in BOOLEAN
  BY <1>1 DEF Inv, PhaseOK, Middle, TypeOK
<1>4. QueueMove /\ RelayMove
  BY DEF MiddleMove
<1>5. queue' \in Seq(Operations) /\ QueueOK' /\ WaitersOK'
  <2>1. queue \in Seq(Operations) /\ QueueOK /\ WaitersOK /\ linking' = linking
    BY <1>1 DEF Inv, TypeOK
  <2> QED
    BY <1>1, <1>2, <1>3, <1>4, <2>1, DriverQueue
<1>6. observations' \in Seq(Links) /\ RelayOK'
  BY <1>1, <1>2, <1>4, DriverRelay DEF Inv, TypeOK
<1>7. log' \in Seq(Lines) /\ (HasTerminal' => HasTerminal)
  BY LogGrows DEF MiddleMove, Inv, TypeOK
<1>8. TypeOK'
  <2>1. pc' \in DriverSteps
    BY <1>1 DEF Middle
  <2> QED
    BY <1>1, <1>3, <1>5, <1>6, <1>7, <2>1 DEF MiddleMove, Inv, TypeOK
<1>9. PhaseOK'
  BY <1>1, <1>3 DEF PhaseOK, MiddleMove, Middle
<1>10. StickyOK'
  <2>1. pc' \in QueueWaits /\ answer' = "rejected" => lost'
    <3>1. ASSUME pc' \in QueueWaits, answer' = "rejected"
          PROVE  lost'
      <4>1. ~Enqueues
        BY <3>1 DEF Enqueues
      <4>2. AwaitWrites(pc')
        BY <3>1, <4>1 DEF MiddleMove
      <4>3. rejected
        BY <3>1, <4>2 DEF AwaitWrites
      <4> QED
        BY <1>1, <1>3, <4>3 DEF Inv, StickyOK
    <3> QED
      BY <3>1
  <2>2. reading => queue' # <<>>
    <3>1. CASE queue' = queue
      BY <3>1 DEF Inv, StickyOK
    <3>2. CASE Enqueues
      <4>1. \E op \in Operations : queue' = Append(queue, op)
        <5>1. PICK lines \in Seq(Governance) \ {<<>>} : Enqueue(lines, "driver")
          BY <3>2 DEF Enqueues
        <5>2. lines \in Seq(Lines)
          BY DEF Governance
        <5> QED
          BY <1>3, <5>1, <5>2 DEF Enqueue, Operations
      <4> QED
        BY <4>1, AppendFacts DEF Inv, TypeOK
    <3>3. CASE AwaitWrites(pc')
      BY <3>3, LastOf DEF AwaitWrites, Inv, TypeOK, StickyOK
    <3> QED
      BY <1>4, <3>1, <3>2, <3>3 DEF QueueMove
  <2>3. pc' # "finalize"
    BY <1>1 DEF Middle
  <2> QED
    BY <1>1, <2>1, <2>2, <2>3 DEF Inv, StickyOK
<1>11. DrainedOK'
  BY <1>1 DEF DrainedOK, Middle
<1>12. CausesOK'
  <2>1. pc' \notin {"init-rejected", "flush", "finalize"} \cup Settled
    BY <1>1 DEF Middle, BeforeOpening
  <2>2. /\ fault' # "none" => threw' \/ lost
        /\ pc' = "catch" \/ caught' => fault' # "none"
        /\ threw => threw'
    BY DEF MiddleMove
  <2> QED
    BY <1>1, <2>1, <2>2 DEF Inv, CausesOK
<1>13. RecordOK'
  <2>1. pc \notin {"settling", "ended"}
    BY <1>1 DEF Middle, Settled
  <2> QED
    BY <1>1, <1>7, <2>1 DEF Inv, RecordOK
<1> QED
  BY <1>5, <1>6, <1>8, <1>9, <1>10, <1>11, <1>12, <1>13 DEF Inv

LEMMA Awaits ==
  ASSUME NEW lines \in Seq(Governance) \ {<<>>}, NEW step \in QueueWaits \ {"finalize"},
         AwaitEnqueued(lines, step)
  PROVE  Enqueues /\ QueueMove /\ pc' = step /\ answer' = "none"
<1>1. Enqueue(lines, "driver") /\ answer' = "none" /\ pc' = step
  BY DEF AwaitEnqueued, Goto
<1> QED
  BY <1>1 DEF Enqueues, QueueMove

LEMMA AwaitsWrites ==
  ASSUME NEW step \in QueueWaits, AwaitWrites(step)
  PROVE  /\ QueueMove /\ pc' = step /\ AwaitWrites(pc')
         /\ answer' \in {"none", "ok", "rejected"}
<1>1. pc' = step
  BY DEF AwaitWrites, Goto
<1> QED
  BY <1>1 DEF QueueMove, AwaitWrites

LEMMA AwaitsObservations ==
  ASSUME NEW step \in RelayWaits, AwaitObservations(step)
  PROVE  /\ RelayMove /\ pc' = step /\ answer' \in {"none", "ok", "rejected"}
<1>1. pc' = step
  BY DEF AwaitObservations, Goto
<1> QED
  BY <1>1 DEF RelayMove, AwaitObservations

LEMMA Open ==
  ASSUME Inv, pc \in Middle \ {"catch"}
  PROVE  sdkSession /\ ~flushed
  BY DEF Inv, PhaseOK, Middle

LEMMA IndexIsInRange ==
  ASSUME Inv, pc \in PublisherSteps
  PROVE  aspect <= Len(Aspects)
  BY DEF Inv, PhaseOK

LEMMA PublisherIsAPlugin ==
  ASSUME TypeOK, aspect <= Len(Aspects)
  PROVE  Publisher \in Plugins
<1>1. aspect = 0 \/ aspect \in DOMAIN Aspects
  BY AspectsAssumption DEF TypeOK
<1> QED
  BY <1>1 DEF Publisher, Plugins, AspectSet

LEMMA ThreeAnswers ==
  ASSUME Inv, answer # "none", answer # "ok", pc \in QueueWaits
  PROVE  lost
  BY DEF Inv, TypeOK, StickyOK

-----------------------------------------------------------------------------
(* The steps of the driver, one by one.                                      *)
LEMMA BindKeeps ==
  ASSUME Inv, Bind
  PROVE  Inv'
<1>1. pc = "bind" /\ sdkSession
  BY Open DEF Bind, Middle, DriverSteps, BeforeOpening, Settled
<1>2. /\ UNCHANGED <<sdkSession, closeFailure, queue, rejected, reading, lost, linking, reports,
                     extensionError, log, status, flushed, caught, aspect, batch, class>>
      /\ \/ RelayMove /\ pc' = "bound" /\ fault' = fault /\ threw' = threw
            /\ answer' \in {"none", "ok", "rejected"}
         \/ RelayMove /\ pc' = "catch" /\ fault' = "native" /\ threw' = TRUE /\ answer' = answer
  <2>1. UNCHANGED <<sdkSession, closeFailure, queue, rejected, reading, lost, linking, reports,
                    extensionError, log, status, flushed, caught, aspect, batch, class>>
    BY DEF Bind, Rest, DriverAndRelay, writerVars, recordVars
  <2>2. CASE AwaitObservations("bound") /\ UNCHANGED <<fault, threw>>
    BY <2>1, <2>2, AwaitsObservations DEF RelayWaits
  <2>3. CASE NativeThrow /\ UNCHANGED <<answer, observations>>
    BY <2>1, <2>3 DEF NativeThrow, Throw, Goto, RelayMove
  <2> QED
    BY <2>1, <2>2, <2>3 DEF Bind
<1>3. MiddleMove
  <2>1. aspect' <= Len(Aspects)
    BY <1>1, <1>2, IndexIsInRange DEF PublisherSteps
  <2> QED
    BY <1>1, <1>2, <2>1 DEF MiddleMove, Middle, DriverSteps, BeforeOpening, Settled, QueueWaits,
       QueueMove, LogMove, Inv, TypeOK, CausesOK
<1> QED
  BY <1>1, <1>3, MiddleKeeps DEF QueueWaits, RelayWaits

LEMMA BoundKeeps ==
  ASSUME Inv, Bound
  PROVE  Inv'
<1>1. pc = "bound" /\ answer # "none" /\ sdkSession
  BY Open DEF Bound, Answered, Middle, DriverSteps, BeforeOpening, Settled
<1>2. UNCHANGED <<sdkSession, closeFailure, queue, rejected, reading, lost, linking, reports,
                  extensionError, log, status, flushed, caught, aspect, batch, class, threw>>
  BY DEF Bound, Rest, DriverAndRelay, writerVars, recordVars
<1>3. /\ RelayMove
      /\ \/ pc' = "catch" /\ fault' = "native" /\ answer' = answer /\ extensionError # "none"
         \/ pc' = "started" /\ fault' = fault /\ answer' = "none"
  <2>1. CASE extensionError # "none"
    BY <2>1 DEF Bound, Throw, Goto, RelayMove
  <2>2. CASE extensionError = "none"
    <3>1. Observe("started", Primary, TRUE) /\ answer' = "none" /\ pc' = "started" /\ fault' = fault
      BY <2>2 DEF Bound, Goto
    <3> QED
      BY <3>1 DEF RelayMove, Observes, RelayWaits
  <2> QED
    BY <2>1, <2>2
<1>4. MiddleMove
  <2>1. aspect' <= Len(Aspects)
    BY <1>1, <1>2, IndexIsInRange DEF PublisherSteps
  <2> QED
    BY <1>1, <1>2, <1>3, <2>1 DEF MiddleMove, Middle, DriverSteps, BeforeOpening, Settled, QueueWaits,
       QueueMove, LogMove, Inv, TypeOK, CausesOK
<1> QED
  BY <1>1, <1>4, MiddleKeeps

LEMMA ConsumeKeeps ==
  ASSUME Inv, Started \/ Consume
  PROVE  Inv'
<1>1. /\ pc \in {"started", "consume"} /\ sdkSession
      /\ pc = "started" => answer # "none"
  BY Open DEF Started, Consume, Answered, Middle, DriverSteps, BeforeOpening, Settled
<1>2. /\ UNCHANGED <<answer, sdkSession, closeFailure, queue, rejected, reading, lost, linking,
                     reports, extensionError, observations, status, flushed, caught, aspect,
                     batch, class>>
      /\ \/ pc' \in {"consume", "domain"} /\ fault' = fault /\ threw' = threw
         \/ pc' = "catch" /\ fault' = "storage" /\ threw' = TRUE
      /\ LogMove
  <2>1. CASE Started
    BY <2>1 DEF Started, Goto, Rest, OnlyDriver, writerVars, relayVars, recordVars, LogMove
  <2>2. CASE Consume
    <3> DEFINE line == Line("runtime.loom.domain-started", Primary, "started")
    <3>1. line \in Governance
      BY DEF Line, Lines, Plugins, Governance, Terminals
    <3> HIDE DEF line
    <3>2. log' = log \/ log' = Append(log, line)
      BY <2>2 DEF Consume, line
    <3>3. LogMove
      BY <3>1, <3>2 DEF LogMove
    <3> QED
      BY <2>2, <3>3 DEF Consume, Goto, Throw, Rest, writerVars, relayVars
  <2> QED
    BY <2>1, <2>2
<1>3. pc \in Middle /\ pc' \in Middle /\ pc' \notin QueueWaits
  BY <1>1, <1>2 DEF Middle, DriverSteps, BeforeOpening, Settled, QueueWaits
<1>4. /\ fault' # "none" => threw' \/ lost
      /\ pc' = "catch" \/ caught' => fault' # "none"
      /\ threw' \in BOOLEAN /\ (threw => threw')
  <2>1. /\ fault # "none" => threw \/ lost
        /\ caught => fault # "none"
        /\ threw \in BOOLEAN
    BY DEF Inv, TypeOK, CausesOK
  <2>2. CASE pc' \in {"consume", "domain"} /\ fault' = fault /\ threw' = threw
    BY <1>2, <2>1, <2>2
  <2>3. CASE pc' = "catch" /\ fault' = "storage" /\ threw' = TRUE
    BY <2>3
  <2> QED
    BY <1>2, <2>2, <2>3
<1>5. aspect' <= Len(Aspects)
  BY <1>1, <1>2, IndexIsInRange DEF PublisherSteps
<1>6. MiddleMove
  BY <1>1, <1>2, <1>3, <1>4, <1>5 DEF MiddleMove, QueueMove, RelayMove, Inv, TypeOK
<1> QED
  BY <1>1, <1>6, MiddleKeeps DEF QueueWaits, RelayWaits

(* What a step of the domain or of an aspect leaves alone.                   *)
RunFrame == UNCHANGED <<sdkSession, closeFailure, rejected, reading, lost, linking, reports,
                        extensionError, observations, log, status, flushed, caught>>

RunSteps == Middle \ (RelayWaits \cup {"bind", "consume", "close", "catch"})

(* Their steps are moves of the middle by what they do to the rest.          *)
LEMMA RunKeeps ==
  ASSUME Inv, RunFrame, QueueMove,
         pc \in RunSteps, answer # "none" \/ pc \notin QueueWaits,
         pc' \in RunSteps \cup {"catch", "close"},
         pc' \in QueueWaits => Enqueues \/ AwaitWrites(pc'),
         answer' \in {"none", "ok", "rejected"},
         fault' = fault \/ (fault' \in {"native", "storage"} /\ (threw' \/ lost)),
         pc' = "catch" => fault' # "none",
         threw' \in BOOLEAN, threw => threw',
         batch' \in 0 .. MaxBatch,
         class' \in {"aspect-execution", "publication-validation"},
         aspect' \in 0 .. Len(Aspects) + 1,
         pc' \in PublisherSteps => aspect' <= Len(Aspects)
  PROVE  Inv'
<1>1. sdkSession /\ pc \in Middle /\ pc \notin RelayWaits /\ pc' \in Middle
  BY Open DEF RunSteps, Middle, DriverSteps, BeforeOpening, Settled
<1>2. /\ fault' \in {"none", "native", "storage"}
      /\ fault' # "none" => threw' \/ lost
      /\ pc' = "catch" \/ caught' => fault' # "none"
  BY DEF RunFrame, Inv, TypeOK, CausesOK
<1>3. RelayMove /\ LogMove /\ caught' \in BOOLEAN
  BY DEF RunFrame, RelayMove, LogMove, Inv, TypeOK
<1>4. MiddleMove
  BY <1>1, <1>2, <1>3 DEF MiddleMove, RunFrame
<1> QED
  BY <1>1, <1>4, MiddleKeeps

LEMMA DomainFailsMoves ==
  ASSUME NEW error \in {"native", "storage"}, DomainFails(error)
  PROVE  Enqueues /\ QueueMove /\ pc' = "rejected" /\ answer' = "none" /\ fault' = error
<1>1. Observation("execution-rejected", Primary) \in Seq(Governance) \ {<<>>}
  BY ObservationLines DEF Plugins
<1>2. AwaitEnqueued(Observation("execution-rejected", Primary), "rejected") /\ fault' = error
  BY DEF DomainFails
<1>3. "rejected" \in QueueWaits \ {"finalize"}
  BY DEF QueueWaits
<1> QED
  BY <1>1, <1>2, <1>3, Awaits

LEMMA PublishThrowsMoves ==
  ASSUME NEW error \in {"native", "storage"}, PublishThrows(error), Inv
  PROVE  /\ QueueMove /\ (Enqueues \/ AwaitWrites(pc'))
         /\ answer' \in {"none", "ok", "rejected"}
         /\ class' \in {"aspect-execution", "publication-validation"}
         /\ \/ aspect = 0 /\ pc' = "rejected" /\ fault' = error
            \/ aspect # 0 /\ pc' = "aspect-threw" /\ fault' = fault
<1>1. CASE aspect = 0
  <2>1. DomainFails(error) /\ class' = class
    BY <1>1 DEF PublishThrows
  <2> QED
    BY <1>1, <2>1, DomainFailsMoves DEF Inv, TypeOK
<1>2. CASE aspect # 0
  <2>1. AwaitWrites("aspect-threw") /\ class' = "publication-validation" /\ fault' = fault
    BY <1>2 DEF PublishThrows, AspectThrows
  <2>2. "aspect-threw" \in QueueWaits
    BY DEF QueueWaits
  <2> QED
    BY <1>2, <2>1, <2>2, AwaitsWrites
<1> QED
  BY <1>1, <1>2

LEMMA RunDomainKeeps ==
  ASSUME Inv, RunDomain
  PROVE  Inv'
<1>1. pc = "domain" /\ pc \in RunSteps /\ pc \notin QueueWaits
  BY DEF RunDomain, RunSteps, Middle, DriverSteps, BeforeOpening, Settled, RelayWaits, QueueWaits
<1>2. RunFrame /\ UNCHANGED <<aspect, class>>
  BY DEF RunDomain, DriverAndQueue, relayVars, recordVars, RunFrame
<1>3. aspect \in 0 .. Len(Aspects) + 1 /\ threw \in BOOLEAN /\ batch \in 0 .. MaxBatch
      /\ class \in {"aspect-execution", "publication-validation"}
      /\ answer \in {"none", "ok", "rejected"}
  BY DEF Inv, TypeOK
<1>4. CASE /\ batch' \in 0 .. MaxBatch
           /\ Goto("publish")
           /\ UNCHANGED <<answer, fault, queue, threw>>
  <2>1. aspect' <= Len(Aspects)
    BY <1>1, <1>2, IndexIsInRange DEF PublisherSteps
  <2>2. pc' = "publish" /\ pc' \in RunSteps /\ pc' \notin QueueWaits /\ pc' # "catch"
    BY <1>4 DEF Goto, RunSteps, Middle, DriverSteps, BeforeOpening, Settled, RelayWaits, QueueWaits
  <2>3. QueueMove
    BY <1>4 DEF QueueMove
  <2> QED
    BY <1>1, <1>2, <1>3, <1>4, <2>1, <2>2, <2>3, RunKeeps
<1>5. CASE DomainFails("native") /\ batch' = batch /\ threw' = TRUE
  <2>1. Enqueues /\ QueueMove /\ pc' = "rejected" /\ answer' = "none" /\ fault' = "native"
    BY <1>5, DomainFailsMoves
  <2>2. pc' \in RunSteps /\ pc' \notin PublisherSteps /\ pc' # "catch"
    BY <2>1 DEF RunSteps, Middle, DriverSteps, BeforeOpening, Settled, RelayWaits, PublisherSteps
  <2> QED
    BY <1>1, <1>2, <1>3, <1>5, <2>1, <2>2, RunKeeps
<1> QED
  BY <1>4, <1>5 DEF RunDomain

LEMMA Typed ==
  ASSUME Inv
  PROVE  /\ answer \in {"none", "ok", "rejected"}
         /\ fault \in {"none", "native", "storage"}
         /\ aspect \in 0 .. Len(Aspects) + 1 /\ Len(Aspects) \in Nat
         /\ batch \in 0 .. MaxBatch
         /\ class \in {"aspect-execution", "publication-validation"}
         /\ threw \in BOOLEAN
  BY AspectsAssumption DEF Inv, TypeOK

LEMMA ValidatedKeeps ==
  ASSUME Inv, Validated
  PROVE  Inv'
<1>1. /\ pc = "publish" /\ pc' = "register" /\ pc \in RunSteps /\ pc' \in RunSteps
      /\ pc \notin QueueWaits /\ pc' \notin QueueWaits
  BY DEF Validated, Goto, RunSteps, Middle, DriverSteps, BeforeOpening, Settled, RelayWaits,
         QueueWaits
<1>2. RunFrame /\ QueueMove /\ UNCHANGED <<answer, fault, threw, aspect, batch, class>>
  BY DEF Validated, Rest, OnlyDriver, writerVars, relayVars, recordVars, RunFrame, QueueMove
<1>3. aspect' <= Len(Aspects)
  BY <1>1, <1>2, IndexIsInRange DEF PublisherSteps
<1> QED
  BY <1>1, <1>2, <1>3, Typed, RunKeeps

LEMMA RefusedKeeps ==
  ASSUME Inv, Refused
  PROVE  Inv'
<1>1. pc = "publish" /\ pc \in RunSteps /\ pc \notin QueueWaits
  BY DEF Refused, Validating, RunSteps, Middle, DriverSteps, BeforeOpening, Settled, RelayWaits,
         QueueWaits
<1>2. PICK error \in {"native", "storage"} : PublishThrows(error)
  BY DEF Refused
<1>3. RunFrame /\ UNCHANGED <<aspect, batch>>
  BY DEF Refused, DriverAndQueue, relayVars, recordVars, RunFrame
<1>4. threw' \in BOOLEAN /\ (threw => threw') /\ (aspect = 0 => threw')
  BY Typed DEF Refused
<1>5. aspect' <= Len(Aspects)
  BY <1>1, <1>3, IndexIsInRange DEF PublisherSteps
<1>6. /\ QueueMove /\ (Enqueues \/ AwaitWrites(pc'))
      /\ answer' \in {"none", "ok", "rejected"}
      /\ class' \in {"aspect-execution", "publication-validation"}
      /\ \/ aspect = 0 /\ pc' = "rejected" /\ fault' = error
         \/ aspect # 0 /\ pc' = "aspect-threw" /\ fault' = fault
  BY <1>2, PublishThrowsMoves
<1>7. pc' \in RunSteps /\ pc' # "catch"
  BY <1>6 DEF RunSteps, Middle, DriverSteps, BeforeOpening, Settled, RelayWaits
<1>8. fault' = fault \/ (fault' \in {"native", "storage"} /\ threw')
  BY <1>4, <1>6
<1> QED
  BY <1>1, <1>3, <1>4, <1>5, <1>6, <1>7, <1>8, Typed, RunKeeps

LEMMA RegisterKeeps ==
  ASSUME Inv, Register
  PROVE  Inv'
<1>1. pc = "register" /\ pc \in RunSteps /\ pc \notin QueueWaits
  BY DEF Register, RunSteps, Middle, DriverSteps, BeforeOpening, Settled, RelayWaits, QueueWaits
<1>2. RunFrame /\ UNCHANGED <<fault, class, threw, aspect>>
  BY DEF Register, DriverAndQueue, relayVars, recordVars, RunFrame
<1>3. aspect' <= Len(Aspects) /\ Publisher \in Plugins
  BY <1>1, <1>2, IndexIsInRange, PublisherIsAPlugin DEF PublisherSteps, Inv
<1>4. /\ Enqueues /\ QueueMove /\ answer' = "none" /\ batch' \in 0 .. MaxBatch
      /\ pc' \in {"registering", "domain-completed", "aspect-completed"}
  <2>1. CASE batch > 0
    <3>1. AwaitEnqueued(Registration(Publisher), "registering") /\ batch' = batch - 1
      BY <2>1 DEF Register, MoreToRegister
    <3>2. Line("artifact", Publisher, "published") \in Governance
      BY <1>3 DEF Line, Lines, Governance, Terminals
    <3>3. Registration(Publisher) \in Seq(Governance) \ {<<>>}
      BY <3>2 DEF Registration
    <3>4. "registering" \in QueueWaits \ {"finalize"}
      BY DEF QueueWaits
    <3>5. Enqueues /\ QueueMove /\ pc' = "registering" /\ answer' = "none"
      BY <3>1, <3>3, <3>4, Awaits
    <3>6. batch' \in 0 .. MaxBatch
      BY <2>1, <3>1, Typed, BoundsAssumption
    <3> QED
      BY <3>5, <3>6
  <2>2. CASE ~(batch > 0) /\ aspect = 0
    <3>1. /\ AwaitEnqueued(Observation("domain-completed", Primary), "domain-completed")
          /\ batch' = batch
      BY <2>2 DEF Register, MoreToRegister
    <3>2. Observation("domain-completed", Primary) \in Seq(Governance) \ {<<>>}
      BY ObservationLines DEF Plugins
    <3>3. "domain-completed" \in QueueWaits \ {"finalize"}
      BY DEF QueueWaits
    <3> QED
      BY <3>1, <3>2, <3>3, Awaits, Typed
  <2>3. CASE ~(batch > 0) /\ aspect # 0
    <3>1. /\ AwaitEnqueued(Observation("aspect-completed", Publisher), "aspect-completed")
          /\ batch' = batch
      BY <2>3 DEF Register, MoreToRegister
    <3>2. Observation("aspect-completed", Publisher) \in Seq(Governance) \ {<<>>}
      BY <1>3, ObservationLines
    <3>3. "aspect-completed" \in QueueWaits \ {"finalize"}
      BY DEF QueueWaits
    <3> QED
      BY <3>1, <3>2, <3>3, Awaits, Typed
  <2> QED
    BY <2>1, <2>2, <2>3
<1>5. pc' \in RunSteps /\ pc' # "catch"
  BY <1>4 DEF RunSteps, Middle, DriverSteps, BeforeOpening, Settled, RelayWaits
<1> QED
  BY <1>1, <1>2, <1>3, <1>4, <1>5, Typed, RunKeeps

LEMMA RegisteredKeeps ==
  ASSUME Inv, Registered
  PROVE  Inv'
<1>1. pc = "registering" /\ answer # "none" /\ pc \in RunSteps /\ pc \in QueueWaits
  BY DEF Registered, Answered, RunSteps, Middle, DriverSteps, BeforeOpening, Settled, RelayWaits,
         QueueWaits
<1>2. RunFrame /\ UNCHANGED <<threw, aspect, batch>>
  BY DEF Registered, DriverAndQueue, relayVars, recordVars, RunFrame
<1>3. aspect' <= Len(Aspects)
  BY <1>1, <1>2, IndexIsInRange DEF PublisherSteps
<1>4. CASE answer = "ok"
  <2>1. pc' = "register" /\ UNCHANGED <<answer, fault, class, queue>>
    BY <1>4 DEF Registered, Goto
  <2>2. pc' \in RunSteps /\ pc' \notin QueueWaits /\ pc' # "catch" /\ QueueMove
    BY <2>1 DEF RunSteps, Middle, DriverSteps, BeforeOpening, Settled, RelayWaits, QueueWaits,
                QueueMove
  <2> QED
    BY <1>1, <1>2, <1>3, <2>1, <2>2, Typed, RunKeeps
<1>5. CASE answer # "ok"
  <2>1. PublishThrows("storage")
    BY <1>5 DEF Registered
  <2>2. lost
    BY <1>1, <1>5, ThreeAnswers
  <2>3. /\ QueueMove /\ (Enqueues \/ AwaitWrites(pc'))
        /\ answer' \in {"none", "ok", "rejected"}
        /\ class' \in {"aspect-execution", "publication-validation"}
        /\ \/ aspect = 0 /\ pc' = "rejected" /\ fault' = "storage"
           \/ aspect # 0 /\ pc' = "aspect-threw" /\ fault' = fault
    BY <2>1, PublishThrowsMoves
  <2>4. pc' \in RunSteps /\ pc' # "catch"
    BY <2>3 DEF RunSteps, Middle, DriverSteps, BeforeOpening, Settled, RelayWaits
  <2> QED
    BY <1>1, <1>2, <1>3, <2>2, <2>3, <2>4, Typed, RunKeeps
<1> QED
  BY <1>4, <1>5

LEMMA DomainEndsKeeps ==
  ASSUME Inv, DomainCompleted \/ DomainRejected
  PROVE  Inv'
<1>1. /\ pc \in {"domain-completed", "rejected"} /\ answer # "none" /\ pc \in RunSteps
      /\ pc \in QueueWaits
  BY DEF DomainCompleted, DomainRejected, Answered, RunSteps, Middle, DriverSteps,
         BeforeOpening, Settled, RelayWaits, QueueWaits
<1>2. RunFrame /\ UNCHANGED <<threw, batch, class>>
  BY DEF DomainCompleted, DomainRejected, DriverAndQueue, OnlyDriver, writerVars, relayVars,
         recordVars, RunFrame
<1>3. CASE DomainRejected \/ answer = "ok"
  <2>1. pc' = "aspects" /\ aspect' = 1 /\ UNCHANGED <<answer, fault, queue>>
    BY <1>3 DEF DomainCompleted, DomainRejected, OnlyDriver, writerVars, Goto
  <2>2. /\ pc' \in RunSteps /\ pc' \notin QueueWaits \cup PublisherSteps /\ pc' # "catch"
        /\ QueueMove
    BY <2>1 DEF RunSteps, Middle, DriverSteps, BeforeOpening, Settled, RelayWaits, QueueWaits,
                PublisherSteps, QueueMove
  <2>3. aspect' \in 0 .. Len(Aspects) + 1
    BY <2>1, Typed
  <2> QED
    BY <1>1, <1>2, <2>1, <2>2, <2>3, Typed, RunKeeps
<1>4. CASE DomainCompleted /\ answer # "ok"
  <2>1. DomainFails("storage") /\ aspect' = aspect
    BY <1>4 DEF DomainCompleted
  <2>2. lost
    BY <1>1, <1>4, ThreeAnswers
  <2>3. Enqueues /\ QueueMove /\ pc' = "rejected" /\ answer' = "none" /\ fault' = "storage"
    BY <2>1, DomainFailsMoves
  <2>4. pc' \in RunSteps /\ pc' # "catch" /\ pc' \notin PublisherSteps
    BY <2>3 DEF RunSteps, Middle, DriverSteps, BeforeOpening, Settled, RelayWaits, PublisherSteps
  <2> QED
    BY <1>1, <1>2, <2>1, <2>2, <2>3, <2>4, Typed, RunKeeps
<1> QED
  BY <1>3, <1>4

LEMMA StartAspectKeeps ==
  ASSUME Inv, StartAspect
  PROVE  Inv'
<1>1. pc = "aspects" /\ pc \in RunSteps /\ pc \notin QueueWaits
  BY DEF StartAspect, RunSteps, Middle, DriverSteps, BeforeOpening, Settled, RelayWaits,
         QueueWaits
<1>2. RunFrame /\ UNCHANGED <<fault, threw, batch, class>>
  BY DEF StartAspect, DriverAndQueue, relayVars, recordVars, RunFrame
<1>3. aspect <= Len(Aspects) /\ Publisher \in Plugins
  BY Typed, PublisherIsAPlugin, AspectsAssumption DEF StartAspect, Inv
<1>4. CASE Publisher \in Phased
  <2>1. /\ AwaitEnqueued(Observation("aspect-started", Publisher), "aspect-started")
        /\ aspect' = aspect
    BY <1>4 DEF StartAspect
  <2>2. Observation("aspect-started", Publisher) \in Seq(Governance) \ {<<>>}
    BY <1>3, ObservationLines
  <2>3. "aspect-started" \in QueueWaits \ {"finalize"}
    BY DEF QueueWaits
  <2>4. Enqueues /\ QueueMove /\ pc' = "aspect-started" /\ answer' = "none"
    BY <2>1, <2>2, <2>3, Awaits
  <2>5. pc' \in RunSteps /\ pc' # "catch"
    BY <2>4 DEF RunSteps, Middle, DriverSteps, BeforeOpening, Settled, RelayWaits
  <2> QED
    BY <1>1, <1>2, <1>3, <2>1, <2>4, <2>5, Typed, RunKeeps
<1>5. CASE Publisher \notin Phased
  <2>1. aspect' = aspect + 1 /\ UNCHANGED <<pc, answer, queue>>
    BY <1>5 DEF StartAspect
  <2>2. pc' \notin PublisherSteps /\ pc' # "catch" /\ QueueMove
    BY <1>1, <2>1 DEF PublisherSteps, QueueMove
  <2>3. aspect' \in 0 .. Len(Aspects) + 1
    BY <1>3, <2>1, Typed
  <2> QED
    BY <1>1, <1>2, <2>1, <2>2, <2>3, Typed, RunKeeps
<1> QED
  BY <1>4, <1>5

LEMMA AspectStartedKeeps ==
  ASSUME Inv, AspectStarted
  PROVE  Inv'
<1>1. pc = "aspect-started" /\ answer # "none" /\ pc \in RunSteps /\ pc \in QueueWaits
  BY DEF AspectStarted, Answered, RunSteps, Middle, DriverSteps, BeforeOpening, Settled,
         RelayWaits, QueueWaits
<1>2. /\ RunFrame /\ UNCHANGED <<answer, threw, batch, class, aspect>> /\ QueueMove
      /\ \/ pc' = "after-run" /\ fault' = fault
         \/ pc' = "catch" /\ fault' = "storage" /\ answer # "ok"
  BY DEF AspectStarted, Rest, OnlyDriver, writerVars, relayVars, recordVars, RunFrame, QueueMove,
         Goto, Throw
<1>3. aspect' <= Len(Aspects)
  BY <1>1, <1>2, IndexIsInRange DEF PublisherSteps
<1>4. answer # "ok" => lost
  BY <1>1, ThreeAnswers
<1>5. pc' \in RunSteps \cup {"catch"} /\ pc' \notin QueueWaits
  BY <1>2 DEF RunSteps, Middle, DriverSteps, BeforeOpening, Settled, RelayWaits, QueueWaits
<1> QED
  BY <1>1, <1>2, <1>3, <1>4, <1>5, Typed, RunKeeps

LEMMA AfterRunKeeps ==
  ASSUME Inv, AfterRun
  PROVE  Inv'
<1>1. pc = "after-run" /\ pc \in RunSteps /\ pc \notin QueueWaits
  BY DEF AfterRun, RunSteps, Middle, DriverSteps, BeforeOpening, Settled, RelayWaits, QueueWaits
<1>2. RunFrame /\ UNCHANGED <<fault, threw, aspect>>
  BY DEF AfterRun, DriverAndQueue, relayVars, recordVars, RunFrame
<1>3. aspect' <= Len(Aspects)
  BY <1>1, <1>2, IndexIsInRange DEF PublisherSteps
<1>4. CASE /\ batch' \in 0 .. MaxBatch
           /\ Goto("publish")
           /\ UNCHANGED <<answer, queue, class>>
  <2>1. /\ pc' = "publish" /\ pc' \in RunSteps /\ pc' \notin QueueWaits /\ pc' # "catch"
        /\ QueueMove
    BY <1>4 DEF Goto, RunSteps, Middle, DriverSteps, BeforeOpening, Settled, RelayWaits,
                QueueWaits, QueueMove
  <2> QED
    BY <1>1, <1>2, <1>3, <1>4, <2>1, Typed, RunKeeps
<1>5. CASE AspectThrows("aspect-execution") /\ batch' = batch
  <2>1. AwaitWrites("aspect-threw") /\ class' = "aspect-execution" /\ batch' = batch
    BY <1>5 DEF AspectThrows
  <2>2. "aspect-threw" \in QueueWaits
    BY DEF QueueWaits
  <2>3. /\ QueueMove /\ pc' = "aspect-threw" /\ AwaitWrites(pc')
        /\ answer' \in {"none", "ok", "rejected"}
    BY <2>1, <2>2, AwaitsWrites
  <2>4. pc' \in RunSteps /\ pc' # "catch"
    BY <2>3 DEF RunSteps, Middle, DriverSteps, BeforeOpening, Settled, RelayWaits
  <2> QED
    BY <1>1, <1>2, <1>3, <2>1, <2>3, <2>4, Typed, RunKeeps
<1> QED
  BY <1>4, <1>5 DEF AfterRun

LEMMA AspectThrewKeeps ==
  ASSUME Inv, AspectThrew
  PROVE  Inv'
<1>1. pc = "aspect-threw" /\ answer # "none" /\ pc \in RunSteps /\ pc \in QueueWaits
  BY DEF AspectThrew, Answered, RunSteps, Middle, DriverSteps, BeforeOpening, Settled,
         RelayWaits, QueueWaits
<1>2. RunFrame /\ UNCHANGED <<threw, aspect, batch, class>>
  BY DEF AspectThrew, Rest, DriverAndQueue, relayVars, recordVars, RunFrame
<1>3. aspect' <= Len(Aspects) /\ Publisher \in Plugins
  BY <1>1, <1>2, IndexIsInRange, PublisherIsAPlugin DEF PublisherSteps, Inv
<1>4. CASE answer = "ok"
  <2>1. AwaitEnqueued(AspectFailure(Publisher, class), "aspect-failed") /\ fault' = fault
    BY <1>4 DEF AspectThrew
  <2>2. Line("observer.failed", Publisher, class) \in Governance
    BY <1>3, Typed DEF Line, Lines, Governance, Terminals
  <2>3. AspectFailure(Publisher, class) \in Seq(Governance) \ {<<>>}
    BY <2>2 DEF AspectFailure
  <2>4. "aspect-failed" \in QueueWaits \ {"finalize"}
    BY DEF QueueWaits
  <2>5. Enqueues /\ QueueMove /\ pc' = "aspect-failed" /\ answer' = "none"
    BY <2>1, <2>3, <2>4, Awaits
  <2>6. pc' \in RunSteps /\ pc' # "catch"
    BY <2>5 DEF RunSteps, Middle, DriverSteps, BeforeOpening, Settled, RelayWaits
  <2> QED
    BY <1>1, <1>2, <1>3, <2>1, <2>5, <2>6, Typed, RunKeeps
<1>5. CASE answer # "ok"
  <2>1. pc' = "catch" /\ fault' = "storage" /\ answer' = answer /\ QueueMove
    BY <1>5 DEF AspectThrew, Throw, Goto, QueueMove
  <2>2. lost
    BY <1>1, <1>5, ThreeAnswers
  <2>3. pc' \notin QueueWaits
    BY <2>1 DEF QueueWaits
  <2> QED
    BY <1>1, <1>2, <1>3, <2>1, <2>2, <2>3, Typed, RunKeeps
<1> QED
  BY <1>4, <1>5

LEMMA AspectEndsKeeps ==
  ASSUME Inv, AspectEnds
  PROVE  Inv'
<1>1. /\ pc \in {"aspect-failed", "aspect-completed"} /\ answer # "none"
      /\ pc \in RunSteps /\ pc \in QueueWaits /\ pc \in PublisherSteps
  BY DEF AspectEnds, Answered, RunSteps, Middle, DriverSteps, BeforeOpening, Settled,
         RelayWaits, QueueWaits, PublisherSteps
<1>2. /\ RunFrame /\ UNCHANGED <<answer, threw, batch, class>> /\ QueueMove
      /\ \/ pc' = "aspects" /\ fault' = fault /\ aspect' = aspect + 1
         \/ pc' = "catch" /\ fault' = "storage" /\ answer # "ok" /\ aspect' = aspect
  BY DEF AspectEnds, OnlyDriver, writerVars, relayVars, recordVars, RunFrame, QueueMove,
         Goto, Throw
<1>3. aspect' \in 0 .. Len(Aspects) + 1
  BY <1>1, <1>2, IndexIsInRange, Typed
<1>4. answer # "ok" => lost
  BY <1>1, ThreeAnswers
<1>5. pc' \in RunSteps \cup {"catch"} /\ pc' \notin QueueWaits \cup PublisherSteps
  BY <1>2 DEF RunSteps, Middle, DriverSteps, BeforeOpening, Settled, RelayWaits, QueueWaits,
              PublisherSteps
<1> QED
  BY <1>1, <1>2, <1>3, <1>4, <1>5, Typed, RunKeeps

LEMMA AspectsDoneKeeps ==
  ASSUME Inv, AspectsDone
  PROVE  Inv'
<1>1. pc = "aspects" /\ pc \in RunSteps /\ pc \notin QueueWaits
  BY DEF AspectsDone, RunSteps, Middle, DriverSteps, BeforeOpening, Settled, RelayWaits,
         QueueWaits
<1>2. RunFrame /\ UNCHANGED <<fault, threw, aspect, batch, class>> /\ AwaitWrites("drain")
  BY DEF AspectsDone, Rest, DriverAndQueue, relayVars, recordVars, RunFrame
<1>3. "drain" \in QueueWaits
  BY DEF QueueWaits
<1>4. /\ QueueMove /\ pc' = "drain" /\ AwaitWrites(pc')
      /\ answer' \in {"none", "ok", "rejected"}
  BY <1>2, <1>3, AwaitsWrites
<1>5. pc' \in RunSteps /\ pc' # "catch" /\ pc' \notin PublisherSteps
  BY <1>4 DEF RunSteps, Middle, DriverSteps, BeforeOpening, Settled, RelayWaits, PublisherSteps
<1> QED
  BY <1>1, <1>2, <1>4, <1>5, Typed, RunKeeps

LEMMA DrainedKeeps ==
  ASSUME Inv, Drained
  PROVE  Inv'
<1>1. pc = "drain" /\ answer # "none" /\ pc \in RunSteps /\ pc \in QueueWaits
  BY DEF Drained, Answered, RunSteps, Middle, DriverSteps, BeforeOpening, Settled, RelayWaits,
         QueueWaits
<1>2. RunFrame /\ UNCHANGED <<answer, threw, aspect, batch, class>> /\ QueueMove
  BY DEF Drained, Rest, OnlyDriver, writerVars, relayVars, recordVars, RunFrame, QueueMove
<1>3. \/ pc' = "catch" /\ fault' = "storage" /\ answer = "rejected"
      \/ pc' = "catch" /\ fault' = fault /\ fault # "none"
      \/ pc' = "catch" /\ fault' = "native" /\ extensionError # "none"
      \/ pc' = "close" /\ fault' = fault
  BY DEF Drained, Goto, Throw
<1>4. answer = "rejected" => lost
  BY <1>1, ThreeAnswers
<1>5. extensionError # "none" => threw'
  BY <1>2 DEF Inv, CausesOK
<1>6. /\ pc' \in RunSteps \cup {"catch", "close"}
      /\ pc' \notin QueueWaits \cup PublisherSteps
  BY <1>3 DEF QueueWaits, PublisherSteps
<1>7. /\ fault' = fault \/ (fault' \in {"native", "storage"} /\ (threw' \/ lost))
      /\ pc' = "catch" => fault' # "none"
  BY <1>3, <1>4, <1>5
<1> QED
  BY <1>1, <1>2, <1>6, <1>7, Typed, RunKeeps

-----------------------------------------------------------------------------
(* From initialize to the native session.                                    *)
LEMMA InitializeKeeps ==
  ASSUME Inv, Initialize
  PROVE  Inv'
<1>1. /\ pc = "initialize" /\ ~sdkSession /\ queue = <<>> /\ observations = <<>>
      /\ ~linking /\ ~flushed /\ aspect <= Len(Aspects)
  BY DEF Initialize, Inv, PhaseOK, BeforeOpening, PublisherSteps
<1>2. UNCHANGED <<fault, sdkSession, caught, aspect, batch, class, closeFailure, rejected,
                  reading, lost, observations, linking, reports, extensionError, log, status,
                  flushed>>
  BY DEF Initialize, Rest, DriverAndQueue, relayVars, recordVars
<1>3. NobodyWaits
  BY <1>1 DEF NobodyWaits
<1>4. \/ pc' = "load" /\ UNCHANGED <<answer, queue, threw>>
      \/ pc' = "init-rejected" /\ answer' = "none" /\ threw' = TRUE /\ Enqueues /\ QueueMove
  <2>1. Observation("initialization-rejected", Primary) \in Seq(Governance) \ {<<>>}
    BY ObservationLines DEF Plugins
  <2>2. "init-rejected" \in QueueWaits \ {"finalize"}
    BY DEF QueueWaits
  <2>3. CASE Goto("load") /\ UNCHANGED <<answer, queue, threw>>
    BY <2>3 DEF Goto
  <2>4. CASE /\ AwaitEnqueued(Observation("initialization-rejected", Primary), "init-rejected")
             /\ threw' = TRUE
    BY <2>1, <2>2, <2>4, Awaits
  <2> QED
    BY <2>3, <2>4 DEF Initialize
<1>5. QueueMove
  BY <1>4 DEF QueueMove
<1>6. queue' \in Seq(Operations) /\ QueueOK' /\ WaitersOK'
  <2>1. queue \in Seq(Operations) /\ QueueOK /\ WaitersOK
    BY DEF Inv, TypeOK
  <2> QED
    BY <1>1, <1>2, <1>3, <1>5, <2>1, DriverQueue
<1>7. Len(queue') <= 1 /\ (pc' = "load" => queue' = <<>>)
  <2>1. CASE queue' = queue
    BY <1>1, <1>4, <2>1 DEF Enqueues, Enqueue
  <2>2. CASE Enqueues /\ pc' = "init-rejected"
    <3>1. PICK lines \in Seq(Governance) \ {<<>>} : Enqueue(lines, "driver")
      BY <2>2 DEF Enqueues
    <3> DEFINE op == [lines |-> lines, waiters |-> {"driver"}, due |-> ~flushed, doomed |-> FALSE]
    <3>2. queue' = Append(<<>>, op)
      BY <1>1, <3>1 DEF Enqueue
    <3> HIDE DEF op
    <3> QED
      BY <2>2, <3>2
  <2> QED
    BY <1>4, <2>1, <2>2
<1>8. TypeOK'
  <2>1. pc' \in DriverSteps
    BY <1>4 DEF DriverSteps
  <2>2. threw' \in BOOLEAN /\ answer' \in {"none", "ok", "rejected"}
    BY <1>4, Typed
  <2> QED
    BY <1>2, <1>6, <2>1, <2>2 DEF Inv, TypeOK
<1>9. RelayOK'
  BY <1>1, <1>2 DEF RelayOK
<1>10. PhaseOK'
  BY <1>1, <1>2, <1>4, <1>7 DEF Inv, PhaseOK, BeforeOpening, Settled, PublisherSteps
<1>11. StickyOK'
  <2>1. ~reading
    BY <1>1 DEF Inv, StickyOK
  <2> QED
    BY <1>1, <1>2, <1>4, <2>1 DEF Inv, StickyOK, QueueWaits
<1>12. DrainedOK'
  BY <1>4 DEF DrainedOK, Settled
<1>13. CausesOK'
  BY <1>2, <1>4 DEF Inv, CausesOK, Settled
<1>14. RecordOK'
  BY <1>1, <1>2 DEF Inv, RecordOK, HasTerminal
<1> QED
  BY <1>6, <1>8, <1>9, <1>10, <1>11, <1>12, <1>13, <1>14 DEF Inv

LEMMA OpensKeeps ==
  ASSUME Inv, InitializationRejected \/ Load
  PROVE  Inv'
<1>1. /\ pc \in {"init-rejected", "load"}
      /\ ~sdkSession /\ queue = <<>> /\ observations = <<>>
      /\ ~linking /\ ~flushed /\ aspect <= Len(Aspects) /\ extensionError = "none"
  BY DEF InitializationRejected, Load, Answered, Inv, PhaseOK, BeforeOpening, PublisherSteps
<1>2. UNCHANGED <<answer, caught, aspect, batch, class, closeFailure, queue, rejected,
                  reading, lost, observations, linking, reports, extensionError, log, status,
                  flushed>>
  BY DEF InitializationRejected, Load, Rest, OnlyDriver, writerVars, relayVars, recordVars
<1>3. \/ pc' = "bind" /\ sdkSession' = TRUE /\ UNCHANGED <<fault, threw>>
      \/ pc' = "catch" /\ sdkSession' = FALSE /\ fault' = "native" /\ threw' = TRUE
  <2>1. CASE InitializationRejected
    <3>1. pc' = "catch" /\ fault' = "native" /\ UNCHANGED <<sdkSession, threw>>
      BY <2>1 DEF InitializationRejected, Throw, Goto, Rest
    <3>2. threw = TRUE
      BY <2>1 DEF InitializationRejected, Answered, Inv, CausesOK, TypeOK
    <3>3. sdkSession' = FALSE
      BY <1>1, <3>1 DEF Inv, TypeOK
    <3> QED
      BY <3>1, <3>2, <3>3
  <2>2. CASE Load
    BY <2>2 DEF Load, NativeThrow, Throw, Goto
  <2> QED
    BY <2>1, <2>2
<1>4. TypeOK'
  <2>1. pc' \in DriverSteps
    BY <1>3 DEF DriverSteps
  <2>2. /\ threw' \in BOOLEAN /\ sdkSession' \in BOOLEAN
        /\ fault' \in {"none", "native", "storage"}
    BY <1>3, Typed
  <2> QED
    BY <1>2, <2>1, <2>2 DEF Inv, TypeOK
<1>5. QueueOK' /\ WaitersOK' /\ RelayOK' /\ DrainedOK'
  BY <1>1, <1>2 DEF QueueOK, WaitersOK, RelayOK, DrainedOK
<1>6. PhaseOK'
  BY <1>1, <1>2, <1>3 DEF PhaseOK, BeforeOpening, Settled, PublisherSteps
<1>7. StickyOK'
  BY <1>2, <1>3 DEF Inv, StickyOK, QueueWaits
<1>8. CausesOK'
  <2>1. /\ fault # "none" => threw \/ lost
        /\ caught => fault # "none"
        /\ closeFailure # "none" => threw
    BY DEF Inv, CausesOK
  <2>2. CASE pc' = "bind" /\ sdkSession' = TRUE /\ UNCHANGED <<fault, threw>>
    BY <1>1, <1>2, <2>1, <2>2 DEF CausesOK, Settled
  <2>3. CASE pc' = "catch" /\ sdkSession' = FALSE /\ fault' = "native" /\ threw' = TRUE
    BY <1>1, <1>2, <2>3 DEF CausesOK, Settled
  <2> QED
    BY <1>3, <2>2, <2>3
<1>9. RecordOK'
  BY <1>1, <1>2 DEF Inv, RecordOK, HasTerminal
<1> QED
  BY <1>4, <1>5, <1>6, <1>7, <1>8, <1>9 DEF Inv

-----------------------------------------------------------------------------
(* The end of a Session.                                                     *)
LEMMA AwaitsTheRelay ==
  ASSUME Inv, pc \in Middle, sdkSession, answer # "none" \/ pc \notin QueueWaits \cup RelayWaits,
         AwaitObservations("flush"),
         UNCHANGED <<fault, sdkSession, aspect, batch, class, queue, rejected, reading, lost,
                     linking, reports, extensionError, log, status, flushed>>,
         caught' \in BOOLEAN, caught' => fault # "none",
         threw' \in BOOLEAN, threw => threw',
         closeFailure' \in {"none", "native"}, closeFailure' # "none" => threw',
         extensionError = "early" => closeFailure' # "none"
  PROVE  Inv'
<1>1. NobodyWaits
  BY DriverIsFree DEF Inv
<1>2. "flush" \in RelayWaits
  BY DEF RelayWaits
<1>3. RelayMove /\ pc' = "flush" /\ answer' \in {"none", "ok", "rejected"}
  BY <1>2, AwaitsObservations
<1>4. observations' \in Seq(Links) /\ RelayOK'
  <2>1. observations \in Seq(Links) /\ RelayOK
    BY DEF Inv, TypeOK
  <2> QED
    BY <1>1, <1>3, <2>1, DriverRelay
<1>5. QueueOK' /\ WaitersOK'
  BY <1>1, QueueStays DEF Inv
<1>6. ~flushed
  BY DEF Inv, PhaseOK, Middle
<1>7. TypeOK'
  BY <1>3, <1>4 DEF Inv, TypeOK, DriverSteps
<1>8. PhaseOK'
  BY <1>3, <1>6 DEF PhaseOK, BeforeOpening, Settled, PublisherSteps
<1>9. StickyOK' /\ DrainedOK'
  BY <1>3 DEF Inv, StickyOK, DrainedOK, QueueWaits, Settled
<1>10. CausesOK'
  <2>1. /\ fault # "none" => threw \/ lost
        /\ extensionError # "none" => threw
    BY DEF Inv, CausesOK
  <2> QED
    BY <1>3, <2>1 DEF CausesOK, Settled
<1>11. RecordOK'
  <2>1. pc \notin {"settling", "ended"}
    BY DEF Middle, Settled
  <2> QED
    BY <2>1 DEF Inv, RecordOK, HasTerminal
<1> QED
  BY <1>4, <1>5, <1>7, <1>8, <1>9, <1>10, <1>11 DEF Inv

LEMMA CloseKeeps ==
  ASSUME Inv, Close
  PROVE  Inv'
<1>1. /\ pc \in {"close", "catch"} /\ pc \in Middle
      /\ pc \notin QueueWaits \cup RelayWaits
      /\ caught' = (pc = "catch")
  BY DEF Close, Middle, DriverSteps, BeforeOpening, Settled, QueueWaits, RelayWaits
<1>2. UNCHANGED <<fault, sdkSession, aspect, batch, class, queue, rejected, reading, lost,
                  linking, reports, extensionError, log, status, flushed>>
  BY DEF Close, DriverAndRelay, writerVars, recordVars
<1>3. caught' \in BOOLEAN /\ (caught' => fault # "none")
  BY <1>1 DEF Inv, CausesOK
<1>4. CASE /\ sdkSession
           /\ Observe("shutdown", Primary, TRUE)
           /\ answer' = "none"
           /\ Goto("shutdown")
           /\ UNCHANGED <<closeFailure, threw>>
  <2>1. /\ pc' = "shutdown" /\ pc' \in Middle /\ pc' \in RelayWaits
        /\ pc' \notin QueueWaits \cup PublisherSteps
    BY <1>4 DEF Goto, Middle, DriverSteps, BeforeOpening, Settled, RelayWaits, QueueWaits,
                PublisherSteps
  <2>2. RelayMove
    BY <1>4, <2>1 DEF RelayMove, Observes
  <2>3. QueueMove /\ LogMove
    BY <1>2 DEF QueueMove, LogMove
  <2>4. fault # "none" => threw \/ lost
    BY DEF Inv, CausesOK
  <2>5. MiddleMove
    BY <1>1, <1>2, <1>3, <1>4, <2>1, <2>2, <2>3, <2>4, Typed DEF MiddleMove
  <2> QED
    BY <1>1, <2>5, MiddleKeeps
<1>5. CASE /\ sdkSession /\ closeFailure' = "native" /\ threw' = TRUE
           /\ AwaitObservations("flush")
  BY <1>1, <1>2, <1>3, <1>5, AwaitsTheRelay
<1>6. CASE /\ ~sdkSession /\ Goto("settle")
           /\ UNCHANGED <<answer, observations, closeFailure, threw>>
  <2>1. /\ pc = "catch" /\ pc' = "settle" /\ queue = <<>> /\ observations = <<>>
        /\ ~linking /\ ~flushed /\ extensionError = "none" /\ fault # "none"
    BY <1>1, <1>6 DEF Goto, Inv, PhaseOK, CausesOK, BeforeOpening, Settled
  <2>2. TypeOK'
    BY <1>2, <1>3, <1>6, <2>1 DEF Inv, TypeOK, DriverSteps
  <2>3. QueueOK' /\ WaitersOK' /\ RelayOK' /\ DrainedOK'
    BY <1>2, <1>6, <2>1 DEF QueueOK, WaitersOK, RelayOK, DrainedOK
  <2>4. PhaseOK'
    BY <1>2, <1>6, <2>1 DEF PhaseOK, BeforeOpening, Settled, PublisherSteps
  <2>5. StickyOK'
    BY <1>2, <2>1 DEF Inv, StickyOK, QueueWaits
  <2>6. CausesOK'
    BY <1>2, <1>6, <2>1 DEF Inv, CausesOK
  <2>7. RecordOK'
    BY <1>2, <2>1 DEF Inv, RecordOK, HasTerminal
  <2> QED
    BY <2>2, <2>3, <2>4, <2>5, <2>6, <2>7 DEF Inv
<1> QED
  BY <1>4, <1>5, <1>6 DEF Close

LEMMA ShutdownKeeps ==
  ASSUME Inv, Shutdown
  PROVE  Inv'
<1>1. /\ pc = "shutdown" /\ answer # "none" /\ pc \in Middle /\ sdkSession
      /\ AwaitObservations("flush")
  BY Open DEF Shutdown, Answered, Middle, DriverSteps, BeforeOpening, Settled
<1>2. UNCHANGED <<fault, threw, sdkSession, caught, aspect, batch, class, queue, rejected,
                  reading, lost, linking, reports, extensionError, log, status, flushed>>
  BY DEF Shutdown, Rest, DriverAndRelay, writerVars, recordVars
<1>3. /\ closeFailure' \in {"none", "native"}
      /\ closeFailure' # "none" <=> extensionError # "none"
  BY DEF Shutdown, ShutdownFailure
<1>4. /\ caught' \in BOOLEAN /\ (caught' => fault # "none")
      /\ threw' \in BOOLEAN /\ (threw => threw')
      /\ extensionError # "none" => threw'
  BY <1>2 DEF Inv, TypeOK, CausesOK
<1> QED
  BY <1>1, <1>2, <1>3, <1>4, AwaitsTheRelay

LEMMA FlushKeeps ==
  ASSUME Inv, Flush
  PROVE  Inv'
<1>1. /\ pc = "flush" /\ answer # "none" /\ AwaitWrites("finalize") /\ flushed' = TRUE
      /\ UNCHANGED <<fault, threw, closeFailure, sdkSession, caught, aspect, batch, class,
                     rejected, reading, lost, observations, linking, reports, extensionError,
                     log, status>>
  BY DEF Flush, FinalizeWrites, Answered, Rest, relayVars, recordVars
<1>2. ~flushed /\ sdkSession
  BY <1>1 DEF Inv, PhaseOK, BeforeOpening, Settled
<1>3. NobodyWaits
  BY <1>1, DriverIsFree DEF Inv
<1>4. "finalize" \in QueueWaits
  BY DEF QueueWaits
<1>5. queue' \in Seq(Operations) /\ QueueOK' /\ WaitersOK'
  <2>1. queue \in Seq(Operations) /\ QueueOK /\ WaitersOK
    BY DEF Inv, TypeOK
  <2> QED
    BY <1>1, <1>2, <1>3, <1>4, <2>1, DriverAwaitsWrites
<1>6. /\ pc' = "finalize"
      /\ queue = <<>> => queue' = queue /\ answer' = IF rejected THEN "rejected" ELSE "ok"
      /\ queue # <<>> => answer' = "none" /\ queue' # <<>>
  <2>1. pc' = "finalize"
    BY <1>1 DEF AwaitWrites, Goto
  <2>2. CASE queue = <<>>
    BY <1>1, <2>1, <2>2 DEF AwaitWrites
  <2>3. CASE queue # <<>>
    BY <1>1, <2>1, <2>3, LastOf DEF AwaitWrites, Inv, TypeOK
  <2> QED
    BY <2>2, <2>3
<1>7. TypeOK'
  <2>1. answer' \in {"none", "ok", "rejected"}
    BY <1>6
  <2> QED
    BY <1>1, <1>5, <1>6, <2>1 DEF Inv, TypeOK, DriverSteps
<1>8. RelayOK'
  BY <1>1, <1>3 DEF Inv, RelayOK, NobodyWaits
<1>9. PhaseOK'
  BY <1>1, <1>2, <1>6 DEF PhaseOK, BeforeOpening, Settled, PublisherSteps
<1>10. StickyOK'
  BY <1>1, <1>2, <1>6 DEF Inv, StickyOK
<1>11. DrainedOK'
  BY <1>6 DEF DrainedOK, Settled
<1>12. CausesOK'
  BY <1>1, <1>6 DEF Inv, CausesOK, Settled
<1>13. RecordOK'
  BY <1>1 DEF Inv, RecordOK, HasTerminal
<1> QED
  BY <1>5, <1>7, <1>8, <1>9, <1>10, <1>11, <1>12, <1>13 DEF Inv

LEMMA FinalizeKeeps ==
  ASSUME Inv, Finalize
  PROVE  Inv'
<1>1. pc = "finalize" /\ answer # "none" /\ pc' = "settle"
  BY DEF Finalize, Answered, Goto
<1>2. UNCHANGED <<answer, closeFailure, sdkSession, caught, aspect, batch, class, queue,
                  rejected, reading, lost, observations, linking, reports, extensionError,
                  log, status, flushed>>
  BY DEF Finalize, Rest, OnlyDriver, writerVars, relayVars, recordVars
<1>3. PICK disposed \in BOOLEAN :
        LET failure == IF answer = "rejected" THEN "storage"
                       ELSE IF closeFailure = "none" /\ ~disposed THEN "native"
                       ELSE closeFailure
        IN /\ fault' = FaultAfterClose(failure)
           /\ threw' = (threw \/ ~disposed)
  BY DEF Finalize
<1> DEFINE failure == IF answer = "rejected" THEN "storage"
                      ELSE IF closeFailure = "none" /\ ~disposed THEN "native"
                      ELSE closeFailure
<1>4. fault' = IF caught /\ failure # "storage" THEN fault
               ELSE IF failure = "none" THEN fault ELSE failure
  BY <1>3 DEF FaultAfterClose
<1>5. threw' \in BOOLEAN /\ (threw => threw') /\ (~disposed => threw')
  BY <1>3, Typed
<1>6. sdkSession
  BY <1>1 DEF Inv, PhaseOK, BeforeOpening, Settled
<1>7. /\ answer = "rejected" \/ answer = "ok"
      /\ answer = "rejected" => lost
      /\ answer = "ok" => ~lost
      /\ closeFailure \in {"none", "native"}
      /\ closeFailure # "none" => threw
      /\ extensionError = "early" => closeFailure # "none"
      /\ caught => fault # "none"
      /\ fault # "none" => threw \/ lost
  BY <1>1, Typed DEF Inv, TypeOK, StickyOK, CausesOK, QueueWaits
<1>8. /\ failure \in {"none", "native", "storage"}
      /\ failure # "none" => threw' \/ lost
      /\ failure = "none" => ~lost /\ extensionError # "early"
      /\ lost => failure = "storage"
  BY <1>5, <1>7
<1> HIDE DEF failure
<1>9. /\ fault' \in {"none", "native", "storage"}
      /\ fault' # "none" => threw' \/ lost
      /\ fault' = "none" => ~lost /\ extensionError # "early"
      /\ lost => fault' = "storage"
      /\ caught => fault' # "none"
  BY <1>4, <1>5, <1>7, <1>8, Typed
<1>10. TypeOK'
  BY <1>1, <1>2, <1>5, <1>9 DEF Inv, TypeOK, DriverSteps
<1>11. QueueOK' /\ WaitersOK' /\ RelayOK'
  <2>1. NobodyWaits
    BY <1>1, DriverIsFree DEF Inv
  <2>2. QueueOK' /\ WaitersOK'
    BY <1>2, <2>1, QueueStays DEF Inv
  <2>3. RelayOK'
    BY <1>2, <2>1 DEF Inv, RelayOK, NobodyWaits
  <2> QED
    BY <2>2, <2>3
<1>12. PhaseOK'
  BY <1>1, <1>2, <1>6 DEF Inv, PhaseOK, BeforeOpening, Settled, PublisherSteps
<1>13. StickyOK'
  BY <1>1, <1>2 DEF Inv, StickyOK, QueueWaits
<1>14. DrainedOK'
  BY <1>1, <1>2 DEF Inv, DrainedOK
<1>15. CausesOK'
  <2>1. extensionError # "none" => threw'
    BY <1>5 DEF Inv, CausesOK
  <2> QED
    BY <1>1, <1>2, <1>5, <1>7, <1>9, <2>1 DEF CausesOK
<1>16. RecordOK'
  BY <1>1, <1>2 DEF Inv, RecordOK, HasTerminal
<1> QED
  BY <1>10, <1>11, <1>12, <1>13, <1>14, <1>15, <1>16 DEF Inv

LEMMA SettleKeeps ==
  ASSUME Inv, Settle \/ SettleJson
  PROVE  Inv'
<1>1. /\ UNCHANGED <<answer, fault, threw, closeFailure, sdkSession, caught, aspect, batch, class,
                     queue, rejected, reading, lost, observations, linking, reports,
                     extensionError, flushed>>
      /\ \/ /\ pc = "settle" /\ pc' = "settling" /\ status' = status
            /\ log' = Append(log, Line(Terminal, Primary, Outcome))
         \/ pc = "settling" /\ pc' = "ended" /\ status' = Outcome /\ log' = log
  BY DEF Settle, SettleJson, Goto, Rest, writerVars, relayVars
<1>2. Line(Terminal, Primary, Outcome) \in Lines
  BY DEF Line, Lines, Terminal, Outcome, Plugins
<1>3. log' \in Seq(Lines)
  <2>1. log \in Seq(Lines)
    BY DEF Inv, TypeOK
  <2>2. Append(log, Line(Terminal, Primary, Outcome)) \in Seq(Lines)
    BY <1>2, <2>1, AppendFacts
  <2> QED
    BY <1>1, <2>1, <2>2
<1>4. status' \in {"running", "completed", "failed"}
  BY <1>1 DEF Inv, TypeOK, Outcome
<1>5. TypeOK'
  BY <1>1, <1>3, <1>4 DEF Inv, TypeOK, DriverSteps
<1>6. QueueOK' /\ WaitersOK' /\ RelayOK'
  <2>1. NobodyWaits
    BY <1>1, DriverIsFree DEF Inv, QueueWaits, RelayWaits
  <2>2. QueueOK' /\ WaitersOK'
    BY <1>1, <2>1, QueueStays DEF Inv
  <2>3. RelayOK'
    BY <1>1, <2>1 DEF Inv, RelayOK, NobodyWaits
  <2> QED
    BY <2>2, <2>3
<1>7. PhaseOK'
  BY <1>1 DEF Inv, PhaseOK, BeforeOpening, Settled, PublisherSteps
<1>8. StickyOK'
  BY <1>1 DEF Inv, StickyOK, QueueWaits
<1>9. DrainedOK'
  BY <1>1 DEF Inv, DrainedOK, Settled
<1>10. CausesOK'
  BY <1>1 DEF Inv, CausesOK, Settled
<1>11. RecordOK'
  <2>1. CASE pc = "settle" /\ pc' = "settling" /\ status' = status
    BY <1>1, <2>1 DEF Inv, RecordOK
  <2>2. CASE pc' = "ended" /\ status' = Outcome
    <3>1. fault = "none" => status' = "completed"
      BY <2>2 DEF Outcome
    <3>2. fault # "none" => status' = "failed"
      BY <2>2 DEF Outcome
    <3> QED
      BY <1>1, <2>2, <3>1, <3>2 DEF RecordOK
  <2> QED
    BY <1>1, <2>1, <2>2
<1> QED
  BY <1>5, <1>6, <1>7, <1>8, <1>9, <1>10, <1>11 DEF Inv

-----------------------------------------------------------------------------
LEMMA InitHolds == Init => Inv
<1> SUFFICES ASSUME Init PROVE Inv
  OBVIOUS
<1>1. TypeOK
  <2>1. Len(Aspects) \in Nat /\ MaxBatch \in Nat /\ MaxReports \in Nat
    BY BoundsAssumption, AspectsAssumption
  <2>2. queue \in Seq(Operations) /\ observations \in Seq(Links) /\ log \in Seq(Lines)
    BY DEF Init
  <2>3. pc \in DriverSteps
    BY DEF Init, DriverSteps
  <2>4. aspect \in 0 .. Len(Aspects) + 1 /\ batch \in 0 .. MaxBatch /\ reports \in 0 .. MaxReports
    BY <2>1 DEF Init
  <2>5. /\ sdkSession \in BOOLEAN /\ caught \in BOOLEAN /\ rejected \in BOOLEAN
        /\ reading \in BOOLEAN /\ linking \in BOOLEAN /\ flushed \in BOOLEAN
        /\ lost \in BOOLEAN /\ threw \in BOOLEAN
    BY DEF Init
  <2>6. /\ answer = "none" /\ extensionError = "none" /\ fault = "none"
        /\ class = "aspect-execution" /\ closeFailure = "none" /\ status = "running"
    BY DEF Init
  <2> QED
    BY <2>2, <2>3, <2>4, <2>5, <2>6 DEF TypeOK
<1>2. QueueOK /\ WaitersOK /\ RelayOK
  BY DEF Init, QueueOK, WaitersOK, RelayOK
<1>3. PhaseOK
  BY AspectsAssumption DEF Init, PhaseOK, BeforeOpening, Settled
<1>4. StickyOK /\ DrainedOK
  BY DEF Init, StickyOK, DrainedOK, QueueWaits, Settled
<1>5. CausesOK /\ RecordOK
  BY DEF Init, CausesOK, RecordOK, HasTerminal, Settled
<1> QED
  BY <1>1, <1>2, <1>3, <1>4, <1>5 DEF Inv

LEMMA StepKeeps == Inv /\ [Next]_vars => Inv'
<1> SUFFICES ASSUME Inv, [Next]_vars PROVE Inv'
  OBVIOUS
<1>1. CASE UNCHANGED vars
  BY <1>1 DEF vars, driverVars, writerVars, relayVars, recordVars, Inv, TypeOK, QueueOK,
     WaitersOK, RelayOK, PhaseOK, StickyOK, DrainedOK, CausesOK, RecordOK, HasTerminal
<1>2. CASE Driver
  BY <1>2, InitializeKeeps, OpensKeeps, BindKeeps, BoundKeeps, ConsumeKeeps, RunDomainKeeps,
     ValidatedKeeps, RefusedKeeps, RegisterKeeps, RegisteredKeeps, DomainEndsKeeps,
     StartAspectKeeps, AspectStartedKeeps, AfterRunKeeps, AspectThrewKeeps, AspectEndsKeeps,
     AspectsDoneKeeps, DrainedKeeps, CloseKeeps, ShutdownKeeps, FlushKeeps, FinalizeKeeps,
     SettleKeeps DEF Driver
<1>3. CASE Writer
  BY <1>3, SkipKeeps, ReadKeeps, WriteKeeps DEF Writer
<1>4. CASE StartLink
  BY <1>4, StartLinkKeeps
<1>5. CASE \E plugin \in Plugins : ExtensionReports(plugin)
  BY <1>5, ReportKeeps
<1>6. CASE Terminated
  BY <1>1, <1>6 DEF Terminated
<1> QED
  BY <1>1, <1>2, <1>3, <1>4, <1>5, <1>6 DEF Next

LEMMA Invariance == Spec => []Inv
<1> QED
  BY InitHolds, StepKeeps, PTL DEF Spec

-----------------------------------------------------------------------------
(* Every variable of the driver, the writer and the relay keeps its type.    *)
THEOREM PiHostTypeCorrect == Spec => []TypeOK
<1>1. Inv => TypeOK
  BY DEF Inv
<1> QED
  BY <1>1, Invariance, PTL

(* When executeSession appends the terminal event, nothing asked for before  *)
(* the flush of close is still in the write queue: whatever the aspects, the *)
(* batches, the failures, and the reports that arrive meanwhile.             *)
THEOREM DrainedBeforeTerminalAlways == Spec => []DrainedBeforeTerminal
<1>1. Inv => DrainedBeforeTerminal
  BY DEF Inv, RecordOK, DrainedOK, Settled, DrainedBeforeTerminal
<1> QED
  BY <1>1, Invariance, PTL

(* A completed Session lost no write and met no fatal extension error before *)
(* close looked; a failed one failed for its domain or for a lost write.     *)
THEOREM SettlesAsItWentAlways == Spec => []SettlesAsItWent
<1>1. Inv => SettlesAsItWent
  <2> SUFFICES ASSUME Inv PROVE SettlesAsItWent
    OBVIOUS
  <2>1. /\ status = "completed" => pc = "ended" /\ fault = "none"
        /\ status = "failed" => fault # "none"
    BY DEF Inv, RecordOK
  <2>2. /\ fault # "none" => threw \/ lost
        /\ pc \in Settled /\ fault = "none" => ~lost /\ extensionError # "early"
    BY DEF Inv, CausesOK
  <2> QED
    BY <2>1, <2>2 DEF SettlesAsItWent, Settled
<1> QED
  BY <1>1, Invariance, PTL

(* Once the native session exists, a lost write is what the Session fails    *)
(* for.                                                                      *)
THEOREM RejectionSurfaces == Spec => []RejectionSurfacesOnceOpen
<1>1. Inv => RejectionSurfacesOnceOpen
  <2> SUFFICES ASSUME Inv PROVE RejectionSurfacesOnceOpen
    OBVIOUS
  <2>1. status = "failed" => pc = "ended"
    BY DEF Inv, RecordOK
  <2>2. pc \in Settled /\ lost /\ sdkSession => fault = "storage"
    BY DEF Inv, CausesOK
  <2> QED
    BY <2>1, <2>2 DEF RejectionSurfacesOnceOpen, Settled
<1> QED
  BY <1>1, Invariance, PTL
-----------------------------------------------------------------------------
(* What the receipt reads of the log.  Some lines are the driver's own: it   *)
(* awaits the operation that writes one, of which the line is the last, and  *)
(* goes on only when it is told.                                             *)
Participant(plugin, detail) == Line("participant", plugin, detail)

Refusal(line) ==
    line.type = "observer.failed" /\ line.detail \in {"publication-validation", "aspect-execution"}

Own(line) == line.type \in {"participant", "artifact"} \/ Refusal(line)

Milestone(line) == line.type = "participant" /\ line.detail \in {"started", "completed"}

Milestones == {"domain-completed", "aspect-started", "aspect-completed"}
Awaiting == Milestones \cup {"rejected", "registering", "aspect-failed"}

AwaitedLine ==
    CASE pc = "domain-completed" -> Participant(Primary, "completed")
      [] pc = "rejected"         -> Participant(Primary, "failed")
      [] pc = "aspect-started"   -> Participant(Publisher, "started")
      [] pc = "aspect-completed" -> Participant(Publisher, "completed")
      [] pc = "registering"      -> Line("artifact", Publisher, "published")
      [] OTHER                   -> Line("observer.failed", Publisher, class)

InLog(line) == \E i \in DOMAIN log : log[i] = line

PublisherAt(k) == IF k = 0 THEN Primary ELSE Aspects[k]

(* Steps of a Plugin's turn before which a line of it cannot be in the log.  *)
Before == {"initialize", "init-rejected", "load", "bind", "bound", "started", "consume",
           "domain", "aspects"}

Early(line) ==
    Before \cup
    CASE line.type = "artifact" -> {"aspect-started", "after-run", "publish"}
      [] line.type = "observer.failed" ->
            {"aspect-started", "after-run", "publish", "register", "registering",
             "aspect-threw", "aspect-completed"}
      [] line.type = "participant" /\ line.detail = "completed" ->
            {"aspect-started", "after-run", "publish", "register", "registering",
             "aspect-threw", "aspect-failed"}
      [] OTHER -> {}

AspectSteps == {"aspects", "aspect-started", "after-run", "aspect-threw", "aspect-failed",
                "aspect-completed"}
Turn == {"after-run", "publish", "register", "registering", "aspect-threw",
         "aspect-failed", "aspect-completed"}
Ending == {"drain", "close", "shutdown", "flush", "finalize"} \cup Settled

(* The order in which the driver takes the Plugins.                          *)
ScriptOK ==
    /\ pc \in (Before \ {"aspects"}) \cup {"domain-completed", "rejected"} => aspect = 0
    /\ pc \in AspectSteps => aspect >= 1
    /\ pc = "rejected" => fault # "none"
    /\ pc \in Ending /\ fault = "none" => aspect > Len(Aspects)

(* Who writes the driver's own lines.                                        *)
OwnLinesOK ==
    /\ \A i \in DOMAIN queue :
          /\ \A k \in DOMAIN queue[i].lines : Own(queue[i].lines[k]) =>
                /\ "driver" \in queue[i].waiters /\ pc \in Awaiting
                /\ k = Len(queue[i].lines) /\ queue[i].lines[k] = AwaitedLine
          /\ "driver" \in queue[i].waiters /\ pc \in Awaiting =>
                /\ ~queue[i].doomed =>
                      queue[i].lines[Len(queue[i].lines)] = AwaitedLine
                /\ pc \in Milestones => ~InLog(AwaitedLine)
    /\ pc \in Awaiting /\ answer = "ok" => InLog(AwaitedLine)

(* No line is in the log before its Plugin's turn has come to it ...         *)
NotEarly ==
    \A i \in DOMAIN log, k \in 0 .. Len(Aspects) :
        Own(log[i]) /\ log[i].plugin = PublisherAt(k) =>
            k < aspect \/ (k = aspect /\ pc \notin Early(log[i]))

(* ... nor twice, nor out of order ...                                       *)
OnceEach ==
    \A i, j \in DOMAIN log : Milestone(log[i]) /\ log[i] = log[j] => i = j

StartedFirst ==
    \A j \in DOMAIN log, k \in DOMAIN Aspects :
        log[j] = Participant(Aspects[k], "completed") =>
            \E i \in DOMAIN log : i < j /\ log[i] = Participant(Aspects[k], "started")

(* ... and the turns that are over left what they must.                      *)
TurnsLeft ==
    /\ pc \in Turn /\ aspect >= 1 => InLog(Participant(Publisher, "started"))
    /\ \A k \in DOMAIN Aspects : k < aspect /\ Aspects[k] \in Phased =>
          \/ InLog(Participant(Aspects[k], "completed"))
          \/ \E i \in DOMAIN log : log[i].type = "observer.failed" /\ log[i].plugin = Aspects[k]
    /\ aspect >= 1 /\ fault = "none" => InLog(Participant(Primary, "completed"))
    /\ InLog(Participant(Primary, "failed")) => fault # "none"

(* A refused batch had registered nothing, or a write was lost.              *)
RefusalsOK ==
    /\ RefusedBatchesLeaveNothing
    /\ pc \in {"aspect-threw", "aspect-failed"} =>
          \/ \A i \in DOMAIN log : log[i].type = "artifact" => log[i].plugin # Publisher
          \/ pc = "aspect-threw" /\ rejected /\ answer # "ok"

LogOK == NotEarly /\ OnceEach /\ StartedFirst /\ TurnsLeft /\ RefusalsOK

-----------------------------------------------------------------------------
LEMMA OnePlace ==
  ASSUME NEW i \in 0 .. Len(Aspects), NEW j \in 0 .. Len(Aspects),
         PublisherAt(i) = PublisherAt(j)
  PROVE  i = j
<1>1. \A k \in 0 .. Len(Aspects) : k # 0 => k \in DOMAIN Aspects /\ Aspects[k] \in AspectSet
  BY AspectsAssumption DEF AspectSet
<1> QED
  BY <1>1, PrimaryAssumption, AspectsAssumption DEF PublisherAt

LEMMA OneOrMore ==
  ASSUME NEW S, NEW q \in Seq(S), q # <<>>
  PROVE  Head(q) = q[1] /\ (Len(q) = 1 \/ Len(q) > 1)
<1>1. Head(q) = q[1] /\ 1 \in DOMAIN q /\ Len(q) \in Nat
  BY TailFacts
<1>2. 1 <= Len(q)
  BY <1>1, LastOf
<1> QED
  BY <1>1, <1>2

(* What a step of the writer does to the first operation and to the log.     *)
FirstGone == queue' = Tail(queue)

FirstGoesOn ==
    \E op \in Operations :
        /\ queue' = [queue EXCEPT ![1] = op]
        /\ op.waiters = queue[1].waiters
        /\ \/ op = queue[1]
           \/ op.lines = Tail(queue[1].lines) /\ Len(queue[1].lines) > 1
              /\ op.doomed = queue[1].doomed
           \/ /\ \E plugin \in Plugins :
                     op.doomed /\ op.lines = AspectFailure(plugin, "governance-storage")
              /\ queue[1].lines[1].type = "artifact"

WriterFrame ==
    /\ queue # <<>>
    /\ UNCHANGED <<pc, aspect, fault, class, status>>
    /\ rejected => rejected' /\ log' = log

LEMMA FinishMoves ==
  ASSUME Inv, queue # <<>>, NEW result \in {"ok", "rejected"}, Finish(result), NotTheWriter
  PROVE  /\ FirstGone
         /\ rejected => rejected'
         /\ \/ answer' = answer \/ answer' = "rejected"
            \/ answer' = "ok" /\ pc \in RelayWaits
            \/ answer' = "ok" /\ result = "ok" /\ "driver" \in queue[1].waiters
<1>1. Head(queue) = queue[1]
  BY FirstOperation
<1>2. queue' = Tail(queue) /\ rejected' = (rejected \/ result = "rejected")
  BY DEF Finish, StaysRejected
<1>3. CASE "driver" \in queue[1].waiters
  BY <1>1, <1>2, <1>3 DEF Finish, FirstGone
<1>4. CASE /\ "driver" \notin queue[1].waiters /\ "link" \in queue[1].waiters
           /\ Head(observations).awaited
  <2>1. linking
    BY <1>4, TailFacts DEF Inv, TypeOK, QueueOK
  <2>2. observations # <<>> /\ Head(observations) = observations[1] /\ 1 \in DOMAIN observations
    BY <2>1, TailFacts DEF Inv, TypeOK, RelayOK
  <2>3. pc \in RelayWaits
    BY <1>4, <2>2 DEF Inv, RelayOK
  <2> QED
    BY <1>1, <1>2, <1>4, <2>3 DEF Finish, FirstGone
<1>5. CASE ~(\/ "driver" \in queue[1].waiters
             \/ "link" \in queue[1].waiters /\ Head(observations).awaited)
  BY <1>1, <1>2, <1>5 DEF Finish, FirstGone
<1> QED
  BY <1>3, <1>4, <1>5

LEMMA FailMoves ==
  ASSUME Inv, queue # <<>>, Fail, NotTheWriter, ~rejected
  PROVE  /\ FirstGone \/ FirstGoesOn
         /\ \/ answer' = answer \/ answer' = "rejected"
            \/ answer' = "ok" /\ pc \in RelayWaits
<1> DEFINE first == queue[1]
           line == Head(first.lines)
<1>1. /\ Head(queue) = first /\ first \in Operations /\ 1 \in DOMAIN queue
      /\ line \in Lines /\ line = first.lines[1]
  BY FirstOperation DEF Governance, Inv, TypeOK
<1>2. CASE ~(line.type = "artifact" /\ line.plugin # Primary)
  <2>1. Finish("rejected")
    BY <1>1, <1>2 DEF Fail
  <2> QED
    BY <2>1, FinishMoves
<1>3. CASE line.type = "artifact" /\ line.plugin # Primary
  <2> DEFINE lines == AspectFailure(line.plugin, "governance-storage")
             op == [first EXCEPT !.lines = lines, !.doomed = TRUE]
  <2>1. /\ queue' = [queue EXCEPT ![1].lines = lines, ![1].doomed = TRUE]
        /\ answer' = answer
    BY <1>1, <1>3 DEF Fail
  <2>2. lines \in Seq(Lines) /\ line.plugin \in Plugins
    <3>1. line.plugin \in Plugins
      BY <1>1 DEF Lines
    <3>2. Line("observer.failed", line.plugin, "governance-storage") \in Lines
      BY <3>1 DEF Line, Lines
    <3> QED
      BY <3>1, <3>2 DEF AspectFailure
  <2> HIDE DEF lines, line
  <2>3. op \in Operations
    BY <1>1, <2>2 DEF Operations
  <2>4. op.waiters = first.waiters /\ op.doomed /\ op.lines = lines
    BY <1>1 DEF Operations
  <2>5. queue' = [queue EXCEPT ![1] = op]
    BY <1>1, <2>1 DEF Inv, TypeOK
  <2> HIDE DEF op
  <2>6. FirstGoesOn
    BY <1>1, <1>3, <2>2, <2>3, <2>4, <2>5 DEF FirstGoesOn, lines
  <2> QED
    BY <2>1, <2>6
<1> QED
  BY <1>2, <1>3

WriterMove ==
    /\ WriterFrame
    /\ \/ log' = log /\ FirstGone
       \/ log' = log /\ FirstGoesOn
       \/ log' = Append(log, queue[1].lines[1]) /\ FirstGone
       \/ /\ log' = Append(log, queue[1].lines[1]) /\ FirstGoesOn
          /\ Len(queue[1].lines) > 1 \/ queue[1].lines[1].type = "artifact"
    /\ \/ answer' = answer \/ answer' = "rejected"
       \/ answer' = "ok" /\ pc \in RelayWaits
       \/ /\ answer' = "ok" /\ ~rejected /\ "driver" \in queue[1].waiters
          /\ log' = Append(log, queue[1].lines[1])
          /\ FirstGone /\ Len(queue[1].lines) = 1 /\ ~queue[1].doomed

LEMMA WriterMoves ==
  ASSUME Inv, Writer
  PROVE  WriterMove
<1>0. queue # <<>> /\ NotTheWriter
  BY DEF Writer, Skip, Read, Write, Inv, StickyOK
<1>1. /\ Head(queue) = queue[1] /\ queue[1] \in Operations /\ queue[1].lines # <<>>
      /\ Head(queue[1].lines) = queue[1].lines[1]
      /\ Len(queue[1].lines) > 1 \/ Len(queue[1].lines) = 1
      /\ queue' = [queue EXCEPT ![1] = queue[1]] => queue' = queue
      /\ [queue EXCEPT ![1] = queue[1]] = queue
  <2>1. /\ Head(queue) = queue[1] /\ queue[1] \in Operations /\ queue[1].lines # <<>>
        /\ queue[1].lines \in Seq(Governance)
    BY <1>0, FirstOperation
  <2>2. Head(queue[1].lines) = queue[1].lines[1]
        /\ (Len(queue[1].lines) = 1 \/ Len(queue[1].lines) > 1)
    BY <2>1, OneOrMore
  <2>3. [queue EXCEPT ![1] = queue[1]] = queue
    BY DEF Inv, TypeOK
  <2> QED
    BY <2>1, <2>2, <2>3
<1>2. UNCHANGED <<pc, aspect, fault, class, status>>
  BY <1>0 DEF NotTheWriter
<1>3. CASE Skip
  <2>1. Finish("rejected") /\ log' = log /\ rejected
    BY <1>3 DEF Skip
  <2>2. /\ FirstGone /\ (rejected => rejected')
        /\ \/ answer' = answer \/ answer' = "rejected"
           \/ answer' = "ok" /\ pc \in RelayWaits
    BY <1>0, <2>1, FinishMoves
  <2> QED
    BY <1>0, <1>2, <2>1, <2>2 DEF WriterMove, WriterFrame
<1>4. CASE Read
  <2>1. ~rejected /\ log' = log
    BY <1>4 DEF Read
  <2>2. CASE Fail
    BY <1>0, <1>2, <2>1, <2>2, FailMoves DEF WriterMove, WriterFrame
  <2>3. CASE UNCHANGED <<answer, queue>>
    <3>1. FirstGoesOn
      BY <1>1, <2>3 DEF FirstGoesOn
    <3> QED
      BY <1>0, <1>2, <2>1, <2>3, <3>1 DEF WriterMove, WriterFrame
  <2> QED
    BY <1>4, <2>2, <2>3 DEF Read
<1>5. CASE Write
  <2>1. ~rejected
    BY <1>5 DEF Write, Inv, StickyOK
  <2>2. CASE log' = log /\ Fail
    BY <1>0, <1>2, <2>1, <2>2, FailMoves DEF WriterMove, WriterFrame
  <2>3. CASE log' = Append(log, queue[1].lines[1]) /\ Fail
    <3>1. FirstGoesOn => Len(queue[1].lines) > 1 \/ queue[1].lines[1].type = "artifact" \/ FirstGone
      <4>1. CASE ~(queue[1].lines[1].type = "artifact" /\ queue[1].lines[1].plugin # Primary)
        <5>1. Finish("rejected")
          BY <1>1, <2>3, <4>1 DEF Fail
        <5> QED
          BY <1>0, <5>1, FinishMoves
      <4> QED
        BY <4>1
    <3> QED
      BY <1>0, <1>2, <2>1, <2>3, <3>1, FailMoves DEF WriterMove, WriterFrame
  <2>4. CASE /\ log' = Append(log, queue[1].lines[1]) /\ Len(queue[1].lines) > 1
             /\ queue' = [queue EXCEPT ![1].lines = Tail(queue[1].lines)]
             /\ answer' = answer
    <3> DEFINE op == [queue[1] EXCEPT !.lines = Tail(queue[1].lines)]
    <3>1. Tail(queue[1].lines) \in Seq(Lines)
      BY <1>1 DEF Operations
    <3>2. op \in Operations /\ op.lines = Tail(queue[1].lines) /\ op.waiters = queue[1].waiters
          /\ op.doomed = queue[1].doomed
      BY <1>1, <3>1 DEF Operations
    <3>3. queue' = [queue EXCEPT ![1] = op]
      BY <1>0, <2>4 DEF Inv, TypeOK
    <3> HIDE DEF op
    <3>4. FirstGoesOn
      BY <2>4, <3>2, <3>3 DEF FirstGoesOn
    <3> QED
      BY <1>0, <1>2, <2>1, <2>4, <3>4 DEF WriterMove, WriterFrame
  <2>5. CASE /\ log' = Append(log, queue[1].lines[1]) /\ ~(Len(queue[1].lines) > 1)
             /\ Finish(IF queue[1].doomed THEN "rejected" ELSE "ok")
    <3>1. /\ FirstGone /\ Len(queue[1].lines) = 1
          /\ \/ answer' = answer \/ answer' = "rejected"
             \/ answer' = "ok" /\ pc \in RelayWaits
             \/ answer' = "ok" /\ ~queue[1].doomed /\ "driver" \in queue[1].waiters
      <4>1. Len(queue[1].lines) = 1
        <5>1. ~(Len(queue[1].lines) > 1)
          BY <2>5
        <5> QED
          BY <1>1, <5>1
      <4>2. CASE queue[1].doomed
        <5>1. Finish("rejected")
          BY <2>5, <4>2
        <5> QED
          BY <1>0, <4>1, <5>1, FinishMoves
      <4>3. CASE ~queue[1].doomed
        <5>1. Finish("ok")
          BY <2>5, <4>3
        <5> QED
          BY <1>0, <4>1, <4>3, <5>1, FinishMoves
      <4> QED
        BY <4>2, <4>3
    <3> QED
      BY <1>0, <1>2, <2>1, <2>5, <3>1 DEF WriterMove, WriterFrame
  <2>6. \/ /\ log' = Append(log, queue[1].lines[1])
           /\ IF Len(queue[1].lines) > 1
                 THEN /\ queue' = [queue EXCEPT ![1].lines = Tail(queue[1].lines)]
                      /\ answer' = answer
                 ELSE Finish(IF queue[1].doomed THEN "rejected" ELSE "ok")
        \/ log' \in {log, Append(log, queue[1].lines[1])} /\ Fail
    BY <1>1, <1>5 DEF Write
  <2> QED
    BY <2>2, <2>3, <2>4, <2>5, <2>6
<1> QED
  BY <1>3, <1>4, <1>5 DEF Writer

-----------------------------------------------------------------------------
(* What the log keeps when a line is appended.                               *)
LEMMA LogAppends ==
  ASSUME log \in Seq(Lines), NEW line \in Lines, log' = Append(log, line)
  PROVE  /\ DOMAIN log = 1 .. Len(log) /\ Len(log) \in Nat
         /\ \A i \in DOMAIN log : i \in DOMAIN log' /\ log'[i] = log[i] /\ i < Len(log) + 1
         /\ Len(log) + 1 \in DOMAIN log' /\ log'[Len(log) + 1] = line
         /\ \A i \in DOMAIN log' : i \in DOMAIN log \/ i = Len(log) + 1
<1>1. /\ DOMAIN log' = 1 .. Len(log) + 1
      /\ log'[Len(log) + 1] = line
      /\ \A i \in DOMAIN log : log'[i] = log[i]
      /\ DOMAIN log = 1 .. Len(log) /\ Len(log) \in Nat
  BY AppendFacts
<1> QED
  BY <1>1

LEMMA InLogAppends ==
  ASSUME log \in Seq(Lines), NEW line \in Lines, log' = Append(log, line), NEW l
  PROVE  InLog(l)' <=> InLog(l) \/ l = line
BY LogAppends DEF InLog

LEMMA AwaitedIsOwn ==
  ASSUME Inv, pc \in Awaiting
  PROVE  Own(AwaitedLine) /\ (pc \in Milestones => Milestone(AwaitedLine))
BY DEF Inv, TypeOK, Awaiting, Milestones, AwaitedLine, Own, Refusal, Milestone, Participant, Line

LEMMA AwaitedStays ==
  ASSUME UNCHANGED <<pc, aspect, class>>
  PROVE  AwaitedLine' = AwaitedLine
BY DEF AwaitedLine, Publisher, Participant, Line

LEMMA LogGrowsBy ==
  ASSUME Inv, WriterMove
  PROVE  /\ queue[1].lines[1] \in Lines
         /\ \/ log' = log
            \/ log' = Append(log, queue[1].lines[1])
<1>1. /\ queue[1].lines # <<>> /\ queue[1].lines \in Seq(Governance)
      /\ Head(queue[1].lines) \in Governance
  BY FirstOperation DEF WriterMove, WriterFrame
<1>2. queue[1].lines[1] \in Lines
  BY <1>1, OneOrMore DEF Governance
<1> QED
  BY <1>2 DEF WriterMove

LEMMA WriterOwnLines ==
  ASSUME Inv, OwnLinesOK, Writer
  PROVE  OwnLinesOK'
<1> DEFINE first == queue[1]
           head == first.lines[1]
<1>1. WriterMove
  BY WriterMoves
<1> PICK own : own = AwaitedLine
  OBVIOUS
<1>2. UNCHANGED <<pc, aspect, class>> /\ queue # <<>> /\ AwaitedLine' = own
  BY <1>1, AwaitedStays DEF WriterMove, WriterFrame
<1>3. /\ head \in Lines
      /\ \/ log' = log
         \/ log' = Append(log, head)
  BY <1>1, LogGrowsBy
<1>4. /\ \A l : InLog(l) => InLog(l)'
      /\ \A l : InLog(l)' => InLog(l) \/ (l = head /\ log' = Append(log, head))
  <2>1. CASE log' = log
    BY <2>1 DEF InLog
  <2>2. CASE log' = Append(log, head)
    BY <1>3, <2>2, InLogAppends DEF Inv, TypeOK
  <2> QED
    BY <1>3, <2>1, <2>2
<1>5. /\ queue \in Seq(Operations) /\ 1 \in DOMAIN queue
      /\ first \in Operations /\ first.lines \in Seq(Governance) /\ first.lines # <<>>
      /\ 1 \in DOMAIN first.lines /\ Len(first.lines) \in Nat
  <2>1. queue \in Seq(Operations)
    BY DEF Inv, TypeOK
  <2>2. 1 \in DOMAIN queue
    BY <1>2, <2>1, TailFacts
  <2>3. first \in Operations /\ first.lines \in Seq(Governance) /\ first.lines # <<>>
    BY <1>2, FirstOperation
  <2> QED
    BY <2>1, <2>2, <2>3, TailFacts
<1>6. /\ \A k \in DOMAIN first.lines : Own(first.lines[k]) =>
            /\ "driver" \in first.waiters /\ pc \in Awaiting
            /\ k = Len(first.lines) /\ first.lines[k] = own
      /\ "driver" \in first.waiters /\ pc \in Awaiting =>
            /\ ~first.doomed => first.lines[Len(first.lines)] = own
            /\ pc \in Milestones => ~InLog(own)
  BY <1>5 DEF OwnLinesOK
<1>7. pc \in Milestones => pc \in Awaiting /\ Milestone(own) /\ Own(own)
  BY AwaitedIsOwn DEF Milestones, Awaiting
<1>8. pc \in Awaiting /\ answer' = "ok" => InLog(own)'
  <2> SUFFICES ASSUME pc \in Awaiting, answer' = "ok" PROVE InLog(own)'
    OBVIOUS
  <2>1. pc \notin RelayWaits
    BY DEF Awaiting, Milestones, RelayWaits
  <2>2. CASE answer' = answer
    BY <1>2, <1>4, <2>2 DEF OwnLinesOK
  <2>3. CASE /\ "driver" \in first.waiters /\ log' = Append(log, head)
             /\ Len(first.lines) = 1 /\ ~first.doomed
    <3>1. head = own
      BY <1>6, <2>3
    <3> QED
      BY <1>2, <1>3, <2>3, <3>1, InLogAppends DEF Inv, TypeOK
  <2> QED
    BY <1>1, <2>1, <2>2, <2>3 DEF WriterMove
<1>9. CASE FirstGone
  <2> SUFFICES ASSUME NEW i \in DOMAIN queue'
               PROVE  /\ \A k \in DOMAIN queue'[i].lines : Own(queue'[i].lines[k]) =>
                            /\ "driver" \in queue'[i].waiters /\ pc \in Awaiting
                            /\ k = Len(queue'[i].lines) /\ queue'[i].lines[k] = own
                      /\ "driver" \in queue'[i].waiters /\ pc \in Awaiting =>
                            /\ ~queue'[i].doomed =>
                                  queue'[i].lines[Len(queue'[i].lines)] = own
                            /\ pc \in Milestones => ~InLog(own)'
    BY <1>2, <1>8 DEF OwnLinesOK
  <2>1. queue'[i] = queue[i + 1] /\ i + 1 \in DOMAIN queue /\ 1 < i + 1
    BY <1>2, <1>5, <1>9, TailFacts DEF FirstGone
  <2>2. "driver" \in queue[i + 1].waiters => "driver" \notin first.waiters
    BY <1>5, <2>1 DEF Inv, WaitersOK
  <2>3. "driver" \in queue[i + 1].waiters /\ pc \in Milestones => head # own
    BY <1>5, <1>6, <1>7, <2>2
  <2> QED
    BY <1>4, <1>7, <2>1, <2>3 DEF OwnLinesOK
<1>10. CASE /\ FirstGoesOn
            /\ \/ log' = log
               \/ Len(first.lines) > 1
               \/ head.type = "artifact"
  <2>1. PICK op \in Operations :
        /\ queue' = [queue EXCEPT ![1] = op]
        /\ op.waiters = first.waiters
        /\ \/ op = first
           \/ op.lines = Tail(first.lines) /\ Len(first.lines) > 1
              /\ op.doomed = first.doomed
           \/ /\ \E plugin \in Plugins :
                     op.doomed /\ op.lines = AspectFailure(plugin, "governance-storage")
              /\ first.lines[1].type = "artifact"
    BY <1>10 DEF FirstGoesOn
  <2>2. /\ DOMAIN queue' = DOMAIN queue
        /\ \A i \in DOMAIN queue : queue'[i] = IF i = 1 THEN op ELSE queue[i]
    BY <1>5, <2>1, ReplaceFacts
  <2>3. pc \in Milestones /\ "driver" \in first.waiters => ~InLog(own)'
    <3> SUFFICES ASSUME pc \in Milestones, head = own
                 PROVE  log' = log
      BY <1>4, <1>6, <1>7
    <3>1. Len(first.lines) = 1
      BY <1>5, <1>6, <1>7
    <3>2. head.type # "artifact"
      BY <1>7 DEF Milestone
    <3>3. ~(Len(first.lines) > 1)
      BY <1>5, <3>1
    <3> QED
      BY <1>10, <3>2, <3>3
  <2>4. \A i \in DOMAIN queue : "driver" \in queue[i].waiters /\ i # 1 =>
              "driver" \notin first.waiters /\ i > 1
    BY <1>5, LastOf DEF Inv, WaitersOK
  <2>5. ASSUME NEW i \in DOMAIN queue, "driver" \in queue[i].waiters, pc \in Milestones
        PROVE  ~InLog(own)'
    <3>1. CASE i = 1
      BY <2>3, <2>5, <3>1
    <3>2. CASE i # 1
      <4>1. head # own
        BY <1>5, <1>6, <1>7, <2>4, <2>5, <3>2
      <4> QED
        BY <1>4, <1>7, <2>5, <4>1 DEF OwnLinesOK
    <3> QED
      BY <3>1, <3>2
  <2>6. /\ \A k \in DOMAIN op.lines : Own(op.lines[k]) =>
              /\ "driver" \in op.waiters /\ pc \in Awaiting
              /\ k = Len(op.lines) /\ op.lines[k] = own
        /\ "driver" \in op.waiters /\ pc \in Awaiting /\ ~op.doomed =>
              op.lines[Len(op.lines)] = own
    <3>1. CASE op = first
      BY <1>6, <3>1
    <3>2. CASE op.lines = Tail(first.lines) /\ Len(first.lines) > 1 /\ op.doomed = first.doomed
      <4>1. /\ \A k \in DOMAIN op.lines :
                  op.lines[k] = first.lines[k + 1] /\ k + 1 \in DOMAIN first.lines /\ k \in Nat
            /\ Len(op.lines) = Len(first.lines) - 1
        BY <1>5, <3>2, TailFacts
      <4>2. op.lines[Len(op.lines)] = first.lines[Len(first.lines)]
        <5>1. op.lines \in Seq(Lines) /\ op.lines # <<>>
          BY <1>5, <3>2, <4>1 DEF Operations
        <5>2. Len(op.lines) \in DOMAIN op.lines
          BY <5>1, LastOf
        <5> QED
          BY <1>5, <4>1, <5>2
      <4> QED
        BY <1>5, <1>6, <2>1, <3>2, <4>1, <4>2
    <3>3. CASE \E plugin \in Plugins :
                  op.doomed /\ op.lines = AspectFailure(plugin, "governance-storage")
      <4>1. PICK plugin \in Plugins :
               op.doomed /\ op.lines = AspectFailure(plugin, "governance-storage")
        BY <3>3
      <4>2. ~Own(Line("observer.failed", plugin, "governance-storage"))
        BY DEF Own, Refusal, Line
      <4>3. \A k \in DOMAIN op.lines :
               op.lines[k] = Line("observer.failed", plugin, "governance-storage")
        BY <4>1 DEF AspectFailure
      <4> QED
        BY <4>1, <4>2, <4>3
    <3> QED
      BY <2>1, <3>1, <3>2, <3>3
  <2>7. ASSUME NEW i \in DOMAIN queue'
        PROVE  /\ \A k \in DOMAIN queue'[i].lines : Own(queue'[i].lines[k]) =>
                     /\ "driver" \in queue'[i].waiters /\ pc \in Awaiting
                     /\ k = Len(queue'[i].lines) /\ queue'[i].lines[k] = own
               /\ "driver" \in queue'[i].waiters /\ pc \in Awaiting =>
                     /\ ~queue'[i].doomed =>
                           queue'[i].lines[Len(queue'[i].lines)] = own
                     /\ pc \in Milestones => ~InLog(own)'
    <3>1. CASE i = 1
      BY <1>5, <2>1, <2>2, <2>3, <2>6, <3>1
    <3>2. CASE i # 1
      <4>1. queue'[i] = queue[i] /\ i \in DOMAIN queue
        BY <2>2, <2>7, <3>2
      <4> QED
        BY <2>5, <4>1 DEF OwnLinesOK
    <3> QED
      BY <3>1, <3>2
  <2> QED
    BY <1>2, <1>8, <2>7 DEF OwnLinesOK
<1> QED
  BY <1>1, <1>9, <1>10 DEF WriterMove

(* An own line that is written is the awaited one.                           *)
LEMMA AwaitedFacts ==
  ASSUME Inv, ScriptOK, pc \in Awaiting
  PROVE  /\ aspect \in 0 .. Len(Aspects) /\ AwaitedLine.plugin = PublisherAt(aspect)
         /\ pc \notin Early(AwaitedLine)
         /\ Milestone(AwaitedLine) => pc \in Milestones
         /\ AwaitedLine = Participant(Primary, "failed") => pc = "rejected"
         /\ AwaitedLine.type = "artifact" => pc = "registering"
         /\ Refusal(AwaitedLine) => pc = "aspect-failed"
         /\ \A p \in Plugins \ {Primary} :
               AwaitedLine = Participant(p, "completed") => pc = "aspect-completed" /\ Publisher = p
<1>1. pc \in {"domain-completed", "rejected", "aspect-started", "aspect-completed",
              "registering", "aspect-failed"}
  BY DEF Awaiting, Milestones
<1>2. aspect \in 0 .. Len(Aspects)
  <2>1. aspect <= Len(Aspects) /\ aspect \in 0 .. Len(Aspects) + 1 /\ Len(Aspects) \in Nat
    BY <1>1, AspectsAssumption DEF Inv, PhaseOK, PublisherSteps, ScriptOK, TypeOK
  <2> QED
    BY <2>1
<1>3. Publisher = PublisherAt(aspect)
  BY DEF Publisher, PublisherAt
<1>4. CASE pc = "domain-completed"
  BY <1>2, <1>4 DEF ScriptOK, AwaitedLine, Participant, Line, PublisherAt, Early, Before,
                    Milestone, Milestones, Refusal
<1>5. CASE pc = "rejected"
  BY <1>2, <1>5 DEF ScriptOK, AwaitedLine, Participant, Line, PublisherAt, Early, Before,
                    Milestone, Milestones, Refusal
<1>6. CASE pc = "aspect-started"
  BY <1>2, <1>3, <1>6 DEF AwaitedLine, Participant, Line, Early, Before,
                    Milestone, Milestones, Refusal
<1>7. CASE pc = "aspect-completed"
  BY <1>2, <1>3, <1>7 DEF AwaitedLine, Participant, Line, Early, Before,
                    Milestone, Milestones, Refusal
<1>8. CASE pc = "registering"
  BY <1>2, <1>3, <1>8 DEF AwaitedLine, Participant, Line, Early, Before,
                    Milestone, Milestones, Refusal
<1>9. CASE pc = "aspect-failed"
  BY <1>2, <1>3, <1>9 DEF AwaitedLine, Participant, Line, Early, Before,
                    Milestone, Milestones, Refusal
<1> QED
  BY <1>1, <1>4, <1>5, <1>6, <1>7, <1>8, <1>9

LEMMA AspectIsPlugin ==
  ASSUME NEW k \in DOMAIN Aspects
  PROVE  /\ Aspects[k] \in Plugins \ {Primary} /\ k \in 1 .. Len(Aspects)
         /\ PublisherAt(k) = Aspects[k]
BY AspectsAssumption, PrimaryAssumption DEF Plugins, AspectSet, PublisherAt

LEMMA WriterLog ==
  ASSUME Inv, ScriptOK, OwnLinesOK, LogOK, Writer
  PROVE  LogOK'
<1> DEFINE head == queue[1].lines[1]
           n == Len(log) + 1
<1>1. WriterMove
  BY WriterMoves
<1>2. UNCHANGED <<pc, aspect, class, fault, Publisher>> /\ queue # <<>>
  BY <1>1 DEF WriterMove, WriterFrame, Publisher
<1>3. head \in Lines /\ (log' = log \/ log' = Append(log, head))
  BY <1>1, LogGrowsBy
<1>4. pc = "aspect-threw" /\ rejected /\ answer # "ok" => rejected' /\ answer' # "ok" /\ log' = log
  BY <1>1 DEF WriterMove, WriterFrame, RelayWaits
<1>5. CASE log' = log
  BY <1>2, <1>4, <1>5
     DEF LogOK, NotEarly, OnceEach, StartedFirst, TurnsLeft, RefusalsOK, InLog,
         RefusedBatchesLeaveNothing
<1>6. CASE log' = Append(log, head)
  <2>1. /\ n \in DOMAIN log' /\ log'[n] = head
        /\ \A i \in DOMAIN log : i \in DOMAIN log' /\ log'[i] = log[i] /\ i < n
        /\ \A i \in DOMAIN log' : i \in DOMAIN log \/ i = n
    BY <1>3, <1>6, LogAppends DEF Inv, TypeOK
  <2>2. \A l : InLog(l)' <=> InLog(l) \/ l = head
    BY <1>3, <1>6, InLogAppends DEF Inv, TypeOK
  <2>3. Own(head) => /\ pc \in Awaiting /\ head = AwaitedLine
                     /\ pc \in Milestones => ~InLog(head)
    <3>1. /\ queue \in Seq(Operations) /\ 1 \in DOMAIN queue
          /\ queue[1].lines \in Seq(Governance) /\ queue[1].lines # <<>>
      BY <1>2, FirstOperation, TailFacts DEF Inv, TypeOK
    <3>2. 1 \in DOMAIN queue[1].lines
      BY <3>1, TailFacts
    <3> QED
      BY <3>1, <3>2 DEF OwnLinesOK
  <2>4. Own(head) =>
          /\ aspect \in 0 .. Len(Aspects) /\ head.plugin = PublisherAt(aspect)
          /\ pc \notin Early(head)
          /\ Milestone(head) => ~InLog(head)
          /\ head = Participant(Primary, "failed") => pc = "rejected"
          /\ head.type = "artifact" => pc = "registering"
          /\ Refusal(head) => pc = "aspect-failed"
          /\ \A p \in Plugins \ {Primary} :
               head = Participant(p, "completed") => pc = "aspect-completed" /\ Publisher = p
    BY <2>3, AwaitedFacts
  <2> HIDE DEF head, n
  <2>5. NotEarly'
    <3> SUFFICES ASSUME NEW i \in DOMAIN log', NEW k \in 0 .. Len(Aspects),
                        Own(log'[i]), log'[i].plugin = PublisherAt(k)
                 PROVE  k < aspect \/ (k = aspect /\ pc \notin Early(log'[i]))
      BY <1>2 DEF NotEarly, Own, Refusal, Early
    <3>1. CASE i \in DOMAIN log
      BY <2>1, <3>1 DEF LogOK, NotEarly
    <3>2. CASE i = n
      BY <2>1, <2>4, <3>2, OnePlace
    <3> QED
      BY <2>1, <3>1, <3>2
  <2>6. OnceEach'
    <3> SUFFICES ASSUME NEW i \in DOMAIN log', NEW j \in DOMAIN log',
                        Milestone(log'[i]), log'[i] = log'[j]
                 PROVE  i = j
      BY DEF OnceEach, Milestone
    <3>1. Milestone(head) => Own(head) /\ ~InLog(head)
      BY <2>4 DEF Milestone, Own
    <3> QED
      BY <2>1, <3>1 DEF LogOK, OnceEach, InLog
  <2>7. StartedFirst'
    <3> SUFFICES ASSUME NEW j \in DOMAIN log', NEW k \in DOMAIN Aspects,
                        log'[j] = Participant(Aspects[k], "completed")
                 PROVE  \E i \in DOMAIN log' : i < j /\ log'[i] = Participant(Aspects[k], "started")
      BY DEF StartedFirst, Participant, Line
    <3>1. CASE j \in DOMAIN log
      BY <2>1, <3>1 DEF LogOK, StartedFirst
    <3>2. CASE j = n
      <4>1. head = Participant(Aspects[k], "completed")
        BY <2>1, <3>2
      <4>2. Own(head) /\ pc = "aspect-completed" /\ Publisher = Aspects[k]
        BY <2>4, <4>1, AspectIsPlugin DEF Own, Participant, Line
      <4>3. aspect >= 1
        BY <4>2 DEF ScriptOK, AspectSteps
      <4>4. InLog(Participant(Aspects[k], "started"))
        BY <4>2, <4>3 DEF LogOK, TurnsLeft, Turn
      <4> QED
        BY <2>1, <3>2, <4>4 DEF InLog
    <3> QED
      BY <2>1, <3>1, <3>2
  <2>8. TurnsLeft'
    <3>1. pc' \in Turn /\ aspect' >= 1 => InLog(Participant(Publisher, "started"))'
      BY <1>2, <2>2 DEF LogOK, TurnsLeft, Participant, Line
    <3>2. ASSUME NEW k \in DOMAIN Aspects, k < aspect', Aspects[k] \in Phased
          PROVE  \/ InLog(Participant(Aspects[k], "completed"))'
                 \/ \E i \in DOMAIN log' :
                       log'[i].type = "observer.failed" /\ log'[i].plugin = Aspects[k]
      <4>1. k < aspect
        BY <1>2, <3>2
      <4>2. CASE InLog(Participant(Aspects[k], "completed"))
        BY <2>2, <4>2 DEF Participant, Line
      <4>3. CASE \E i \in DOMAIN log : log[i].type = "observer.failed" /\ log[i].plugin = Aspects[k]
        BY <2>1, <4>3
      <4> QED
        BY <3>2, <4>1, <4>2, <4>3 DEF LogOK, TurnsLeft
    <3>3. aspect' >= 1 /\ fault' = "none" => InLog(Participant(Primary, "completed"))'
      BY <1>2, <2>2 DEF LogOK, TurnsLeft, Participant, Line
    <3>4. InLog(Participant(Primary, "failed"))' => fault' # "none"
      <4>1. CASE head = Participant(Primary, "failed")
        <5>1. pc = "rejected"
          BY <2>4, <4>1 DEF Own, Participant, Line
        <5> QED
          BY <1>2, <5>1 DEF ScriptOK
      <4>2. CASE head # Participant(Primary, "failed")
        BY <1>2, <2>2, <4>2 DEF LogOK, TurnsLeft, Participant, Line
      <4> QED
        BY <4>1, <4>2
    <3> QED
      BY <3>1, <3>2, <3>3, <3>4 DEF TurnsLeft, Participant, Line
  <2>9. RefusalsOK'
    <3>1. RefusedBatchesLeaveNothing'
      <4> SUFFICES ASSUME NEW i \in DOMAIN log', NEW j \in DOMAIN log',
                          Refusal(log'[i]), log'[j].type = "artifact",
                          log'[i].plugin = log'[j].plugin
                   PROVE  FALSE
        BY DEF RefusedBatchesLeaveNothing, Refusal
      <4>1. CASE i \in DOMAIN log /\ j \in DOMAIN log
        BY <2>1, <4>1 DEF LogOK, RefusalsOK, RefusedBatchesLeaveNothing, Refusal
      <4>2. CASE i = n /\ j \in DOMAIN log
        <5>1. Refusal(head) /\ log[j].type = "artifact" /\ head.plugin = log[j].plugin
          BY <2>1, <4>2
        <5>2. pc = "aspect-failed" /\ head.plugin = Publisher
          BY <2>4, <5>1 DEF Own, Publisher, PublisherAt
        <5> QED
          BY <4>2, <5>1, <5>2 DEF LogOK, RefusalsOK
      <4>3. CASE i \in DOMAIN log /\ j = n
        <5>1. head.type = "artifact" /\ Refusal(log[i]) /\ log[i].plugin = head.plugin
          BY <2>1, <4>3
        <5>2. /\ pc = "registering" /\ log[i].plugin = PublisherAt(aspect)
              /\ aspect \in 0 .. Len(Aspects)
          BY <2>4, <5>1 DEF Own
        <5>3. pc \in Early(log[i])
          BY <5>1, <5>2 DEF Early, Refusal
        <5>4. ~(aspect < aspect)
          BY <5>2
        <5> QED
          BY <4>3, <5>1, <5>2, <5>3, <5>4 DEF LogOK, NotEarly, Own
      <4>4. CASE i = n /\ j = n
        BY <2>1, <4>4 DEF Refusal
      <4> QED
        BY <2>1, <4>1, <4>2, <4>3, <4>4
    <3>2. ASSUME pc' \in {"aspect-threw", "aspect-failed"}
          PROVE  \/ \A i \in DOMAIN log' : log'[i].type = "artifact" => log'[i].plugin # Publisher'
                 \/ pc' = "aspect-threw" /\ rejected' /\ answer' # "ok"
      <4>1. head.type # "artifact"
        BY <1>2, <2>4, <3>2 DEF Own
      <4>2. CASE \A i \in DOMAIN log : log[i].type = "artifact" => log[i].plugin # Publisher
        BY <1>2, <2>1, <4>1, <4>2
      <4>3. CASE pc = "aspect-threw" /\ rejected /\ answer # "ok"
        BY <1>2, <1>4, <4>3
      <4> QED
        BY <1>2, <3>2, <4>2, <4>3 DEF LogOK, RefusalsOK
    <3> QED
      BY <3>1, <3>2 DEF RefusalsOK
  <2> QED
    BY <2>5, <2>6, <2>7, <2>8, <2>9 DEF LogOK
<1> QED
  BY <1>3, <1>5, <1>6

-----------------------------------------------------------------------------
(* A step of the driver that writes an own line awaits it, and only then.    *)
SpeaksOwn ==
    \E lines \in Seq(Lines) \ {<<>>} :
        /\ Enqueue(lines, "driver") /\ pc' \in Awaiting /\ answer' = "none"
        /\ \A k \in DOMAIN lines : Own(lines[k]) => k = Len(lines)
        /\ lines[Len(lines)] = AwaitedLine'
        /\ pc' \in Milestones => ~InLog(AwaitedLine')
        /\ log' = log

SaysNothing ==
    \/ queue' = queue
    \/ \E step \in QueueWaits : AwaitWrites(step)
    \/ \E lines \in Seq(Lines) \ {<<>>}, waiter \in {"driver", "link"} :
          /\ Enqueue(lines, waiter)
          /\ \A k \in DOMAIN lines : ~Own(lines[k])

LEMMA NoOwnLines ==
  ASSUME OwnLinesOK, NobodyWaits
  PROVE  \A i \in DOMAIN queue : /\ \A k \in DOMAIN queue[i].lines : ~Own(queue[i].lines[k])
                                 /\ "driver" \notin queue[i].waiters
BY DEF OwnLinesOK, NobodyWaits

LEMMA EnqueueFacts ==
  ASSUME queue \in Seq(Operations), NEW lines \in Seq(Lines), NEW waiter \in {"driver", "link"},
         Enqueue(lines, waiter), flushed \in BOOLEAN
  PROVE  \A i \in DOMAIN queue' :
            \/ i \in DOMAIN queue /\ queue'[i] = queue[i]
            \/ /\ queue'[i].lines = lines /\ queue'[i].waiters = {waiter}
               /\ i \notin DOMAIN queue
<1> DEFINE op == [lines |-> lines, waiters |-> {waiter}, due |-> ~flushed, doomed |-> FALSE]
<1>1. op \in Operations /\ queue' = Append(queue, op)
  BY DEF Enqueue, Operations
<1>2. op.lines = lines /\ op.waiters = {waiter}
  OBVIOUS
<1> HIDE DEF op
<1>3. /\ DOMAIN queue' = 1 .. Len(queue) + 1
      /\ queue'[Len(queue) + 1] = op
      /\ \A i \in DOMAIN queue : queue'[i] = queue[i]
      /\ DOMAIN queue = 1 .. Len(queue) /\ Len(queue) \in Nat
  BY <1>1, AppendFacts
<1>4. \A i \in DOMAIN queue' :
         i \in DOMAIN queue \/ (i = Len(queue) + 1 /\ i \notin DOMAIN queue)
  BY <1>3
<1> QED
  BY <1>2, <1>3, <1>4

LEMMA SpeaksOwnKeeps ==
  ASSUME Inv, OwnLinesOK, NobodyWaits, SpeaksOwn
  PROVE  OwnLinesOK'
<1>1. PICK lines \in Seq(Lines) \ {<<>>} :
        /\ Enqueue(lines, "driver") /\ pc' \in Awaiting /\ answer' = "none"
        /\ \A k \in DOMAIN lines : Own(lines[k]) => k = Len(lines)
        /\ lines[Len(lines)] = AwaitedLine'
        /\ pc' \in Milestones => ~InLog(AwaitedLine')
        /\ log' = log
  BY DEF SpeaksOwn
<1> PICK own : own = AwaitedLine'
  OBVIOUS
<1>2. pc' \in Milestones => ~InLog(own)'
  BY <1>1 DEF InLog
<1>3. \A i \in DOMAIN queue' :
         \/ i \in DOMAIN queue /\ queue'[i] = queue[i]
         \/ /\ queue'[i].lines = lines /\ queue'[i].waiters = {"driver"}
            /\ i \notin DOMAIN queue
  BY <1>1, EnqueueFacts DEF Inv, TypeOK
<1>4. \A i \in DOMAIN queue : /\ \A k \in DOMAIN queue[i].lines : ~Own(queue[i].lines[k])
                              /\ "driver" \notin queue[i].waiters
  BY NoOwnLines
<1>5. ASSUME NEW i \in DOMAIN queue'
      PROVE  /\ \A k \in DOMAIN queue'[i].lines : Own(queue'[i].lines[k]) =>
                   /\ "driver" \in queue'[i].waiters /\ pc' \in Awaiting
                   /\ k = Len(queue'[i].lines) /\ queue'[i].lines[k] = own
             /\ "driver" \in queue'[i].waiters /\ pc' \in Awaiting =>
                   /\ ~queue'[i].doomed =>
                         queue'[i].lines[Len(queue'[i].lines)] = own
                   /\ pc' \in Milestones => ~InLog(own)'
  <2>1. CASE i \in DOMAIN queue /\ queue'[i] = queue[i]
    BY <1>4, <2>1
  <2>2. CASE queue'[i].lines = lines /\ queue'[i].waiters = {"driver"}
    BY <1>1, <1>2, <2>2
  <2> QED
    BY <1>3, <2>1, <2>2
<1> QED
  BY <1>1, <1>5 DEF OwnLinesOK

LEMMA SaysNothingKeeps ==
  ASSUME Inv, OwnLinesOK, NobodyWaits, SaysNothing, pc' \notin Awaiting
  PROVE  OwnLinesOK'
<1>1. \A i \in DOMAIN queue : \A k \in DOMAIN queue[i].lines : ~Own(queue[i].lines[k])
  BY NoOwnLines
<1>2. SUFFICES \A i \in DOMAIN queue' : \A k \in DOMAIN queue'[i].lines : ~Own(queue'[i].lines[k])
  BY DEF OwnLinesOK, Own, Refusal
<1>3. CASE queue' = queue
  BY <1>1, <1>3
<1>4. ASSUME NEW step \in QueueWaits, AwaitWrites(step), queue # <<>>
      PROVE  \A i \in DOMAIN queue' : \A k \in DOMAIN queue'[i].lines : ~Own(queue'[i].lines[k])
  <2> DEFINE n == Len(queue)
             op == [queue[n] EXCEPT !.waiters = @ \cup {"driver"}]
  <2>1. queue' = [queue EXCEPT ![n] = op]
    BY <1>4 DEF AwaitWrites
  <2>2. queue \in Seq(Operations) /\ n \in DOMAIN queue
    BY <1>4, LastOf DEF Inv, TypeOK
  <2>3. queue[n] \in Operations
    BY <2>2
  <2>4. op \in Operations /\ op.lines = queue[n].lines
    BY <2>3 DEF Operations
  <2> HIDE DEF op, n
  <2>5. /\ DOMAIN queue' = DOMAIN queue
        /\ \A i \in DOMAIN queue : queue'[i] = IF i = n THEN op ELSE queue[i]
    BY <2>1, <2>2, <2>4, ReplaceFacts
  <2> QED
    BY <1>1, <2>2, <2>4, <2>5
<1>5. ASSUME NEW step \in QueueWaits, AwaitWrites(step), queue = <<>>
      PROVE  queue' = queue
  BY <1>5 DEF AwaitWrites
<1>6. ASSUME NEW lines \in Seq(Lines) \ {<<>>}, NEW waiter \in {"driver", "link"},
             Enqueue(lines, waiter), \A k \in DOMAIN lines : ~Own(lines[k])
      PROVE  \A i \in DOMAIN queue' : \A k \in DOMAIN queue'[i].lines : ~Own(queue'[i].lines[k])
  BY <1>1, <1>6, EnqueueFacts DEF Inv, TypeOK
<1> QED
  BY <1>3, <1>4, <1>5, <1>6 DEF SaysNothing

(* While the driver waits, reports are enqueued and come in.                 *)
LEMMA RelaySpeaks ==
  ASSUME Inv, ScriptOK, OwnLinesOK, LogOK,
         StartLink \/ \E plugin \in Plugins : ExtensionReports(plugin)
  PROVE  ScriptOK' /\ OwnLinesOK' /\ LogOK'
<1>1. UNCHANGED <<pc, aspect, class, fault, answer, rejected, log>>
  BY DEF StartLink, ExtensionReports, driverVars, writerVars, recordVars
<1> PICK own : own = AwaitedLine
  OBVIOUS
<1>2. AwaitedLine' = own /\ Publisher' = Publisher
  BY <1>1, AwaitedStays DEF Publisher
<1>3. ScriptOK' /\ LogOK'
  BY <1>1, <1>2 DEF ScriptOK, LogOK, NotEarly, OnceEach, StartedFirst, TurnsLeft, RefusalsOK,
                    InLog, RefusedBatchesLeaveNothing
<1>4. /\ \A l : InLog(l)' <=> InLog(l)
      /\ pc' \in Awaiting /\ answer' = "ok" => InLog(own)'
  BY <1>1 DEF OwnLinesOK, InLog
<1>5. CASE queue' = queue
  BY <1>1, <1>2, <1>3, <1>4, <1>5 DEF OwnLinesOK
<1>6. CASE StartLink
  <2> DEFINE report == observations[1]
             lines == Observation(report.event, report.plugin)
  <2>1. Enqueue(lines, "link") /\ report \in Links
    BY <1>6, TailFacts DEF StartLink, Inv, TypeOK
  <2>2. /\ report.event \in {"started", "shutdown", "aspect-error", "extension-error"}
        /\ report.plugin \in Plugins
    BY <2>1 DEF Links
  <2>3. lines \in Seq(Governance) \ {<<>>}
    BY <2>2, ObservationLines
  <2>4. lines \in Seq(Lines)
    BY <2>3 DEF Governance
  <2>5. \A k \in DOMAIN lines : ~Own(lines[k])
    <3>1. CASE report.event = "aspect-error"
      <4>1. lines = <<Line("runtime.pi", report.plugin, "aspect-error")>>
                      \o <<Line("observer.failed", report.plugin, "native-hook")>>
        BY <3>1 DEF Observation
      <4> QED
        BY <4>1 DEF Own, Refusal, Line
    <3>2. CASE report.event # "aspect-error"
      <4>1. lines = <<Line("runtime.pi", report.plugin, report.event)>> \o <<>>
        BY <2>2, <3>2 DEF Observation
      <4> QED
        BY <4>1 DEF Own, Refusal, Line
    <3> QED
      BY <3>1, <3>2
  <2> HIDE DEF lines
  <2>6. \A i \in DOMAIN queue' :
            \/ i \in DOMAIN queue /\ queue'[i] = queue[i]
            \/ queue'[i].lines = lines /\ queue'[i].waiters = {"link"}
    BY <2>1, <2>4, EnqueueFacts DEF Inv, TypeOK
  <2>7. ASSUME NEW i \in DOMAIN queue'
        PROVE  /\ \A k \in DOMAIN queue'[i].lines : Own(queue'[i].lines[k]) =>
                     /\ "driver" \in queue'[i].waiters /\ pc \in Awaiting
                     /\ k = Len(queue'[i].lines) /\ queue'[i].lines[k] = own
               /\ "driver" \in queue'[i].waiters /\ pc \in Awaiting =>
                     /\ ~queue'[i].doomed =>
                           queue'[i].lines[Len(queue'[i].lines)] = own
                     /\ pc \in Milestones => ~InLog(own)'
    <3>1. CASE i \in DOMAIN queue /\ queue'[i] = queue[i]
      BY <1>4, <3>1 DEF OwnLinesOK
    <3>2. CASE queue'[i].lines = lines /\ queue'[i].waiters = {"link"}
      BY <2>5, <3>2
    <3> QED
      BY <2>6, <3>1, <3>2
  <2> QED
    BY <1>1, <1>2, <1>3, <1>4, <2>7 DEF OwnLinesOK
<1> QED
  BY <1>3, <1>5, <1>6 DEF ExtensionReports, writerVars

-----------------------------------------------------------------------------
(* The log as the driver goes on from step to step and from turn to turn.    *)
QuietLog == log' = log \/ \E line \in Lines : ~Own(line) /\ log' = Append(log, line)

LEMMA QuietLogKeeps ==
  ASSUME Inv, QuietLog
  PROVE  /\ \A i \in DOMAIN log : i \in DOMAIN log' /\ log'[i] = log[i]
         /\ \A i \in DOMAIN log' : Own(log'[i]) => i \in DOMAIN log /\ log'[i] = log[i]
<1>1. CASE log' = log
  BY <1>1
<1>2. ASSUME NEW line \in Lines, ~Own(line), log' = Append(log, line)
      PROVE  /\ \A i \in DOMAIN log : i \in DOMAIN log' /\ log'[i] = log[i]
             /\ \A i \in DOMAIN log' : Own(log'[i]) => i \in DOMAIN log /\ log'[i] = log[i]
  BY <1>2, LogAppends DEF Inv, TypeOK
<1> QED
  BY <1>1, <1>2 DEF QuietLog

\* The steps of one turn, in order.
TurnSteps ==
    {<<"aspect-started", "after-run">>, <<"after-run", "publish">>, <<"after-run", "aspect-threw">>,
     <<"publish", "register">>, <<"publish", "aspect-threw">>, <<"register", "registering">>,
     <<"registering", "register">>, <<"registering", "aspect-threw">>,
     <<"register", "aspect-completed">>, <<"aspect-threw", "aspect-failed">>}

\* The steps that no line has to wait for.
AnyTime == DriverSteps \ (Before \cup AspectSteps \cup Turn)

LEMMA EarlyBack ==
  ASSUME NEW line, NEW from, NEW to, to \in Early(line),
         from \in Before \/ to \in AnyTime \/ <<from, to>> \in TurnSteps
  PROVE  from \in Early(line)
<1>1. CASE from \in Before
  BY <1>1 DEF Early
<1>2. to \notin AnyTime
  BY DEF Early, AnyTime, Before, AspectSteps, Turn
<1>3. CASE <<from, to>> \in TurnSteps
  <2>1. CASE line.type = "artifact"
    BY <1>3, <2>1 DEF TurnSteps, Early, Before
  <2>2. CASE line.type = "observer.failed"
    BY <1>3, <2>2 DEF TurnSteps, Early, Before
  <2>3. CASE line.type = "participant" /\ line.detail = "completed"
    BY <1>3, <2>3 DEF TurnSteps, Early, Before
  <2>4. CASE /\ line.type \notin {"artifact", "observer.failed"}
             /\ ~(line.type = "participant" /\ line.detail = "completed")
    BY <1>3, <2>4 DEF TurnSteps, Early, Before
  <2> QED
    BY <2>1, <2>2, <2>3, <2>4
<1> QED
  BY <1>1, <1>2, <1>3

TurnOver(plugin) ==
    \/ InLog(Participant(plugin, "completed"))
    \/ \E i \in DOMAIN log : log[i].type = "observer.failed" /\ log[i].plugin = plugin

LEMMA TurnsGoOn ==
  ASSUME Inv, LogOK, QuietLog, aspect' \in Nat,
         \/ aspect' = aspect /\ (pc \in Before \/ pc' \in AnyTime \/ <<pc, pc'>> \in TurnSteps)
         \/ aspect' = aspect + 1 /\ (aspect >= 1 /\ Publisher \in Phased => TurnOver(Publisher)),
         fault' = "none" => fault = "none",
         aspect = 0 /\ aspect' # 0 /\ fault' = "none" => InLog(Participant(Primary, "completed")),
         pc' \in Turn /\ aspect' >= 1 =>
            aspect' = aspect /\ (pc \in Turn \/ InLog(Participant(Publisher, "started"))),
         pc' \in {"aspect-threw", "aspect-failed"} =>
            /\ aspect' = aspect
            /\ \/ \A i \in DOMAIN log : log[i].type = "artifact" => log[i].plugin # Publisher
               \/ pc' = "aspect-threw" /\ rejected' /\ answer' # "ok"
  PROVE  LogOK'
<1>1. /\ \A i \in DOMAIN log : i \in DOMAIN log' /\ log'[i] = log[i]
      /\ \A i \in DOMAIN log' : Own(log'[i]) => i \in DOMAIN log /\ log'[i] = log[i]
  BY QuietLogKeeps
<1>2. /\ \A l : InLog(l) => InLog(l)'
      /\ \A l : Own(l) /\ InLog(l)' => InLog(l)
  BY <1>1 DEF InLog
<1>3. aspect \in Nat /\ DOMAIN Aspects = 1 .. Len(Aspects) /\ Len(Aspects) \in Nat
  BY AspectsAssumption DEF Inv, TypeOK
<1>4. NotEarly'
  <2> SUFFICES ASSUME NEW i \in DOMAIN log', NEW k \in 0 .. Len(Aspects),
                      Own(log'[i]), log'[i].plugin = PublisherAt(k)
               PROVE  k < aspect' \/ (k = aspect' /\ pc' \notin Early(log'[i]))
    BY DEF NotEarly, Own, Refusal, Early
  <2>1. i \in DOMAIN log /\ log'[i] = log[i]
    BY <1>1
  <2>2. k < aspect \/ (k = aspect /\ pc \notin Early(log[i]))
    BY <2>1 DEF LogOK, NotEarly
  <2>3. CASE aspect' = aspect /\ (pc \in Before \/ pc' \in AnyTime \/ <<pc, pc'>> \in TurnSteps)
    BY <2>1, <2>2, <2>3, EarlyBack
  <2>4. CASE aspect' = aspect + 1
    BY <1>3, <2>2, <2>4
  <2> QED
    BY <2>3, <2>4
<1>5. OnceEach'
  BY <1>1 DEF LogOK, OnceEach, Milestone, Own
<1>6. StartedFirst'
  <2> SUFFICES ASSUME NEW j \in DOMAIN log', NEW k \in DOMAIN Aspects,
                      log'[j] = Participant(Aspects[k], "completed")
               PROVE  \E i \in DOMAIN log' : i < j /\ log'[i] = Participant(Aspects[k], "started")
    BY DEF StartedFirst, Participant, Line
  <2>1. j \in DOMAIN log /\ log'[j] = log[j]
    BY <1>1 DEF Own, Participant, Line
  <2>2. PICK i \in DOMAIN log : i < j /\ log[i] = Participant(Aspects[k], "started")
    BY <2>1 DEF LogOK, StartedFirst
  <2> QED
    BY <1>1, <2>2
<1>7. TurnsLeft'
  <2>1. ASSUME pc' \in Turn, aspect' >= 1
        PROVE  InLog(Participant(Publisher, "started"))'
    <3>1. Publisher' = Publisher /\ aspect >= 1
      BY <2>1 DEF Publisher
    <3>2. InLog(Participant(Publisher, "started"))
      BY <2>1, <3>1 DEF LogOK, TurnsLeft
    <3> QED
      BY <1>1, <3>1, <3>2 DEF InLog, Participant, Line
  <2>2. ASSUME NEW k \in DOMAIN Aspects, k < aspect', Aspects[k] \in Phased
        PROVE  \/ InLog(Participant(Aspects[k], "completed"))'
               \/ \E i \in DOMAIN log' :
                     log'[i].type = "observer.failed" /\ log'[i].plugin = Aspects[k]
    <3>1. CASE k < aspect
      <4>1. TurnOver(Aspects[k])
        BY <2>2, <3>1 DEF LogOK, TurnsLeft, TurnOver
      <4> QED
        BY <1>1, <4>1 DEF TurnOver, InLog, Participant, Line
    <3>2. CASE ~(k < aspect)
      <4>1. k = aspect /\ aspect >= 1 /\ aspect' = aspect + 1
        BY <1>3, <2>2, <3>2
      <4>2. Publisher = Aspects[k]
        BY <1>3, <4>1 DEF Publisher
      <4>3. TurnOver(Aspects[k])
        BY <1>3, <2>2, <4>1, <4>2
      <4> QED
        BY <1>1, <4>3 DEF TurnOver, InLog, Participant, Line
    <3> QED
      BY <3>1, <3>2
  <2>3. aspect' >= 1 /\ fault' = "none" => InLog(Participant(Primary, "completed"))'
    <3> SUFFICES ASSUME aspect' >= 1, fault' = "none"
                 PROVE  InLog(Participant(Primary, "completed"))'
      OBVIOUS
    <3>1. InLog(Participant(Primary, "completed"))
      BY <1>3 DEF LogOK, TurnsLeft
    <3> QED
      BY <1>1, <3>1 DEF InLog, Participant, Line
  <2>4. InLog(Participant(Primary, "failed"))' => fault' # "none"
    <3>1. InLog(Participant(Primary, "failed"))' => InLog(Participant(Primary, "failed"))
      BY <1>1 DEF InLog, Participant, Line, Own
    <3> QED
      BY <3>1 DEF LogOK, TurnsLeft
  <2> QED
    BY <2>1, <2>2, <2>3, <2>4 DEF TurnsLeft, Participant, Line
<1>8. RefusalsOK'
  <2>1. RefusedBatchesLeaveNothing'
    BY <1>1 DEF LogOK, RefusalsOK, RefusedBatchesLeaveNothing, Own, Refusal
  <2>2. ASSUME pc' \in {"aspect-threw", "aspect-failed"}
        PROVE  \/ \A i \in DOMAIN log' : log'[i].type = "artifact" => log'[i].plugin # Publisher'
               \/ pc' = "aspect-threw" /\ rejected' /\ answer' # "ok"
    <3>1. Publisher' = Publisher
      BY <2>2 DEF Publisher
    <3> QED
      BY <1>1, <2>2, <3>1 DEF Own
  <2> QED
    BY <2>1, <2>2 DEF RefusalsOK
<1> QED
  BY <1>4, <1>5, <1>6, <1>7, <1>8 DEF LogOK

-----------------------------------------------------------------------------
Told == ScriptOK /\ OwnLinesOK /\ LogOK

(* The steps that open and close the native session, and end it.             *)
PlainMove ==
    /\ aspect' = aspect /\ SaysNothing /\ QuietLog
    /\ pc \notin QueueWaits \cup RelayWaits \/ answer # "none"
    /\ fault' = "none" => fault = "none"
    /\ \/ pc \in Before \ {"aspects"} /\ pc' \in (Before \ {"aspects"}) \cup {"catch"}
       \/ pc \in Ending /\ pc' \in Ending \cup {"catch"}
       \/ pc = "catch" /\ fault # "none" /\ pc' \in Ending
       \/ pc = "aspects" /\ aspect > Len(Aspects) /\ pc' = "drain"

LEMMA PlainKeeps ==
  ASSUME Inv, Told, PlainMove
  PROVE  Told'
<1>1. /\ pc' \notin Awaiting /\ pc' \notin Turn
      /\ pc' \notin {"aspect-threw", "aspect-failed"}
      /\ pc' \in AnyTime \/ pc \in Before
  BY DEF PlainMove, Before, Ending, Settled, Awaiting, Milestones, Turn, AnyTime, AspectSteps,
         DriverSteps
<1>2. NobodyWaits
  BY DriverIsFree DEF PlainMove, Inv
<1>3. OwnLinesOK'
  BY <1>1, <1>2, SaysNothingKeeps DEF Told, PlainMove
<1>4. ScriptOK'
  BY DEF Told, PlainMove, ScriptOK, Before, Ending, Settled, AspectSteps
<1>5. aspect \in Nat
  BY AspectsAssumption DEF Inv, TypeOK
<1>6. LogOK'
  BY <1>1, <1>5, TurnsGoOn DEF Told, PlainMove
<1> QED
  BY <1>3, <1>4, <1>6 DEF Told

LEMMA OpeningTold ==
  ASSUME Inv, Told,
         Initialize \/ InitializationRejected \/ Load \/ Bind \/ Bound \/ Started \/ Consume
  PROVE  Told'
<1>1. CASE Initialize
  <2>1. pc = "initialize" /\ aspect' = aspect /\ fault' = fault /\ log' = log
    BY <1>1 DEF Initialize, Rest, DriverAndQueue, recordVars
  <2>2. CASE Goto("load") /\ UNCHANGED <<answer, queue, threw>>
    <3>1. PlainMove
      BY <2>1, <2>2 DEF PlainMove, SaysNothing, QuietLog, Goto, Before, QueueWaits, RelayWaits
    <3> QED
      BY <3>1, PlainKeeps
  <2>3. CASE AwaitEnqueued(Observation("initialization-rejected", Primary), "init-rejected")
    <3> DEFINE lines == Observation("initialization-rejected", Primary)
    <3>1. lines = <<Line("runtime.pi", Primary, "initialization-rejected")>> \o <<>>
      BY DEF Observation
    <3>2. \A k \in DOMAIN lines : ~Own(lines[k])
      BY <3>1 DEF Own, Refusal, Line
    <3>3. lines \in Seq(Governance) \ {<<>>}
      BY ObservationLines DEF Plugins
    <3>4. lines \in Seq(Lines) \ {<<>>} /\ Enqueue(lines, "driver") /\ pc' = "init-rejected"
      BY <2>3, <3>3 DEF AwaitEnqueued, Governance, Goto
    <3> HIDE DEF lines
    <3>5. SaysNothing
      BY <3>2, <3>4 DEF SaysNothing
    <3>6. PlainMove
      BY <2>1, <3>4, <3>5 DEF PlainMove, QuietLog, Before, QueueWaits, RelayWaits
    <3> QED
      BY <3>6, PlainKeeps
  <2> QED
    BY <1>1, <2>2, <2>3, PlainKeeps DEF Initialize
<1>2. CASE InitializationRejected \/ Started
  <2>1. PlainMove
    BY <1>2 DEF InitializationRejected, Started, Answered, Throw, Goto, Rest, OnlyDriver,
                writerVars, recordVars, PlainMove, SaysNothing, QuietLog, Before
  <2> QED
    BY <2>1, PlainKeeps
<1>3. CASE Load
  <2>1. PlainMove
    BY <1>3 DEF Load, NativeThrow, Throw, Goto, OnlyDriver,
                writerVars, recordVars, PlainMove, SaysNothing, QuietLog, Before, QueueWaits,
                RelayWaits
  <2> QED
    BY <2>1, PlainKeeps
<1>4. CASE Bind
  <2>1. PlainMove
    BY <1>4 DEF Bind, AwaitObservations, NativeThrow, Throw, Goto, Rest, DriverAndRelay,
                writerVars, recordVars, PlainMove, SaysNothing, QuietLog, Before, QueueWaits,
                RelayWaits
  <2> QED
    BY <2>1, PlainKeeps
<1>5. CASE Bound
  <2>1. PlainMove
    BY <1>5 DEF Bound, Answered, Throw, Goto, Rest, DriverAndRelay,
                writerVars, recordVars, PlainMove, SaysNothing, QuietLog, Before
  <2> QED
    BY <2>1, PlainKeeps
<1>6. CASE Consume
  <2>1. /\ pc = "consume" /\ UNCHANGED <<aspect, queue>>
        /\ pc' = "domain" \/ pc' = "catch"
        /\ fault' = "none" => fault = "none"
    BY <1>6 DEF Consume, Rest, writerVars, Throw, Goto
  <2>2. QuietLog
    <3> DEFINE line == Line("runtime.loom.domain-started", Primary, "started")
    <3>1. line \in Lines /\ ~Own(line)
      BY DEF Line, Lines, Plugins, Own, Refusal
    <3> HIDE DEF line
    <3> QED
      BY <1>6, <3>1 DEF Consume, QuietLog, line
  <2>3. PlainMove
    BY <2>1, <2>2 DEF PlainMove, SaysNothing, Before, QueueWaits, RelayWaits
  <2> QED
    BY <2>3, PlainKeeps
<1> QED
  BY <1>1, <1>2, <1>3, <1>4, <1>5, <1>6

LEMMA ClosingTold ==
  ASSUME Inv, Told,
         \/ AspectsDone \/ Drained \/ Close \/ Shutdown \/ Flush \/ Finalize \/ Settle
         \/ SettleJson
  PROVE  Told'
<1>1. CASE AspectsDone
  <2>1. aspect > Len(Aspects)
    <3>1. aspect >= 1 /\ aspect \notin DOMAIN Aspects
      BY <1>1 DEF AspectsDone, Told, ScriptOK, AspectSteps
    <3> QED
      BY <3>1, AspectsAssumption DEF Inv, TypeOK
  <2>2. PlainMove
    BY <1>1, <2>1 DEF AspectsDone, AwaitWrites, Goto, Rest, DriverAndQueue, recordVars, PlainMove,
                      SaysNothing, QuietLog, QueueWaits, RelayWaits
  <2> QED
    BY <2>2, PlainKeeps
<1>2. CASE Drained
  <2>1. PlainMove
    BY <1>2 DEF Drained, Answered, Throw, Goto, Rest, OnlyDriver, writerVars, recordVars, PlainMove,
                SaysNothing, QuietLog, Ending
  <2> QED
    BY <2>1, PlainKeeps
<1>3. CASE Close
  <2>1. pc = "catch" => fault # "none"
    BY DEF Inv, CausesOK
  <2>2. /\ pc \in {"close", "catch"} /\ UNCHANGED <<aspect, queue, log, fault>>
        /\ pc' \in {"shutdown", "flush", "settle"}
    BY <1>3 DEF Close, AwaitObservations, Goto, DriverAndRelay, writerVars, recordVars
  <2>3. PlainMove
    BY <2>1, <2>2 DEF PlainMove, SaysNothing, QuietLog, Ending, Settled, QueueWaits, RelayWaits
  <2> QED
    BY <2>3, PlainKeeps
<1>4. CASE Shutdown
  <2>1. PlainMove
    BY <1>4 DEF Shutdown, Answered, AwaitObservations, Goto, Rest, DriverAndRelay, writerVars,
                recordVars, PlainMove, SaysNothing, QuietLog, Ending
  <2> QED
    BY <2>1, PlainKeeps
<1>5. CASE Flush
  <2>1. PlainMove
    BY <1>5 DEF Flush, Answered, FinalizeWrites, AwaitWrites, Goto, Rest, recordVars, PlainMove,
                SaysNothing, QuietLog, Ending, QueueWaits
  <2> QED
    BY <2>1, PlainKeeps
<1>6. CASE Finalize
  <2>1. /\ pc = "finalize" /\ answer # "none" /\ pc' = "settle"
        /\ UNCHANGED <<aspect, queue, log>>
    BY <1>6 DEF Finalize, Answered, Goto, Rest, OnlyDriver, writerVars, recordVars
  <2>2. fault' = "none" => fault = "none"
    BY <1>6 DEF Finalize, FaultAfterClose
  <2>3. PlainMove
    BY <2>1, <2>2 DEF PlainMove, SaysNothing, QuietLog, Ending, Settled
  <2> QED
    BY <2>3, PlainKeeps
<1>7. CASE Settle
  <2>1. /\ pc = "settle" /\ pc' = "settling" /\ UNCHANGED <<aspect, queue, fault>>
        /\ log' = Append(log, Line(Terminal, Primary, Outcome))
    BY <1>7 DEF Settle, Goto, Rest, writerVars
  <2>2. Line(Terminal, Primary, Outcome) \in Lines /\ ~Own(Line(Terminal, Primary, Outcome))
    BY DEF Terminal, Outcome, Line, Lines, Plugins, Own, Refusal
  <2>3. QuietLog
    BY <2>1, <2>2 DEF QuietLog
  <2>4. PlainMove
    BY <2>1, <2>3 DEF PlainMove, SaysNothing, Ending, Settled, QueueWaits, RelayWaits
  <2> QED
    BY <2>4, PlainKeeps
<1>8. CASE SettleJson
  <2>1. PlainMove
    BY <1>8 DEF SettleJson, Goto, Rest, writerVars, PlainMove, SaysNothing, QuietLog, Ending,
                Settled, QueueWaits, RelayWaits
  <2> QED
    BY <2>1, PlainKeeps
<1> QED
  BY <1>1, <1>2, <1>3, <1>4, <1>5, <1>6, <1>7, <1>8

-----------------------------------------------------------------------------
(* The steps of the domain and of the aspects.                               *)
LEMMA PairFacts ==
  ASSUME NEW S, NEW a \in S, NEW b \in S, NEW pair, pair = <<a>> \o <<b>>
  PROVE  /\ pair \in Seq(S) /\ pair # <<>> /\ Len(pair) = 2
         /\ pair[1] = a /\ pair[2] = b /\ \A k \in DOMAIN pair : k = 1 \/ k = 2
  OBVIOUS

LEMMA Speech ==
  ASSUME NEW plugin \in Plugins,
         NEW event, NEW detail \in {"completed", "failed", "started"},
         \/ event \in {"domain-completed", "aspect-completed"} /\ detail = "completed"
         \/ event = "execution-rejected" /\ detail = "failed"
         \/ event = "aspect-started" /\ detail = "started"
  PROVE  /\ Observation(event, plugin) \in Seq(Lines) \ {<<>>}
         /\ \A k \in DOMAIN Observation(event, plugin) :
               Own(Observation(event, plugin)[k]) => k = Len(Observation(event, plugin))
         /\ Observation(event, plugin)[Len(Observation(event, plugin))] =
               Participant(plugin, detail)
<1> DEFINE first == Line("runtime.pi", plugin, event)
           last == Participant(plugin, detail)
<1>1. Observation(event, plugin) = <<first>> \o <<last>>
  BY DEF Observation, Participant
<1>2. first \in Lines /\ last \in Lines /\ ~Own(first)
  BY DEF Line, Lines, Participant, Own, Refusal
<1> DEFINE lines == Observation(event, plugin)
<1>3. /\ lines \in Seq(Lines) /\ lines # <<>> /\ Len(lines) = 2
      /\ lines[1] = first /\ lines[2] = last /\ \A k \in DOMAIN lines : k = 1 \/ k = 2
  <2>1. first \in Lines /\ last \in Lines /\ lines = <<first>> \o <<last>>
    BY <1>1, <1>2
  <2> HIDE DEF first, last, lines
  <2> QED
    BY <2>1, PairFacts
<1>4. \A k \in DOMAIN lines : Own(lines[k]) => k = Len(lines)
  <2> SUFFICES ASSUME NEW k \in DOMAIN lines, k = 1 PROVE ~Own(lines[k])
    BY <1>3
  <2>1. lines[k] = first
    BY <1>3
  <2> QED
    BY <1>2, <2>1
<1> QED
  BY <1>3, <1>4

LEMMA Speaks ==
  ASSUME NEW lines \in Seq(Lines) \ {<<>>}, NEW step \in Awaiting,
         \A k \in DOMAIN lines : Own(lines[k]) => k = Len(lines),
         AwaitEnqueued(lines, step), log' = log,
         lines[Len(lines)] = AwaitedLine',
         step \in Milestones => ~InLog(AwaitedLine')
  PROVE  SpeaksOwn /\ pc' = step
<1>1. Enqueue(lines, "driver") /\ answer' = "none" /\ pc' = step
  BY DEF AwaitEnqueued, Goto
<1> QED
  BY <1>1 DEF SpeaksOwn

LEMMA DomainFailsTold ==
  ASSUME Inv, Told, NobodyWaits, NEW error \in {"native", "storage"}, DomainFails(error),
         aspect' = aspect, aspect = 0, log' = log
  PROVE  Told'
<1> DEFINE lines == Observation("execution-rejected", Primary)
<1>1. AwaitEnqueued(lines, "rejected") /\ fault' = error /\ pc' = "rejected"
  BY DEF DomainFails, AwaitEnqueued, Goto
<1>2. /\ lines \in Seq(Lines) \ {<<>>}
      /\ \A k \in DOMAIN lines : Own(lines[k]) => k = Len(lines)
      /\ lines[Len(lines)] = Participant(Primary, "failed")
  BY Speech DEF Plugins
<1> HIDE DEF lines
<1>3. AwaitedLine' = Participant(Primary, "failed")
  BY <1>1 DEF AwaitedLine, Participant, Line
<1>4. SpeaksOwn
  BY <1>1, <1>2, <1>3, Speaks DEF Awaiting, Milestones
<1>5. OwnLinesOK'
  BY <1>4, SpeaksOwnKeeps DEF Told
<1>6. ScriptOK'
  BY <1>1 DEF ScriptOK, Before, AspectSteps, Ending, Settled
<1>7. QuietLog /\ aspect' \in Nat
  BY DEF QuietLog
<1>8. pc' \in AnyTime /\ pc' \notin Turn /\ pc' \notin {"aspect-threw", "aspect-failed"}
      /\ fault' # "none"
  BY <1>1 DEF AnyTime, DriverSteps, Before, AspectSteps, Turn
<1>9. LogOK'
  BY <1>7, <1>8, TurnsGoOn DEF Told
<1> QED
  BY <1>5, <1>6, <1>9 DEF Told

LEMMA AspectThrowsTold ==
  ASSUME Inv, Told, NobodyWaits, NEW failureClass, AspectThrows(failureClass),
         UNCHANGED <<aspect, log, fault, rejected>>, aspect # 0,
         pc \in {"after-run", "publish", "registering"}, pc = "registering" => rejected
  PROVE  Told'
<1>1. AwaitWrites("aspect-threw") /\ pc' = "aspect-threw"
  BY DEF AspectThrows, AwaitWrites, Goto
<1>2. aspect \in 1 .. Len(Aspects)
  BY AspectsAssumption DEF Inv, TypeOK, PhaseOK, PublisherSteps
<1>3. SaysNothing /\ pc' \notin Awaiting /\ QuietLog
  BY <1>1 DEF SaysNothing, QueueWaits, Awaiting, Milestones, QuietLog
<1>4. OwnLinesOK'
  BY <1>3, SaysNothingKeeps DEF Told
<1>5. ScriptOK'
  BY <1>1, <1>2 DEF ScriptOK, Before, AspectSteps, Ending, Settled
<1>6. \/ \A i \in DOMAIN log : log[i].type = "artifact" => log[i].plugin # Publisher
      \/ rejected' /\ answer' # "ok"
  <2>1. CASE pc = "registering"
    BY <1>1, <2>1 DEF AwaitWrites
  <2>2. CASE pc # "registering"
    <3> SUFFICES ASSUME NEW i \in DOMAIN log, log[i].type = "artifact", log[i].plugin = Publisher
                 PROVE  FALSE
      OBVIOUS
    <3>1. pc \in Early(log[i])
      BY <2>2 DEF Early
    <3>2. log[i].plugin = PublisherAt(aspect) /\ Own(log[i]) /\ ~(aspect < aspect)
      BY <1>2 DEF Publisher, PublisherAt, Own
    <3> QED
      BY <1>2, <3>1, <3>2 DEF Told, LogOK, NotEarly
  <2> QED
    BY <2>1, <2>2
<1>7. <<pc, pc'>> \in TurnSteps /\ pc \in Turn /\ aspect' \in Nat
  BY <1>1, <1>2 DEF TurnSteps, Turn
<1>8. aspect # 0 /\ aspect' = aspect /\ fault' = fault /\ Publisher' = Publisher
  BY DEF Publisher
<1>9. LogOK'
  BY <1>1, <1>3, <1>6, <1>7, <1>8, TurnsGoOn DEF Told
<1> QED
  BY <1>4, <1>5, <1>9 DEF Told

LEMMA PublishThrowsTold ==
  ASSUME Inv, Told, NobodyWaits, NEW error \in {"native", "storage"}, PublishThrows(error),
         UNCHANGED <<aspect, log, rejected>>,
         pc \in {"publish", "registering"}, pc = "registering" => rejected
  PROVE  Told'
<1>1. CASE aspect = 0
  BY <1>1, DomainFailsTold DEF PublishThrows
<1>2. CASE aspect # 0
  <2>1. AspectThrows("publication-validation") /\ fault' = fault
    BY <1>2 DEF PublishThrows
  <2> QED
    BY <1>2, <2>1, AspectThrowsTold
<1> QED
  BY <1>1, <1>2

(* The next step of the same turn, with nothing written.                     *)
LEMMA TurnStepTold ==
  ASSUME Inv, Told, NobodyWaits, UNCHANGED <<queue, aspect, log, fault>>,
         \/ pc' \in {"publish", "register"} /\ (pc = "domain" \/ <<pc, pc'>> \in TurnSteps)
         \/ pc' = "after-run" /\ pc = "aspect-started" /\ InLog(Participant(Publisher, "started"))
  PROVE  Told'
<1>1. SaysNothing /\ QuietLog
  BY DEF SaysNothing, QuietLog
<1>2. pc' \notin Awaiting /\ pc' \notin {"aspect-threw", "aspect-failed"}
  BY DEF Awaiting, Milestones
<1>3. OwnLinesOK'
  BY <1>1, <1>2, SaysNothingKeeps DEF Told
<1>4. ScriptOK'
  BY DEF Told, ScriptOK, Before, AspectSteps, Ending, Settled, TurnSteps
<1>5. aspect' \in Nat /\ aspect \in Nat
  BY AspectsAssumption DEF Inv, TypeOK
<1>6. pc \in Before \/ <<pc, pc'>> \in TurnSteps
  BY DEF Before, TurnSteps
<1>7. aspect >= 1 => pc \in Turn \/ InLog(Participant(Publisher, "started"))
  BY <1>5 DEF TurnSteps, Turn, Told, ScriptOK, Before
<1>8. LogOK'
  BY <1>1, <1>2, <1>5, <1>6, <1>7, TurnsGoOn DEF Told
<1> QED
  BY <1>3, <1>4, <1>8 DEF Told

(* An own line is asked for, and the turn goes on when it is written.        *)
LEMMA SpeechTold ==
  ASSUME Inv, Told, NobodyWaits, SpeaksOwn, UNCHANGED <<aspect, fault>>,
         <<pc, pc'>> \in {<<"register", "registering">>, <<"register", "domain-completed">>,
                         <<"register", "aspect-completed">>, <<"aspects", "aspect-started">>,
                         <<"aspect-threw", "aspect-failed">>},
         pc' = "domain-completed" => aspect = 0,
         pc' = "aspect-completed" => aspect # 0,
         pc' = "aspect-failed" =>
            \A i \in DOMAIN log : log[i].type = "artifact" => log[i].plugin # Publisher
  PROVE  Told'
<1>1. OwnLinesOK'
  BY SpeaksOwnKeeps DEF Told
<1>2. aspect \in Nat /\ (aspect # 0 => aspect >= 1) /\ aspect' = aspect /\ fault' = fault
  BY AspectsAssumption DEF Inv, TypeOK
<1>3. ScriptOK'
  BY <1>2 DEF Told, ScriptOK, Before, AspectSteps, Ending, Settled
<1>4. QuietLog
  BY DEF SpeaksOwn, QuietLog
<1>5. pc \in Before \/ pc' \in AnyTime \/ <<pc, pc'>> \in TurnSteps
  BY DEF Before, AnyTime, DriverSteps, AspectSteps, Turn, TurnSteps
<1>6. pc' \in Turn => pc \in Turn
  BY DEF Turn
<1>7. pc' # "aspect-threw"
  OBVIOUS
<1>8. LogOK'
  BY <1>2, <1>4, <1>5, <1>6, <1>7, TurnsGoOn DEF Told
<1> QED
  BY <1>1, <1>3, <1>8 DEF Told

(* An aspect's turn, or the domain's, is over.                               *)
LEMMA NextTurnTold ==
  ASSUME Inv, Told, NobodyWaits, UNCHANGED <<queue, log>>, aspect' = aspect + 1,
         pc' = "aspects", fault' = fault,
         aspect >= 1 /\ Publisher \in Phased => TurnOver(Publisher),
         aspect = 0 /\ fault = "none" => InLog(Participant(Primary, "completed"))
  PROVE  Told'
<1>1. SaysNothing /\ QuietLog
  BY DEF SaysNothing, QuietLog
<1>2. pc' \notin Awaiting /\ pc' \notin Turn /\ pc' \notin {"aspect-threw", "aspect-failed"}
  BY DEF Awaiting, Milestones, Turn
<1>3. OwnLinesOK'
  BY <1>1, <1>2, SaysNothingKeeps DEF Told
<1>4. aspect \in Nat /\ aspect' \in Nat /\ aspect' >= 1
  BY AspectsAssumption DEF Inv, TypeOK
<1>5. ScriptOK'
  BY <1>4 DEF ScriptOK, Before, AspectSteps, Ending, Settled
<1>6. LogOK'
  BY <1>1, <1>2, <1>4, TurnsGoOn DEF Told
<1> QED
  BY <1>3, <1>5, <1>6 DEF Told

(* The run is given up for a rejected write.                                 *)
LEMMA GivesUpTold ==
  ASSUME Inv, Told, NobodyWaits, UNCHANGED <<queue, log, aspect>>, Throw("storage")
  PROVE  Told'
<1>1. SaysNothing /\ QuietLog /\ pc' = "catch" /\ fault' = "storage"
  BY DEF SaysNothing, QuietLog, Throw, Goto
<1>2. pc' \notin Awaiting /\ pc' \notin Turn /\ pc' \in AnyTime
      /\ pc' \notin {"aspect-threw", "aspect-failed"}
  BY <1>1 DEF Awaiting, Milestones, Turn, AnyTime, DriverSteps, Before, AspectSteps
<1>3. OwnLinesOK'
  BY <1>1, <1>2, SaysNothingKeeps DEF Told
<1>4. aspect' \in Nat /\ aspect' = aspect
  BY AspectsAssumption DEF Inv, TypeOK
<1>5. ScriptOK'
  BY <1>1 DEF ScriptOK, Before, AspectSteps, Ending, Settled
<1>6. LogOK'
  BY <1>1, <1>2, <1>4, TurnsGoOn DEF Told
<1> QED
  BY <1>3, <1>5, <1>6 DEF Told

(* No line of a Plugin is in the log before its turn.                        *)
LEMMA NotYet ==
  ASSUME Told, NEW line, Own(line), aspect \in 0 .. Len(Aspects),
         line.plugin = Publisher, pc \in Early(line)
  PROVE  ~InLog(line)
<1>1. line.plugin = PublisherAt(aspect) /\ ~(aspect < aspect)
  BY DEF Publisher, PublisherAt
<1> QED
  BY <1>1 DEF Told, LogOK, NotEarly, InLog

(* What the driver is told of an awaited write.                              *)
LEMMA ToldOfIt ==
  ASSUME Inv, Told, answer # "none"
  PROVE  /\ NobodyWaits
         /\ pc \in Awaiting /\ answer = "ok" => InLog(AwaitedLine)
         /\ pc \in QueueWaits /\ answer # "ok" => rejected
<1>1. answer \in {"none", "ok", "rejected"}
  BY DEF Inv, TypeOK
<1> QED
  BY <1>1, DriverIsFree DEF Inv, StickyOK, Told, OwnLinesOK

LEMMA IndexOfTurn ==
  ASSUME Inv, pc \in PublisherSteps
  PROVE  /\ aspect \in 0 .. Len(Aspects) /\ Publisher \in Plugins
         /\ aspect # 0 => aspect >= 1
<1>1. aspect <= Len(Aspects) /\ aspect \in 0 .. Len(Aspects) + 1 /\ Len(Aspects) \in Nat
  BY IndexIsInRange, AspectsAssumption DEF Inv, TypeOK
<1>2. Publisher \in Plugins
  BY <1>1, PublisherIsAPlugin DEF Inv
<1> QED
  BY <1>1, <1>2

LEMMA DomainTold ==
  ASSUME Inv, Told, RunDomain \/ Validated \/ Refused \/ Registered
  PROVE  Told'
<1>1. log' = log /\ aspect' = aspect /\ rejected' = rejected
  BY DEF RunDomain, Validated, Refused, Registered, Rest, OnlyDriver, DriverAndQueue,
         writerVars, recordVars
<1>2. CASE RunDomain
  <2>1. pc = "domain" /\ aspect = 0 /\ NobodyWaits
    <3>1. pc = "domain"
      BY <1>2 DEF RunDomain
    <3> QED
      BY <3>1, DriverIsFree DEF Told, ScriptOK, Before, Inv, QueueWaits, RelayWaits
  <2>2. CASE DomainFails("native")
    BY <1>1, <2>1, <2>2, DomainFailsTold
  <2>3. CASE pc' = "publish" /\ UNCHANGED <<fault, queue>>
    BY <1>1, <2>1, <2>3, TurnStepTold
  <2> QED
    BY <1>2, <2>2, <2>3 DEF RunDomain, Goto
<1>3. CASE Validated \/ Refused
  <2>1. pc = "publish" /\ NobodyWaits
    <3>1. pc = "publish"
      BY <1>3 DEF Validated, Refused, Validating
    <3> QED
      BY <3>1, DriverIsFree DEF Inv, QueueWaits, RelayWaits
  <2>2. CASE Validated
    <3>1. <<pc, pc'>> \in TurnSteps /\ pc' = "register" /\ UNCHANGED <<queue, fault>>
      BY <2>1, <2>2 DEF Validated, Goto, OnlyDriver, writerVars, TurnSteps
    <3> QED
      BY <1>1, <2>1, <3>1, TurnStepTold
  <2>3. CASE Refused
    <3>1. PICK error \in {"native", "storage"} : PublishThrows(error)
      BY <2>3 DEF Refused
    <3> QED
      BY <1>1, <2>1, <3>1, PublishThrowsTold
  <2> QED
    BY <1>3, <2>2, <2>3
<1>4. CASE Registered
  <2>1. pc = "registering" /\ answer # "none"
    BY <1>4 DEF Registered, Answered
  <2>2. NobodyWaits /\ (answer # "ok" => rejected)
    BY <2>1, ToldOfIt DEF QueueWaits
  <2>3. CASE answer = "ok"
    <3>1. <<pc, pc'>> \in TurnSteps /\ pc' = "register" /\ UNCHANGED <<queue, fault>>
      BY <1>4, <2>1, <2>3 DEF Registered, Goto, TurnSteps
    <3> QED
      BY <1>1, <2>2, <3>1, TurnStepTold
  <2>4. CASE answer # "ok"
    <3>1. PublishThrows("storage")
      BY <1>4, <2>4 DEF Registered
    <3> QED
      BY <1>1, <2>1, <2>2, <2>4, <3>1, PublishThrowsTold
  <2> QED
    BY <2>3, <2>4
<1> QED
  BY <1>2, <1>3, <1>4

LEMMA RegisterTold ==
  ASSUME Inv, Told, Register
  PROVE  Told'
<1>1. pc = "register" /\ UNCHANGED <<log, aspect, fault, class>>
  BY DEF Register, DriverAndQueue, recordVars
<1>2. NobodyWaits
  BY <1>1, DriverIsFree DEF Inv, QueueWaits, RelayWaits
<1>3. aspect \in 0 .. Len(Aspects) /\ Publisher \in Plugins /\ Publisher' = Publisher
  BY <1>1, IndexOfTurn DEF PublisherSteps, Publisher
<1>4. CASE AwaitEnqueued(Registration(Publisher), "registering")
  <2> DEFINE line == Line("artifact", Publisher, "published")
             lines == Registration(Publisher)
  <2>1. line \in Lines
    BY <1>3 DEF Line, Lines
  <2>2. lines = <<line>>
    BY DEF Registration
  <2>3. pc' = "registering" /\ AwaitedLine' = line
    BY <1>3, <1>4 DEF AwaitEnqueued, Goto, AwaitedLine, Line
  <2> HIDE DEF line
  <2>4. /\ lines \in Seq(Lines) \ {<<>>}
        /\ \A k \in DOMAIN lines : Own(lines[k]) => k = Len(lines)
        /\ lines[Len(lines)] = line
    BY <2>1, <2>2
  <2> HIDE DEF lines
  <2>5. SpeaksOwn
    BY <1>1, <1>4, <2>3, <2>4, Speaks DEF lines, Awaiting, Milestones
  <2> QED
    BY <1>1, <1>2, <2>3, <2>5, SpeechTold
<1>5. ASSUME NEW step \in {"domain-completed", "aspect-completed"},
             AwaitEnqueued(Observation(step, Publisher), step),
             (step = "domain-completed") <=> (aspect = 0)
      PROVE  Told'
  <2> DEFINE lines == Observation(step, Publisher)
             line == Participant(Publisher, "completed")
  <2>1. /\ lines \in Seq(Lines) \ {<<>>}
        /\ \A k \in DOMAIN lines : Own(lines[k]) => k = Len(lines)
        /\ lines[Len(lines)] = line
    BY <1>3, Speech
  <2>2. pc' = step /\ AwaitedLine' = line
    BY <1>3, <1>5 DEF AwaitEnqueued, Goto, AwaitedLine, Participant, Line, Publisher
  <2>3. Own(line) /\ line.plugin = Publisher /\ pc \in Early(line)
    BY <1>1 DEF Own, Participant, Line, Early
  <2>4. ~InLog(line)
    BY <1>3, <2>3, NotYet
  <2> HIDE DEF lines, line
  <2>5. SpeaksOwn
    BY <1>1, <1>5, <2>1, <2>2, <2>4, Speaks DEF lines, Awaiting, Milestones
  <2> QED
    BY <1>1, <1>2, <1>5, <2>2, <2>5, SpeechTold
<1>6. aspect = 0 => Publisher = Primary
  BY DEF Publisher
<1> QED
  BY <1>4, <1>5, <1>6 DEF Register

LEMMA DomainEndsTold ==
  ASSUME Inv, Told, DomainCompleted \/ DomainRejected
  PROVE  Told'
<1>1. /\ pc \in {"domain-completed", "rejected"} /\ answer # "none"
      /\ log' = log /\ rejected' = rejected
  BY DEF DomainCompleted, DomainRejected, Answered, OnlyDriver, DriverAndQueue, writerVars,
         recordVars
<1>2. aspect = 0
  BY <1>1 DEF Told, ScriptOK
<1>3. NobodyWaits
  BY <1>1, ToldOfIt
<1>4. CASE DomainRejected
  <2>1. fault # "none"
    BY <1>4 DEF DomainRejected, Answered, Told, ScriptOK
  <2>2. UNCHANGED <<queue, fault>> /\ pc' = "aspects" /\ aspect' = aspect + 1
    BY <1>2, <1>4 DEF DomainRejected, Goto, OnlyDriver, writerVars
  <2> QED
    BY <1>1, <1>2, <1>3, <2>1, <2>2, NextTurnTold
<1>5. CASE DomainCompleted /\ answer = "ok"
  <2>1. InLog(Participant(Primary, "completed"))
    <3>1. pc = "domain-completed"
      BY <1>5 DEF DomainCompleted, Answered
    <3>2. pc \in Awaiting /\ AwaitedLine = Participant(Primary, "completed")
      BY <3>1 DEF Awaiting, Milestones, AwaitedLine
    <3> QED
      BY <1>1, <1>5, <3>2, ToldOfIt
  <2>2. UNCHANGED <<queue, fault>> /\ pc' = "aspects" /\ aspect' = aspect + 1
    BY <1>2, <1>5 DEF DomainCompleted, Goto
  <2> QED
    BY <1>1, <1>2, <1>3, <2>1, <2>2, NextTurnTold
<1>6. CASE DomainCompleted /\ answer # "ok"
  <2>1. DomainFails("storage") /\ aspect' = aspect
    BY <1>6 DEF DomainCompleted
  <2> QED
    BY <1>1, <1>2, <1>3, <2>1, DomainFailsTold
<1> QED
  BY <1>4, <1>5, <1>6

LEMMA AspectsTold ==
  ASSUME Inv, Told,
         StartAspect \/ AspectStarted \/ AfterRun \/ AspectThrew \/ AspectEnds
  PROVE  Told'
<1>1. log' = log /\ rejected' = rejected
  BY DEF StartAspect, AspectStarted, AfterRun, AspectThrew, AspectEnds, OnlyDriver,
         DriverAndQueue, writerVars, recordVars
<1>2. CASE StartAspect
  <2>1. /\ pc = "aspects" /\ aspect \in DOMAIN Aspects /\ fault' = fault
        /\ Publisher = Aspects[aspect]
    BY <1>2, AspectsAssumption DEF StartAspect, Publisher
  <2>2. NobodyWaits
    BY <2>1, DriverIsFree DEF Inv, QueueWaits, RelayWaits
  <2>3. /\ aspect \in 0 .. Len(Aspects) /\ aspect # 0 /\ aspect >= 1
        /\ Publisher \in Plugins \ {Primary}
    BY <2>1, AspectIsPlugin
  <2>4. CASE Publisher \notin Phased
    <3>1. aspect' = aspect + 1 /\ pc' = "aspects" /\ queue' = queue
      BY <1>2, <2>1, <2>4 DEF StartAspect
    <3> QED
      BY <1>1, <2>1, <2>2, <2>3, <2>4, <3>1, NextTurnTold
  <2>5. CASE Publisher \in Phased
    <3> DEFINE lines == Observation("aspect-started", Publisher)
               line == Participant(Publisher, "started")
    <3>1. AwaitEnqueued(lines, "aspect-started") /\ aspect' = aspect
      BY <1>2, <2>5 DEF StartAspect
    <3>2. /\ lines \in Seq(Lines) \ {<<>>}
          /\ \A k \in DOMAIN lines : Own(lines[k]) => k = Len(lines)
          /\ lines[Len(lines)] = line
      BY <2>3, Speech
    <3>3. pc' = "aspect-started" /\ AwaitedLine' = line
      BY <3>1 DEF AwaitEnqueued, Goto, AwaitedLine, Participant, Line, Publisher
    <3>4. Own(line) /\ line.plugin = Publisher /\ pc \in Early(line)
      BY <2>1 DEF Own, Participant, Line, Early, Before
    <3>5. ~InLog(line)
      BY <2>3, <3>4, NotYet
    <3> HIDE DEF lines, line
    <3>6. SpeaksOwn
      BY <1>1, <3>1, <3>2, <3>3, <3>5, Speaks DEF Awaiting, Milestones
    <3> QED
      BY <2>1, <2>2, <3>1, <3>3, <3>6, SpeechTold
  <2> QED
    BY <2>4, <2>5
<1>3. CASE AspectStarted
  <2>1. pc = "aspect-started" /\ answer # "none" /\ UNCHANGED <<queue, aspect>>
    BY <1>3 DEF AspectStarted, Answered, OnlyDriver, writerVars, Rest
  <2>2. NobodyWaits /\ (answer = "ok" => InLog(Participant(Publisher, "started")))
    <3>1. pc \in Awaiting /\ AwaitedLine = Participant(Publisher, "started")
      BY <2>1 DEF Awaiting, Milestones, AwaitedLine
    <3> QED
      BY <2>1, <3>1, ToldOfIt
  <2>3. CASE answer = "ok"
    <3>1. pc' = "after-run" /\ fault' = fault
      BY <1>3, <2>3 DEF AspectStarted, Goto
    <3> QED
      BY <1>1, <2>1, <2>2, <2>3, <3>1, TurnStepTold
  <2>4. CASE answer # "ok"
    <3>1. Throw("storage")
      BY <1>3, <2>4 DEF AspectStarted
    <3> QED
      BY <1>1, <2>1, <2>2, <3>1, GivesUpTold
  <2> QED
    BY <2>3, <2>4
<1>4. CASE AfterRun
  <2>1. pc = "after-run" /\ UNCHANGED <<aspect, fault>>
    BY <1>4 DEF AfterRun
  <2>2. NobodyWaits
    BY <2>1, DriverIsFree DEF Inv, QueueWaits, RelayWaits
  <2>3. aspect # 0
    BY <2>1 DEF Told, ScriptOK, AspectSteps
  <2>4. CASE Goto("publish") /\ queue' = queue
    <3>1. pc' = "publish" /\ <<pc, pc'>> \in TurnSteps
      BY <2>1, <2>4 DEF Goto, TurnSteps
    <3> QED
      BY <1>1, <2>1, <2>2, <2>4, <3>1, TurnStepTold
  <2>5. CASE AspectThrows("aspect-execution")
    BY <1>1, <2>1, <2>2, <2>3, <2>5, AspectThrowsTold
  <2> QED
    BY <1>4, <2>4, <2>5 DEF AfterRun
<1>5. CASE AspectThrew
  <2>1. /\ pc = "aspect-threw" /\ answer # "none" /\ UNCHANGED <<aspect, class>>
        /\ aspect # 0
    BY <1>5 DEF AspectThrew, Answered, Rest, Told, ScriptOK, AspectSteps
  <2>2. NobodyWaits
    BY <2>1, ToldOfIt
  <2>3. CASE answer # "ok"
    <3>1. Throw("storage") /\ queue' = queue
      BY <1>5, <2>3 DEF AspectThrew
    <3> QED
      BY <1>1, <2>1, <2>2, <3>1, GivesUpTold
  <2>4. CASE answer = "ok"
    <3> DEFINE line == Line("observer.failed", Publisher, class)
               lines == AspectFailure(Publisher, class)
    <3>1. AwaitEnqueued(lines, "aspect-failed") /\ fault' = fault
      BY <1>5, <2>4 DEF AspectThrew
    <3>2. lines = <<line>> /\ line \in Lines
      <4>1. Publisher \in Plugins
        BY <2>1, IndexOfTurn DEF PublisherSteps
      <4> QED
        BY <4>1 DEF AspectFailure, Line, Lines, Inv, TypeOK
    <3>3. pc' = "aspect-failed" /\ AwaitedLine' = line
      BY <2>1, <3>1 DEF AwaitEnqueued, Goto, AwaitedLine, Line, Publisher
    <3>4. \A i \in DOMAIN log : log[i].type = "artifact" => log[i].plugin # Publisher
      BY <2>1, <2>4 DEF Told, LogOK, RefusalsOK
    <3> HIDE DEF line
    <3>5. /\ lines \in Seq(Lines) \ {<<>>}
          /\ \A k \in DOMAIN lines : Own(lines[k]) => k = Len(lines)
          /\ lines[Len(lines)] = line
      BY <3>2
    <3> HIDE DEF lines
    <3>6. SpeaksOwn
      BY <1>1, <3>1, <3>3, <3>5, Speaks DEF Awaiting, Milestones
    <3> QED
      BY <2>1, <2>2, <3>1, <3>3, <3>4, <3>6, SpeechTold
  <2> QED
    BY <2>3, <2>4
<1>6. CASE AspectEnds
  <2>1. /\ pc \in {"aspect-failed", "aspect-completed"} /\ answer # "none"
        /\ queue' = queue
    BY <1>6 DEF AspectEnds, Answered, OnlyDriver, writerVars
  <2>2. NobodyWaits /\ aspect # 0
    BY <2>1, ToldOfIt DEF Told, ScriptOK, AspectSteps
  <2>3. CASE answer # "ok"
    <3>1. Throw("storage") /\ aspect' = aspect
      BY <1>6, <2>3 DEF AspectEnds
    <3> QED
      BY <1>1, <2>1, <2>2, <3>1, GivesUpTold
  <2>4. CASE answer = "ok"
    <3>1. pc' = "aspects" /\ aspect' = aspect + 1 /\ fault' = fault
      BY <1>6, <2>4 DEF AspectEnds, Goto
    <3>2. InLog(AwaitedLine)
      BY <2>1, <2>4, ToldOfIt DEF Awaiting, Milestones
    <3>3. TurnOver(Publisher)
      <4>1. CASE pc = "aspect-completed"
        BY <3>2, <4>1 DEF AwaitedLine, TurnOver
      <4>2. CASE pc = "aspect-failed"
        <5>1. AwaitedLine = Line("observer.failed", Publisher, class)
          BY <4>2 DEF AwaitedLine
        <5> QED
          BY <3>2, <5>1 DEF InLog, TurnOver, Line
      <4> QED
        BY <2>1, <4>1, <4>2
    <3> QED
      BY <1>1, <2>1, <2>2, <3>1, <3>3, NextTurnTold
  <2> QED
    BY <2>3, <2>4
<1> QED
  BY <1>2, <1>3, <1>4, <1>5, <1>6

-----------------------------------------------------------------------------
LEMMA InitTold == Init => Told
<1> SUFFICES ASSUME Init PROVE Told
  OBVIOUS
<1>1. ScriptOK
  BY DEF Init, ScriptOK, AspectSteps, Ending, Settled
<1>2. OwnLinesOK
  BY DEF Init, OwnLinesOK
<1>3. DOMAIN log = {} /\ aspect = 0 /\ pc = "initialize" /\ DOMAIN Aspects \subseteq Nat \ {0}
  BY AspectsAssumption DEF Init
<1>4. NotEarly /\ OnceEach /\ StartedFirst
  BY <1>3 DEF NotEarly, OnceEach, StartedFirst
<1>5. TurnsLeft
  BY <1>3 DEF TurnsLeft, Turn, InLog
<1>6. RefusalsOK
  BY <1>3 DEF RefusalsOK, RefusedBatchesLeaveNothing
<1> QED
  BY <1>1, <1>2, <1>4, <1>5, <1>6 DEF Told, LogOK

LEMMA StepTold == Inv /\ Told /\ [Next]_vars => Told'
<1> SUFFICES ASSUME Inv, Told, [Next]_vars PROVE Told'
  OBVIOUS
<1>1. CASE UNCHANGED vars
  <2>1. UNCHANGED <<pc, aspect, class, fault, answer, rejected, log, queue>>
    BY <1>1 DEF vars, driverVars, writerVars, relayVars, recordVars
  <2> QED
    BY <2>1 DEF Told, ScriptOK, OwnLinesOK, LogOK, NotEarly, OnceEach, StartedFirst,
       TurnsLeft, RefusalsOK, RefusedBatchesLeaveNothing, InLog, AwaitedLine, Publisher
<1>2. CASE Driver
  BY <1>2, OpeningTold, DomainTold, RegisterTold, DomainEndsTold, AspectsTold, ClosingTold
     DEF Driver
<1>3. CASE Writer
  <2>1. UNCHANGED <<pc, aspect, fault>>
    BY <1>3, WriterMoves DEF WriterMove, WriterFrame
  <2>2. ScriptOK'
    BY <2>1 DEF Told, ScriptOK
  <2> QED
    BY <1>3, <2>2, WriterOwnLines, WriterLog DEF Told
<1>4. CASE StartLink \/ \E plugin \in Plugins : ExtensionReports(plugin)
  BY <1>4, RelaySpeaks DEF Told
<1>5. CASE Terminated
  BY <1>1, <1>5 DEF Terminated
<1> QED
  BY <1>1, <1>2, <1>3, <1>4, <1>5 DEF Next

LEMMA ToldAlways == Spec => [](Inv /\ Told)
<1> QED
  BY InitHolds, StepKeeps, InitTold, StepTold, PTL DEF Spec

(* No aspect whose batch or afterRun failed has an Artifact in the log: the  *)
(* whole batch is validated first, and a registration that fails is a lost   *)
(* write, which ends the run before the aspect's failure is recorded.        *)
THEOREM RefusedBatchesLeaveNothingAlways == Spec => []RefusedBatchesLeaveNothing
<1>1. Told => RefusedBatchesLeaveNothing
  BY DEF Told, LogOK, RefusalsOK
<1> QED
  BY <1>1, ToldAlways, PTL

LEMMA LineOf ==
  ASSUME NEW line \in Lines
  PROVE  line = Line(line.type, line.plugin, line.detail)
BY DEF Lines, Line

LEMMA SaysIt ==
  ASSUME log \in Seq(Lines), NEW i \in DOMAIN log, NEW plugin, NEW detail
  PROVE  Says(i, plugin, detail) <=> log[i] = Participant(plugin, detail)
<1>1. log[i] = Line(log[i].type, log[i].plugin, log[i].detail)
  BY LineOf
<1>2. Says(i, plugin, detail) => log[i] = Participant(plugin, detail)
  BY <1>1 DEF Says, Participant
<1>3. log[i] = Participant(plugin, detail) => Says(i, plugin, detail)
  BY DEF Says, Participant, Line
<1> QED
  BY <1>2, <1>3

LEMMA CountsOne ==
  ASSUME LogOK, NEW plugin, NEW detail \in {"started", "completed"},
         log \in Seq(Lines), InLog(Participant(plugin, detail))
  PROVE  Count(plugin, detail) = 1
<1> DEFINE said == {i \in DOMAIN log : Says(i, plugin, detail)}
<1>1. PICK i \in DOMAIN log : log[i] = Participant(plugin, detail)
  BY DEF InLog
<1>2. \A j \in DOMAIN log : Says(j, plugin, detail) =>
         Milestone(log[j]) /\ log[j] = Participant(plugin, detail)
  BY SaysIt DEF Milestone, Participant, Line
<1>3. Says(i, plugin, detail)
  BY <1>1, SaysIt
<1>4. \A j \in said : j = i
  BY <1>1, <1>2, <1>3 DEF LogOK, OnceEach
<1>5. said = {i}
  BY <1>3, <1>4
<1> QED
  BY <1>5, FS_Singleton DEF Count

LEMMA CountsNone ==
  ASSUME NEW plugin, NEW detail, log \in Seq(Lines), ~InLog(Participant(plugin, detail))
  PROVE  Count(plugin, detail) = 0
<1>1. \A j \in DOMAIN log : ~Says(j, plugin, detail)
  BY SaysIt DEF InLog
<1>2. {i \in DOMAIN log : Says(i, plugin, detail)} = {}
  BY <1>1
<1> QED
  BY <1>2, FS_EmptySet DEF Count

(* The receipt of a completed Session says its primary completed, and every  *)
(* aspect with an afterRun completed or failed: each was started and ended   *)
(* in its turn, once, before the run could go on.                            *)
THEOREM CompletedParticipantsAlways == Spec => []CompletedParticipants
<1>1. Inv /\ Told => CompletedParticipants
  <2> SUFFICES ASSUME Inv, Told, status = "completed"
               PROVE  /\ PrimaryStatus = "completed"
                      /\ \A plugin \in Phased : AspectStatus(plugin) \in {"completed", "failed"}
    BY DEF CompletedParticipants
  <2>1. pc = "ended" /\ fault = "none" /\ log \in Seq(Lines) /\ LogOK
    BY DEF Inv, RecordOK, TypeOK, Told
  <2>2. aspect > Len(Aspects) /\ aspect \in Nat /\ Len(Aspects) \in Nat
        /\ DOMAIN Aspects = 1 .. Len(Aspects) /\ aspect >= 1
    BY <2>1, AspectsAssumption DEF Told, ScriptOK, Ending, Settled, Inv, TypeOK
  <2>3. PrimaryStatus = "completed"
    <3>1. InLog(Participant(Primary, "completed")) /\ ~InLog(Participant(Primary, "failed"))
      BY <2>1, <2>2 DEF LogOK, TurnsLeft
    <3>2. Count(Primary, "completed") = 1 /\ Count(Primary, "failed") = 0
      BY <2>1, <3>1, CountsOne, CountsNone
    <3> QED
      BY <3>2 DEF PrimaryStatus
  <2>4. ASSUME NEW plugin \in Phased
        PROVE  AspectStatus(plugin) \in {"completed", "failed"}
    <3>1. PICK k \in DOMAIN Aspects : Aspects[k] = plugin
      BY PhasedAssumption DEF AspectSet
    <3>2. k < aspect
      BY <2>2
    <3>3. CASE \E i \in DOMAIN log : log[i].type = "observer.failed" /\ log[i].plugin = plugin
      BY <3>3 DEF AspectStatus
    <3>4. CASE ~ \E i \in DOMAIN log : log[i].type = "observer.failed" /\ log[i].plugin = plugin
      <4>1. InLog(Participant(plugin, "completed"))
        BY <2>1, <2>4, <3>1, <3>2, <3>4 DEF LogOK, TurnsLeft
      <4>2. PICK j \in DOMAIN log : log[j] = Participant(plugin, "completed")
        BY <4>1 DEF InLog
      <4>3. PICK i \in DOMAIN log : i < j /\ log[i] = Participant(plugin, "started")
        BY <2>1, <3>1, <4>2 DEF LogOK, StartedFirst
      <4>4. InLog(Participant(plugin, "started"))
        BY <4>3 DEF InLog
      <4>5. Count(plugin, "started") = 1 /\ Count(plugin, "completed") = 1
        BY <2>1, <4>1, <4>4, CountsOne
      <4>6. Says(i, plugin, "started") /\ Says(j, plugin, "completed")
        BY <4>2, <4>3 DEF Says, Participant, Line
      <4> QED
        BY <3>4, <4>3, <4>5, <4>6 DEF AspectStatus
    <3> QED
      BY <3>3, <3>4
  <2> QED
    BY <2>3, <2>4
<1> QED
  BY <1>1, ToldAlways, PTL
=============================================================================
