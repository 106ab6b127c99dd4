-------------------------------- MODULE Job --------------------------------
(***************************************************************************)
(* ProcessingUnit::Job, src/job.cpp: the worker that one connection starts *)
(* when its Start message is handled.  It owns a queue of payloads filled  *)
(* by process(), one thread (Processing) that hands the payloads one at a  *)
(* time to the subscribers of the input observable, and a callback on the  *)
(* processor-result observable that writes each result to the connection   *)
(* and releases the thread.                                                *)
(*                                                                         *)
(* Every critical section of m_DataProtector is one action.  A thread      *)
(* blocked in wait() on a condition variable is at a control point of its  *)
(* own ("asleep", "vaAsleep"); a notify moves it back to the point where   *)
(* it takes the lock and evaluates the predicate again.                    *)
(*                                                                         *)
(* What the job calls on its JobConnection is recorded here (acks: the     *)
(* SendContinue calls, written: the payloads given to SendData);           *)
(* JobConnection gives these calls their effect on the connection.         *)
(***************************************************************************)
EXTENDS Naturals, Sequences

CONSTANTS
    MaxData,          \* bound: payloads submitted to one job
    MaxForeign,       \* bound: results not asked for that reach the callback: those of
                      \* other connections, and second answers to one payload
    SubscriberThrows  \* when a subscriber of the input observable throws: "never",
                      \* "before" it took the payload, or "after" that

ASSUME JobAssumption ==
    /\ MaxData \in Nat
    /\ MaxForeign \in Nat
    /\ SubscriberThrows \in {"never", "before", "after"}

\* The job is alone on the observables and no payload it gave up is answered.
Undisturbed == MaxForeign = 0 /\ SubscriberThrows # "after"

(***************************************************************************)
(* Payloads.  The k-th payload submitted to the job is the number k, and   *)
(* the result computed from it carries the same number.  Empty is          *)
(* DataPtr(); Foreign stands for any result computed from another          *)
(* connection's payload.                                                   *)
(***************************************************************************)
Empty == 0
Data == 1..MaxData
Foreign == MaxData + 1
Payload == 0..(MaxData + 1)

VARIABLES
    thread,             \* control point of Job::Processing
    data,               \* its local variable of that name
    inputData,          \* m_InputData
    isJobEmpty,         \* m_isJobEmpty, the cached emptiness of m_InputData
    isStopJobSignaled,  \* m_isStopJobSignaled
    isVARecived,        \* m_isVARecived
    processor,          \* external: payloads delivered and not answered yet
    foreign,            \* external: foreign results published so far
    submitted,          \* history: number of process() calls
    acks,               \* history: number of SendContinue calls
    written             \* history: payloads passed to writeData, in order

jobVars == <<thread, data, inputData, isJobEmpty, isStopJobSignaled, isVARecived,
             processor, foreign, submitted, acks, written>>
queueVars == <<inputData, isJobEmpty, isStopJobSignaled, submitted>>
outsideVars == <<processor, foreign, acks, written>>

ControlPoint == {"none", "subscribe", "loop", "wait", "asleep", "read", "continue",
                 "notify", "va", "vaAsleep", "final", "done", "uncaught"}

JobInit ==
    /\ thread = "none" /\ data = Empty
    /\ inputData = <<>> /\ isJobEmpty = TRUE
    /\ isStopJobSignaled = FALSE /\ isVARecived = FALSE
    /\ processor = {} /\ foreign = 0
    /\ submitted = 0 /\ acks = 0 /\ written = <<>>

(***************************************************************************)
(* The members called by JobConnection.                                    *)
(***************************************************************************)

\* Job::Job starts the Processing thread.
Construct ==
    /\ thread = "none"
    /\ thread' = "subscribe"
    /\ UNCHANGED <<data, queueVars, isVARecived, outsideVars>>

\* Mutant of NotifyJob: the notification is forgotten.
NotifyNobody == UNCHANGED thread

\* notify_one() on m_ConditionVariable.
NotifyJob == thread' = IF thread = "asleep" THEN "wait" ELSE thread

\* Job::process: queue a payload.
process(d) ==
    /\ thread # "none"
    /\ submitted' = submitted + 1
    /\ inputData' = Append(inputData, d)
    /\ isJobEmpty' = FALSE
    /\ NotifyJob
    /\ UNCHANGED <<data, isStopJobSignaled, isVARecived, outsideVars>>

\* Job::stopJob up to the join, which JobConnection models as a guard.
stopJob ==
    /\ thread # "none"
    /\ isStopJobSignaled' = TRUE
    /\ NotifyJob
    /\ UNCHANGED <<data, inputData, isJobEmpty, submitted, isVARecived, outsideVars>>

\* What join() waits for.
Joinable == thread = "done"

(***************************************************************************)
(* The Processing thread.                                                  *)
(***************************************************************************)
Goto(from, to) == thread = from /\ thread' = to

Subscribe ==
    /\ Goto("subscribe", "loop")
    /\ UNCHANGED <<data, queueVars, isVARecived, outsideVars>>

\* Mutant of Loop: a stopped job does not drain its queue.
LoopUntilStopped ==
    /\ Goto("loop", IF ~isStopJobSignaled THEN "wait" ELSE "final")
    /\ UNCHANGED <<data, queueVars, isVARecived, outsideVars>>

\* The loop condition, read without the lock: m_isStopJobSignaled never goes
\* back to false, so its value and that of m_isJobEmpty at the second read decide.
Loop ==
    /\ Goto("loop", IF ~isStopJobSignaled \/ ~isJobEmpty THEN "wait" ELSE "final")
    /\ UNCHANGED <<data, queueVars, isVARecived, outsideVars>>

\* m_ConditionVariable.wait
Wait ==
    /\ Goto("wait", IF isStopJobSignaled \/ ~isJobEmpty THEN "read" ELSE "asleep")
    /\ UNCHANGED <<data, queueVars, isVARecived, outsideVars>>

\* Mutant of readData: m_isJobEmpty is not set when the last payload is taken.
readDataStale ==
    /\ Goto("read", IF inputData # <<>> THEN "continue" ELSE "loop")
    /\ IF inputData # <<>>
       THEN data' = Head(inputData) /\ inputData' = Tail(inputData)
       ELSE UNCHANGED <<data, inputData>>
    /\ UNCHANGED <<isJobEmpty, isStopJobSignaled, submitted, isVARecived, outsideVars>>

\* The critical section of Job::readData.
readData ==
    /\ Goto("read", IF inputData # <<>> THEN "continue" ELSE "loop")
    /\ IF inputData # <<>>
       THEN /\ data' = Head(inputData)
            /\ inputData' = Tail(inputData)
            /\ isJobEmpty' = (isJobEmpty \/ inputData' = <<>>)
       ELSE UNCHANGED <<data, inputData, isJobEmpty>>
    /\ UNCHANGED <<isStopJobSignaled, submitted, isVARecived, outsideVars>>

\* The SendContinue call of readData, made after the lock is released.
Acknowledge ==
    /\ Goto("continue", "notify")
    /\ acks' = acks + 1
    /\ UNCHANGED <<data, queueVars, isVARecived, processor, foreign, written>>

\* NotifyInputData delivers the payload to the external processor.
NotifyInputData ==
    /\ Goto("notify", "va")
    /\ processor' = processor \union {data}
    /\ UNCHANGED <<data, queueVars, isVARecived, foreign, acks, written>>

\* A subscriber throws: the catch block logs and the loop goes on, although the
\* payload may still be answered.
NotifyThrows ==
    /\ SubscriberThrows # "never"
    /\ Goto("notify", "loop")
    /\ \/ UNCHANGED processor
       \/ SubscriberThrows = "after" /\ processor' = processor \union {data}
    /\ UNCHANGED <<data, queueVars, isVARecived, foreign, acks, written>>

\* Mutant of AwaitResult: m_isVARecived is not reset.
AwaitWithoutReset ==
    /\ Goto("va", IF isVARecived THEN "loop" ELSE "vaAsleep")
    /\ UNCHANGED <<data, queueVars, isVARecived, outsideVars>>

\* Mutant of AwaitResult: the thread does not wait for the result.
AwaitNothing ==
    /\ Goto("va", "loop")
    /\ isVARecived' = FALSE
    /\ UNCHANGED <<data, queueVars, outsideVars>>

\* m_ConVarVARecived.wait, then m_isVARecived = false.
AwaitResult ==
    /\ Goto("va", IF isVARecived THEN "loop" ELSE "vaAsleep")
    /\ isVARecived' = FALSE
    /\ UNCHANGED <<data, queueVars, outsideVars>>

\* The notification with an empty payload that tells subscribers the job ended.
NotifyEndOfJob ==
    /\ Goto("final", "done")
    /\ UNCHANGED <<data, queueVars, isVARecived, outsideVars>>

\* No try block protects that notification: an exception leaves the thread.
EndOfJobThrows ==
    /\ SubscriberThrows # "never"
    /\ Goto("final", "uncaught")
    /\ UNCHANGED <<data, queueVars, isVARecived, outsideVars>>

\* Both waits may return without a notification.
SpuriousWakeup ==
    /\ \/ Goto("asleep", "wait")
       \/ Goto("vaAsleep", "va")
    /\ UNCHANGED <<data, queueVars, isVARecived, outsideVars>>

ProcessingStep ==
    \/ Subscribe \/ Loop \/ Wait \/ readData \/ Acknowledge
    \/ NotifyInputData \/ NotifyThrows \/ AwaitResult \/ NotifyEndOfJob

(***************************************************************************)
(* The callback subscribed to the processor-result observable.  Every      *)
(* subscribed job receives every result, whichever connection it is for.   *)
(***************************************************************************)
Subscribed == thread \notin {"none", "subscribe"}

\* Mutant of ResultCallback: an empty result does not release the thread.
ResultCallbackIgnoresEmpty(r) ==
    /\ Subscribed
    /\ written' = IF r # Empty THEN Append(written, r) ELSE written
    /\ isVARecived' = (isVARecived \/ r # Empty)
    /\ thread' = IF thread = "vaAsleep" /\ r # Empty THEN "va" ELSE thread

\* Mutant of ResultCallback: m_isVARecived is set, nobody is notified.
ResultCallbackQuiet(r) ==
    /\ Subscribed
    /\ written' = IF r # Empty THEN Append(written, r) ELSE written
    /\ isVARecived' = TRUE
    /\ UNCHANGED thread

ResultCallback(r) ==
    /\ Subscribed
    /\ written' = IF r # Empty THEN Append(written, r) ELSE written
    /\ isVARecived' = TRUE
    /\ thread' = IF thread = "vaAsleep" THEN "va" ELSE thread

\* The processor answers a payload it was given, with a result or an empty one.
OwnResult(d, r) ==
    /\ d \in processor
    /\ r \in {d, Empty}
    /\ ResultCallback(r)
    /\ processor' = processor \ {d}
    /\ UNCHANGED <<data, queueVars, foreign, acks>>

\* A result for another connection is published on the same observable.
ForeignResult(r) ==
    /\ foreign < MaxForeign
    /\ r \in {Foreign, Empty}
    /\ ResultCallback(r)
    /\ foreign' = foreign + 1
    /\ UNCHANGED <<data, queueVars, processor, acks>>

(***************************************************************************)
(* The job with the use JobConnection makes of it: payloads are submitted  *)
(* one after the other, then the job is stopped once.                      *)
(***************************************************************************)
CallerStep ==
    /\ ~isStopJobSignaled
    /\ \/ submitted < MaxData /\ process(submitted + 1)
       \/ stopJob

ProcessorStep ==
    \/ \E d \in processor : \E r \in {d, Empty} : OwnResult(d, r)
    \/ \E r \in {Foreign, Empty} : ForeignResult(r)

JobNext ==
    /\ thread # "uncaught"
    /\ \/ Construct
       \/ CallerStep
       \/ ProcessingStep
       \/ EndOfJobThrows
       \/ SpuriousWakeup
       \/ ProcessorStep

JobSpec == JobInit /\ [][JobNext]_jobVars

(***************************************************************************)
(* Properties.                                                             *)
(***************************************************************************)
JobTypeOK ==
    /\ thread \in ControlPoint /\ data \in 0..MaxData
    /\ inputData \in Seq(Data) /\ isJobEmpty \in BOOLEAN
    /\ isStopJobSignaled \in BOOLEAN /\ isVARecived \in BOOLEAN
    /\ processor \subseteq Data /\ foreign \in 0..MaxForeign
    /\ submitted \in 0..MaxData /\ acks \in Nat /\ written \in Seq(Payload)

\* The thread never sleeps on work it could do: asleep in the first wait it has
\* neither data nor a stop signal, asleep in the second its own payload is still
\* with the processor, so that the answer will wake it - even when results it did
\* not ask for set m_isVARecived in between.
NoLostWakeup ==
    /\ thread = "asleep" => inputData = <<>> /\ ~isStopJobSignaled
    /\ thread = "vaAsleep" => ~isVARecived /\ data \in processor

\* The loop condition reads m_isStopJobSignaled and m_isJobEmpty unlocked; even
\* so the thread leaves the loop only when every payload was read and
\* acknowledged and nothing more will be submitted.
DrainedAtExit ==
    thread \in {"final", "done", "uncaught"} =>
        isStopJobSignaled /\ inputData = <<>> /\ acks = submitted

\* Undisturbed, the processor holds at most the one payload the
\* thread is waiting for, and none after the thread has left the loop.
OneInFlight ==
    Undisturbed =>
        /\ processor \subseteq {data}
        /\ processor # {} => thread \in {"va", "vaAsleep"}

\* Undisturbed, results are written in the order the payloads were submitted, each
\* after the Continue that acknowledges its payload.
ResultsInOrder ==
    Undisturbed =>
        /\ \A i, j \in DOMAIN written : i < j => written[i] < written[j]
        /\ \A i \in DOMAIN written : written[i] <= acks
=============================================================================
