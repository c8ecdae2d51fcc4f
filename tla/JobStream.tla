------------------------------ MODULE JobStream ------------------------------
(***************************************************************************)
(* One job of ops-control, from the process it runs to the browsers that   *)
(* watch its log.                                                          *)
(*                                                                         *)
(* The executor's goroutines read the output of the process line by line   *)
(* into a channel of events; one goroutine of the scheduler takes the      *)
(* events, keeps the log, publishes each line to the channels of the       *)
(* subscribers and writes the finished job to disk; the handler of         *)
(* StreamJobLog subscribes, sends a snapshot of the log, looks at the      *)
(* status and then forwards its channel until that is closed.  The locks   *)
(* are held for one map access each, so the three interleave freely.       *)
(*                                                                         *)
(* A line is its number.  stdout and stderr are one pipe here.  The lines  *)
(* the scheduler itself writes (created, started, pid, finished) are not   *)
(* published and are left out, as are performance samples, heartbeats and  *)
(* the archive of a log longer than maxLogSize.                            *)
(***************************************************************************)
EXTENDS Naturals, Sequences, FiniteSets

CONSTANTS
  Viewers,     \* browsers that open the stream of this job, once each
  MaxLines,    \* bound: lines the process writes
  QueueSize,   \* capacity of a subscriber's channel, 256 in the code
  HazardSets   \* what may befall the job, one set for each behaviour

(* "subprocess": the task is a command of its own, and not an internal one *)
(* "trim": other jobs push this one off the list as soon as it may go.     *)
(* "restart": ops-control stops and starts again.                          *)
(* "disk_error": a file is not written.                                    *)
AllHazards == {"subprocess", "trim", "restart", "disk_error"}

ASSUME JobAssumption ==
  /\ MaxLines \in Nat
  /\ QueueSize \in Nat \ {0}
  /\ HazardSets \subseteq SUBSET AllHazards

VARIABLES
  hazards,   \* the hazards of this behaviour (never changes)
  process,   \* "none", "running", "exited"
  written,   \* lines the process has written
  read,      \* lines of these the executor has read
  pipe,      \* "open" or "closed", the end the executor reads
  events,    \* the channel between executor and scheduler
  status,    \* JobDetail.Status, success and failed being one
  listed,    \* the job is in s.jobs
  log,       \* lines in the job's log
  calls,     \* what the goroutine of the job has still to call
  outputs,   \* subscribers the event being published is still to be sent to
  sending,   \* that event
  subs,      \* s.subs[id]
  channel,   \* the channel of each subscriber
  closed,    \* it has been closed
  dropped,   \* an event did not fit in it
  disk,      \* meta.json and final.log
  viewer,    \* where the handler of each browser is
  shown,     \* lines the browser has
  told       \* who told the browser that the job is done

executorVars == <<process, written, read, pipe>>
recordVars == <<status, listed, log>>
streamVars == <<subs, channel, closed, dropped>>
publishVars == <<outputs, sending>>
viewerVars == <<viewer, shown, told>>
vars == <<hazards, executorVars, events, recordVars, calls, publishVars,
          streamVars, disk, viewerVars>>

Line(n) == [type |-> "log_line", line |-> n]
Event(type) == [type |-> type, line |-> 0]

Envelopes == {Line(n) : n \in 1..MaxLines}
               \cup {Event(e) : e \in {"job_state", "done"}}

Call(c) == [call |-> c, event |-> Event("none")]
Publish(e) == [call |-> "publish", event |-> e]

CallNames == {"started", "finished", "append", "lookup", "meta", "final",
              "publish", "close"}
Calls == [call: CallNames, event: Envelopes \cup {Event("none")}]

Nothing == [meta |-> "none", lines |-> 0]

TypeOK ==
  /\ hazards \in HazardSets
  /\ process \in {"none", "running", "exited"}
  /\ written \in 0..MaxLines
  /\ read \in 0..written
  /\ pipe \in {"open", "closed"}
  /\ events \in Seq({"started", "line", "finished"})
  /\ status \in {"queued", "running", "finished"}
  /\ listed \in BOOLEAN
  /\ log \in 0..MaxLines
  /\ calls \in Seq(Calls)
  /\ outputs \subseteq Viewers
  /\ sending \in Envelopes \cup {Event("none")}
  /\ subs \subseteq Viewers
  /\ channel \in [Viewers -> Seq(Envelopes)]
  /\ \A v \in Viewers : Len(channel[v]) <= QueueSize
  /\ closed \in [Viewers -> BOOLEAN]
  /\ dropped \in [Viewers -> BOOLEAN]
  /\ disk \in [meta: {"none", "queued", "running", "finished"},
               lines: 0..MaxLines]
  /\ viewer \in [Viewers -> {"away", "snapshot", "check", "stream", "left"}]
  /\ shown \in [Viewers -> SUBSET (1..MaxLines)]
  /\ told \in [Viewers -> {"no", "check", "stream"}]

(* StartJob has listed the job and is about to run it.                     *)
Init ==
  /\ hazards \in HazardSets
  /\ process = "none" /\ written = 0 /\ read = 0 /\ pipe = "open"
  /\ events = <<>>
  /\ status = "queued" /\ listed = TRUE /\ log = 0
  /\ calls = <<>>
  /\ outputs = {} /\ sending = Event("none")
  /\ subs = {}
  /\ channel = [v \in Viewers |-> <<>>]
  /\ closed = [v \in Viewers |-> FALSE]
  /\ dropped = [v \in Viewers |-> FALSE]
  /\ disk = Nothing
  /\ viewer = [v \in Viewers |-> "away"]
  /\ shown = [v \in Viewers |-> {}]
  /\ told = [v \in Viewers |-> "no"]

-----------------------------------------------------------------------------
(* The handlers of the scheduler, as the calls each of them makes in turn. *)
StartCalls == <<Call("started"), Publish(Event("job_state"))>>

(* Faulty variant: the line is published, then appended.                   *)
LineCallsPublishFirst(n) == <<Publish(Line(n)), Call("append")>>

LineCalls(n) == <<Call("append"), Publish(Line(n))>>

(* Faulty variants: done is published before the job is on disk; the       *)
(* channels are not closed.                                                *)
FinishCallsPersistLast ==
  <<Call("finished"), Call("lookup"), Publish(Event("done")), Call("meta"),
    Call("final"), Call("close")>>

FinishCallsLeaveOpen ==
  <<Call("finished"), Call("lookup"), Call("meta"), Call("final"),
    Publish(Event("done"))>>

(* The calls of failJob are the same, but for an envelope "error" published *)
(* before done, which ends no stream and is left out.                      *)
FinishCalls ==
  <<Call("finished"), Call("lookup"), Call("meta"), Call("final"),
    Publish(Event("done")), Call("close")>>

-----------------------------------------------------------------------------
(* The executor.                                                           *)
Run ==
  /\ process = "none" /\ status = "queued" /\ calls = <<>>
  /\ process' = "running"
  /\ events' = Append(events, "started")
  /\ UNCHANGED <<hazards, written, read, pipe, recordVars, calls, publishVars,
                 streamVars, disk, viewerVars>>

(* The command cannot be started: failJob from StartJob itself.            *)
RunFails ==
  /\ process = "none" /\ status = "queued" /\ calls = <<>>
  /\ process' = "exited" /\ pipe' = "closed"
  /\ calls' = FinishCalls
  /\ UNCHANGED <<hazards, written, read, events, recordVars, publishVars,
                 streamVars, disk, viewerVars>>

WriteLine ==
  /\ process = "running"
  /\ written < MaxLines
  /\ written' = written + 1
  /\ UNCHANGED <<hazards, process, read, pipe, events, recordVars, calls,
                 publishVars, streamVars, disk, viewerVars>>

Exit ==
  /\ process = "running"
  /\ process' = "exited"
  /\ UNCHANGED <<hazards, written, read, pipe, events, recordVars, calls,
                 publishVars, streamVars, disk, viewerVars>>

(* pipeStream.  A line is one its scanner takes, of 2 MiB at most: at a    *)
(* longer one it logs an error and reads no further.                       *)
ReadLine ==
  /\ pipe = "open"
  /\ read < written
  /\ read' = read + 1
  /\ events' = Append(events, "line")
  /\ UNCHANGED <<hazards, process, written, pipe, recordVars, calls,
                 publishVars, streamVars, disk, viewerVars>>

(* cmd.Wait returns when the process has exited, and closes the pipe with  *)
(* what is still in it.                                                    *)
WaitForSubprocess ==
  /\ "subprocess" \in hazards
  /\ process = "exited"
  /\ pipe = "open"
  /\ pipe' = "closed"
  /\ events' = Append(events, "finished")
  /\ UNCHANGED <<hazards, process, written, read, recordVars, calls,
                 publishVars, streamVars, disk, viewerVars>>

(* Faulty variant: wg.Wait is forgotten.                                   *)
FinishInternalAtOnce ==
  /\ "subprocess" \notin hazards
  /\ process = "exited"
  /\ pipe = "open"
  /\ pipe' = "closed"
  /\ events' = Append(events, "finished")
  /\ UNCHANGED <<hazards, process, written, read, recordVars, calls,
                 publishVars, streamVars, disk, viewerVars>>

(* runInternal closes the end it writes and waits for both readers.        *)
FinishInternal ==
  /\ "subprocess" \notin hazards
  /\ process = "exited"
  /\ pipe = "open"
  /\ read = written
  /\ pipe' = "closed"
  /\ events' = Append(events, "finished")
  /\ UNCHANGED <<hazards, process, written, read, recordVars, calls,
                 publishVars, streamVars, disk, viewerVars>>

-----------------------------------------------------------------------------
(* The goroutine of the job.                                               *)
ConsumeExecution ==
  /\ calls = <<>> /\ outputs = {}
  /\ events # <<>>
  /\ events' = Tail(events)
  /\ calls' = CASE Head(events) = "started" -> StartCalls
                [] Head(events) = "line" -> LineCalls(log + 1)
                [] Head(events) = "finished" -> FinishCalls
  /\ UNCHANGED <<hazards, executorVars, recordVars, publishVars, streamVars,
                 disk, viewerVars>>

Calling(c) == calls # <<>> /\ outputs = {} /\ Head(calls).call = c
Called == calls' = Tail(calls)

UpdateStatus ==
  /\ Calling("started") \/ Calling("finished")
  /\ status' = IF ~ listed THEN status
               ELSE IF Calling("started") THEN "running" ELSE "finished"
  /\ Called
  /\ UNCHANGED <<hazards, executorVars, events, listed, log, publishVars,
                 streamVars, disk, viewerVars>>

AppendJobLog ==
  /\ Calling("append")
  /\ log' = IF listed THEN log + 1 ELSE log
  /\ Called
  /\ UNCHANGED <<hazards, executorVars, events, status, listed, publishVars,
                 streamVars, disk, viewerVars>>

(* getJobRecord: of a job that is no longer listed, nothing more is done.  *)
LookUpJob ==
  /\ Calling("lookup")
  /\ calls' = IF listed THEN Tail(calls) ELSE <<>>
  /\ UNCHANGED <<hazards, executorVars, events, recordVars, publishVars,
                 streamVars, disk, viewerVars>>

(* persistJobMeta writes two files and ignores their errors.               *)
PersistJob ==
  /\ \/ Calling("meta") /\ disk' = [disk EXCEPT !.meta = status]
     \/ Calling("final") /\ disk' = [disk EXCEPT !.lines = log]
     \/ /\ "disk_error" \in hazards
        /\ Calling("meta") \/ Calling("final")
        /\ UNCHANGED disk
  /\ Called
  /\ UNCHANGED <<hazards, executorVars, events, recordVars, publishVars,
                 streamVars, viewerVars>>

(* publish copies the channels under the lock ...                          *)
CollectOutputs ==
  /\ Calling("publish")
  /\ outputs' = subs
  /\ sending' = Head(calls).event
  /\ Called
  /\ UNCHANGED <<hazards, executorVars, events, recordVars, streamVars, disk,
                 viewerVars>>

(* Faulty variant: a slow subscriber's events are kept for it.             *)
SendWithoutLimit(v) ==
  /\ v \in outputs
  /\ ~ closed[v]
  /\ outputs' = outputs \ {v}
  /\ channel' = [channel EXCEPT ![v] = Append(@, sending)]
  /\ UNCHANGED <<hazards, executorVars, events, recordVars, calls, sending,
                 subs, closed, dropped, disk, viewerVars>>

(* ... and sends without it, to the channels that have room.               *)
SendTo(v) ==
  /\ v \in outputs
  /\ ~ closed[v]
  /\ outputs' = outputs \ {v}
  /\ IF Len(channel[v]) < QueueSize
     THEN /\ channel' = [channel EXCEPT ![v] = Append(@, sending)]
          /\ UNCHANGED dropped
     ELSE /\ dropped' = [dropped EXCEPT ![v] = TRUE]
          /\ UNCHANGED channel
  /\ UNCHANGED <<hazards, executorVars, events, recordVars, calls, sending,
                 subs, closed, disk, viewerVars>>

CloseJobSubs ==
  /\ Calling("close")
  /\ closed' = [v \in Viewers |-> closed[v] \/ v \in subs]
  /\ subs' = {}
  /\ Called
  /\ UNCHANGED <<hazards, executorVars, events, recordVars, publishVars,
                 channel, dropped, disk, viewerVars>>

(* trimJobsLocked, run by the StartJob of another job.                     *)
TrimJob ==
  /\ "trim" \in hazards
  /\ listed
  /\ status = "finished"
  /\ listed' = FALSE
  /\ subs' = {}
  /\ UNCHANGED <<hazards, executorVars, events, status, log, calls,
                 publishVars, channel, closed, dropped, disk, viewerVars>>

(* The goroutines and connections are gone, New loads what is on disk.     *)
Restart ==
  /\ "restart" \in hazards
  /\ process' = "exited" /\ pipe' = "closed" /\ events' = <<>>
  /\ calls' = <<>> /\ outputs' = {} /\ subs' = {}
  /\ listed' = (disk.meta # "none")
  /\ status' = IF disk.meta = "none" THEN status ELSE disk.meta
  /\ log' = disk.lines
  /\ viewer' = [v \in Viewers |-> IF viewer[v] = "away" THEN "away" ELSE "left"]
  /\ UNCHANGED <<hazards, written, read, sending, channel, closed, dropped,
                 disk, shown, told>>

-----------------------------------------------------------------------------
(* The handler of StreamJobLog.                                            *)
Subscribe(v) ==
  /\ viewer[v] = "away"
  /\ listed
  /\ subs' = subs \cup {v}
  /\ viewer' = [viewer EXCEPT ![v] = "snapshot"]
  /\ UNCHANGED <<hazards, executorVars, events, recordVars, calls, publishVars,
                 channel, closed, dropped, disk, shown, told>>

SendSnapshot(v) ==
  /\ viewer[v] = "snapshot"
  /\ shown' = [shown EXCEPT ![v] = IF listed THEN 1..log ELSE @]
  /\ viewer' = [viewer EXCEPT ![v] = "check"]
  /\ UNCHANGED <<hazards, executorVars, events, recordVars, calls, publishVars,
                 streamVars, disk, told>>

(* Faulty variant: cancel closes the channel.                              *)
CancelClosing(v) ==
  /\ subs' = subs \ {v}
  /\ closed' = [closed EXCEPT ![v] = TRUE]

Cancel(v) ==
  /\ subs' = subs \ {v}
  /\ UNCHANGED closed

Leave(v, by) ==
  /\ Cancel(v)
  /\ viewer' = [viewer EXCEPT ![v] = "left"]
  /\ told' = [told EXCEPT ![v] = IF @ = "no" THEN by ELSE @]

JobDone == listed /\ status = "finished"

(* A job that is done is reported as such, and the channel is not read.    *)
CheckDone(v) ==
  /\ viewer[v] = "check"
  /\ JobDone
  /\ Leave(v, "check")
  /\ UNCHANGED <<hazards, executorVars, events, recordVars, calls, publishVars,
                 channel, dropped, disk, shown>>

CheckRunning(v) ==
  /\ viewer[v] = "check"
  /\ ~ JobDone
  /\ viewer' = [viewer EXCEPT ![v] = "stream"]
  /\ UNCHANGED <<hazards, executorVars, events, recordVars, calls, publishVars,
                 streamVars, disk, shown, told>>

Forward(v) ==
  /\ viewer[v] = "stream"
  /\ channel[v] # <<>>
  /\ LET e == Head(channel[v]) IN
       /\ shown' = [shown EXCEPT ![v] =
                      IF e.type = "log_line" THEN @ \cup {e.line} ELSE @]
       /\ told' = [told EXCEPT ![v] = IF e.type = "done" THEN "stream" ELSE @]
  /\ channel' = [channel EXCEPT ![v] = Tail(@)]
  /\ UNCHANGED <<hazards, executorVars, events, recordVars, calls, publishVars,
                 subs, closed, dropped, disk, viewer>>

ChannelClosed(v) ==
  /\ viewer[v] = "stream"
  /\ channel[v] = <<>> /\ closed[v]
  /\ Leave(v, "no")
  /\ UNCHANGED <<hazards, executorVars, events, recordVars, calls, publishVars,
                 channel, dropped, disk, shown>>

Disconnect(v) ==
  /\ viewer[v] = "stream"
  /\ Leave(v, "no")
  /\ UNCHANGED <<hazards, executorVars, events, recordVars, calls, publishVars,
                 channel, dropped, disk, shown>>

(* onError of the page: without a done it loads the log as it is now.      *)
LoadJobLog(v) ==
  /\ viewer[v] = "left" /\ told[v] = "no"
  /\ listed
  /\ shown' = [shown EXCEPT ![v] = 1..log]
  /\ UNCHANGED <<hazards, executorVars, events, recordVars, calls, publishVars,
                 streamVars, disk, viewer, told>>

-----------------------------------------------------------------------------
Execute == \/ WriteLine \/ Exit
           \/ Run \/ RunFails \/ ReadLine \/ WaitForSubprocess \/ FinishInternal

Schedule == \/ ConsumeExecution \/ UpdateStatus \/ AppendJobLog \/ LookUpJob
            \/ PersistJob \/ CollectOutputs \/ CloseJobSubs
            \/ \E v \in Viewers : SendTo(v)

Serve(v) == \/ SendSnapshot(v) \/ CheckDone(v) \/ CheckRunning(v)
            \/ Forward(v) \/ ChannelClosed(v)

Next == \/ Execute \/ Schedule \/ TrimJob \/ Restart
        \/ \E v \in Viewers : \/ Subscribe(v) \/ Serve(v) \/ Disconnect(v)
                              \/ LoadJobLog(v)

Spec == Init /\ [][Next]_vars

(* The goroutine of the job and those of the handlers go on as long as     *)
(* they can: none of them blocks for ever on a channel that has room or a  *)
(* lock held for one map access.  Nothing is assumed of the process.       *)
FairSpec == /\ Spec
            /\ WF_vars(Schedule)
            /\ \A v \in Viewers : WF_vars(Serve(v))

-----------------------------------------------------------------------------
Between == calls = <<>> /\ outputs = {}

(* The goroutine of the job never sends on a closed channel, which would   *)
(* stop the whole server: publish sends to channels it copied under the    *)
(* lock, after it let the lock go.                                         *)
NoSendOnClosed == \A v \in outputs : ~ closed[v]

(* A browser that follows the stream has every line of the log, whenever   *)
(* it subscribed: what is not in the snapshot is in its channel.  Only the *)
(* events that did not fit are missing, the lines between the snapshot and *)
(* the status if that said done, and the snapshot if the job was trimmed.  *)
NoGap ==
  \A v \in Viewers :
    /\ ~ dropped[v] /\ "trim" \notin hazards
    /\ \/ viewer[v] = "stream" /\ channel[v] = <<>> /\ Between /\ listed
       \/ viewer[v] = "left" /\ told[v] = "stream"
    => 1..log \subseteq shown[v]

(* All that an internal task has written is in the log when it is done.    *)
(* For a command of its own it need not be: cmd.Wait closes the pipe.      *)
AllOutputLogged ==
  hazards = {} /\ status = "finished" => log = written

(* A browser the stream told that the job is done finds it again after a   *)
(* restart, with the log.                                                  *)
DoneIsPersisted ==
  "disk_error" \notin hazards =>
    \A v \in Viewers :
      told[v] = "stream" => disk.meta = "finished" /\ disk.lines = log

(* Each handler returns once the job is done: its channel is closed, or it *)
(* subscribed after that and finds the status.  A job that is trimmed      *)
(* before that leaves its handlers waiting.                                *)
StreamEnds ==
  \A v \in Viewers :
    /\ "trim" \notin hazards
    /\ status = "finished"
    /\ viewer[v] \in {"snapshot", "check", "stream"}
    ~> viewer[v] = "left"
=============================================================================
