--------------------------- MODULE JobStream_proofs ---------------------------
(***************************************************************************)
(* Proofs about JobStream, for every set of browsers, every number of      *)
(* lines, every capacity of the channels and every set of hazards.         *)
(***************************************************************************)
EXTENDS JobStream, TLAPS

(* What is left of the calls of each handler.                              *)
StartEnd == <<Publish(Event("job_state"))>>
LineEnd(n) == <<Publish(Line(n))>>
FromLookup == <<Call("lookup"), Call("meta"), Call("final"),
                Publish(Event("done")), Call("close")>>
FromMeta == <<Call("meta"), Call("final"), Publish(Event("done")), Call("close")>>
FromFinal == <<Call("final"), Publish(Event("done")), Call("close")>>
FromDone == <<Publish(Event("done")), Call("close")>>
FromClose == <<Call("close")>>

Finishing == {FinishCalls, FromLookup, FromMeta, FromFinal, FromDone, FromClose}

Plan ==
  \/ calls = <<>>
  \/ calls \in {StartCalls, StartEnd}
  \/ \E n \in 1..MaxLines : calls \in {LineCalls(n), LineEnd(n)}
  \/ calls \in Finishing

LEMMA Tails ==
  /\ Tail(StartCalls) = StartEnd /\ Tail(StartEnd) = <<>>
  /\ \A n : Tail(LineCalls(n)) = LineEnd(n) /\ Tail(LineEnd(n)) = <<>>
  /\ Tail(FinishCalls) = FromLookup /\ Tail(FromLookup) = FromMeta
  /\ Tail(FromMeta) = FromFinal /\ Tail(FromFinal) = FromDone
  /\ Tail(FromDone) = FromClose /\ Tail(FromClose) = <<>>
  BY DEF StartCalls, StartEnd, LineCalls, LineEnd, FinishCalls, FromLookup,
     FromMeta, FromFinal, FromDone, FromClose

LEMMA Heads ==
  /\ Head(StartCalls) = Call("started") /\ Head(StartEnd) = Publish(Event("job_state"))
  /\ \A n : Head(LineCalls(n)) = Call("append") /\ Head(LineEnd(n)) = Publish(Line(n))
  /\ Head(FinishCalls) = Call("finished") /\ Head(FromLookup) = Call("lookup")
  /\ Head(FromMeta) = Call("meta") /\ Head(FromFinal) = Call("final")
  /\ Head(FromDone) = Publish(Event("done")) /\ Head(FromClose) = Call("close")
  BY DEF StartCalls, StartEnd, LineCalls, LineEnd, FinishCalls, FromLookup,
     FromMeta, FromFinal, FromDone, FromClose

LEMMA NotEmpty ==
  /\ StartCalls # <<>> /\ StartEnd # <<>>
  /\ \A n : LineCalls(n) # <<>> /\ LineEnd(n) # <<>>
  /\ \A p \in Finishing : p # <<>>
  BY DEF StartCalls, StartEnd, LineCalls, LineEnd, FinishCalls, FromLookup,
     FromMeta, FromFinal, FromDone, FromClose, Finishing

LEMMA CallFields ==
  /\ \A c : Call(c).call = c /\ Call(c).event = Event("none")
  /\ \A e : Publish(e).call = "publish" /\ Publish(e).event = e
  /\ \A t : Event(t).type = t /\ Event(t).line = 0
  /\ \A n : Line(n).type = "log_line" /\ Line(n).line = n
  BY DEF Call, Publish, Event, Line

(* The next call tells where the goroutine is.                             *)
LEMMA ByCall ==
  ASSUME Plan, calls # <<>>, NEW c, c = Head(calls).call
  PROVE  /\ c \in CallNames
         /\ c = "started" => calls = StartCalls /\ Tail(calls) = StartEnd
         /\ c = "append" =>
              \E n \in 1..MaxLines : calls = LineCalls(n) /\ Tail(calls) = LineEnd(n)
         /\ c = "finished" => calls = FinishCalls /\ Tail(calls) = FromLookup
         /\ c = "lookup" => calls = FromLookup /\ Tail(calls) = FromMeta
         /\ c = "meta" => calls = FromMeta /\ Tail(calls) = FromFinal
         /\ c = "final" => calls = FromFinal /\ Tail(calls) = FromDone
         /\ c = "close" => calls = FromClose /\ Tail(calls) = <<>>
         /\ c = "publish" =>
              \/ calls = StartEnd /\ Tail(calls) = <<>> /\ Head(calls).event = Event("job_state")
              \/ \E n \in 1..MaxLines :
                   calls = LineEnd(n) /\ Tail(calls) = <<>> /\ Head(calls).event = Line(n)
              \/ calls = FromDone /\ Tail(calls) = FromClose /\ Head(calls).event = Event("done")
  <1>1. CASE calls = StartCalls BY <1>1, Tails, Heads, CallFields DEF CallNames
  <1>2. CASE calls = StartEnd BY <1>2, Tails, Heads, CallFields DEF CallNames
  <1>3. ASSUME NEW n \in 1..MaxLines, calls = LineCalls(n)
        PROVE  /\ c = "append" /\ Tail(calls) = LineEnd(n)
    BY <1>3, Tails, Heads, CallFields
  <1>4. ASSUME NEW n \in 1..MaxLines, calls = LineEnd(n)
        PROVE  /\ c = "publish" /\ Tail(calls) = <<>> /\ Head(calls).event = Line(n)
    BY <1>4, Tails, Heads, CallFields
  <1>5. CASE \E n \in 1..MaxLines : calls \in {LineCalls(n), LineEnd(n)}
    BY <1>3, <1>4, <1>5 DEF CallNames
  <1>6. CASE calls = FinishCalls BY <1>6, Tails, Heads, CallFields DEF CallNames
  <1>7. CASE calls = FromLookup BY <1>7, Tails, Heads, CallFields DEF CallNames
  <1>8. CASE calls = FromMeta BY <1>8, Tails, Heads, CallFields DEF CallNames
  <1>9. CASE calls = FromFinal
    <2>1. c = "final" /\ Tail(calls) = FromDone BY <1>9, Tails, Heads, CallFields
    <2> QED BY <1>9, <2>1 DEF CallNames
  <1>10. CASE calls = FromDone
    <2>1. /\ c = "publish" /\ Tail(calls) = FromClose
          /\ Head(calls).event = Event("done")
      BY <1>10, Tails, Heads, CallFields
    <2> QED BY <1>10, <2>1 DEF CallNames
  <1>11. CASE calls = FromClose
    <2>1. c = "close" /\ Tail(calls) = <<>> BY <1>11, Tails, Heads, CallFields
    <2> QED BY <1>11, <2>1 DEF CallNames
  <1> QED BY <1>1, <1>2, <1>5, <1>6, <1>7, <1>8, <1>9, <1>10, <1>11
          DEF Plan, Finishing

(* No two of the plans are the same.                                       *)
LEMMA Distinct ==
  /\ \A n : LineEnd(n) \notin Finishing \cup {<<>>, StartCalls, StartEnd}
  /\ \A n, m : LineEnd(n) # LineCalls(m)
  /\ \A n, m : LineEnd(n) = LineEnd(m) => n = m
  /\ \A n, m : LineCalls(n) = LineCalls(m) => n = m
  /\ \A n : LineCalls(n) \notin Finishing \cup {<<>>, StartCalls, StartEnd}
  /\ {StartCalls, StartEnd} \cap (Finishing \cup {<<>>}) = {}
  /\ FromClose \notin {FinishCalls, FromLookup, FromMeta, FromFinal, FromDone}
  /\ FromDone \notin {FinishCalls, FromLookup, FromMeta, FromFinal}
  /\ FromFinal \notin {FinishCalls, FromLookup, FromMeta}
  /\ FromMeta \notin {FinishCalls, FromLookup} /\ FromLookup # FinishCalls
  <1>1. /\ \A n : LineEnd(n) # <<>> /\ LineCalls(n) # <<>>
        /\ \A p \in Finishing : p # <<>>
    BY NotEmpty
  <1>2. /\ \A n : Head(LineEnd(n)).event.type = "log_line" /\ Head(LineEnd(n)).call = "publish"
        /\ \A n : Head(LineEnd(n)).event.line = n
        /\ \A n : Head(LineCalls(n)).call = "append"
        /\ Head(StartCalls).call = "started"
        /\ Head(StartEnd).call = "publish" /\ Head(StartEnd).event.type = "job_state"
        /\ Head(FinishCalls).call = "finished" /\ Head(FromLookup).call = "lookup"
        /\ Head(FromMeta).call = "meta" /\ Head(FromFinal).call = "final"
        /\ Head(FromDone).call = "publish" /\ Head(FromDone).event.type = "done"
        /\ Head(FromClose).call = "close"
    BY Heads, CallFields
  <1>3. \A n : LineEnd(n) \notin Finishing \cup {<<>>, StartCalls, StartEnd}
    BY <1>1, <1>2 DEF Finishing
  <1>4. \A n, m : LineEnd(n) # LineCalls(m) BY <1>2
  <1>5. \A n, m : LineEnd(n) = LineEnd(m) => n = m BY <1>2
  <1>6. \A n : LineCalls(n) \notin Finishing \cup {<<>>, StartCalls, StartEnd}
    BY <1>1, <1>2 DEF Finishing
  <1>7. {StartCalls, StartEnd} \cap (Finishing \cup {<<>>}) = {}
    BY <1>2, NotEmpty DEF Finishing
  <1>8. /\ FromClose \notin {FinishCalls, FromLookup, FromMeta, FromFinal, FromDone}
        /\ FromDone \notin {FinishCalls, FromLookup, FromMeta, FromFinal}
        /\ FromFinal \notin {FinishCalls, FromLookup, FromMeta}
        /\ FromMeta \notin {FinishCalls, FromLookup} /\ FromLookup # FinishCalls
    BY <1>2
  <1>9. ASSUME NEW n, NEW m, LineCalls(n) = LineCalls(m) PROVE n = m
    <2>1. Tail(LineCalls(n)) = LineEnd(n) /\ Tail(LineCalls(m)) = LineEnd(m)
      BY Tails
    <2> QED BY <1>5, <1>9, <2>1
  <1> QED BY <1>3, <1>4, <1>5, <1>6, <1>7, <1>8, <1>9

LEMMA FinishingType == \A p \in Finishing : p \in Seq(Calls)
  <1>1. /\ \A c \in CallNames : Call(c) \in Calls
        /\ Publish(Event("done")) \in Calls
    BY DEF Call, Publish, Calls, CallNames, Envelopes
  <1>2. /\ Call("finished") \in Calls /\ Call("lookup") \in Calls
        /\ Call("meta") \in Calls /\ Call("final") \in Calls
        /\ Publish(Event("done")) \in Calls /\ Call("close") \in Calls
    BY <1>1 DEF CallNames
  <1>3. FinishCalls \in Seq(Calls) BY <1>2 DEF FinishCalls
  <1>4. FromLookup \in Seq(Calls) BY <1>2 DEF FromLookup
  <1>5. FromMeta \in Seq(Calls) BY <1>2 DEF FromMeta
  <1>6. FromFinal \in Seq(Calls) BY <1>2 DEF FromFinal
  <1>7. FromDone \in Seq(Calls) BY <1>2 DEF FromDone
  <1>8. FromClose \in Seq(Calls) BY <1>2 DEF FromClose
  <1> QED BY <1>3, <1>4, <1>5, <1>6, <1>7, <1>8 DEF Finishing

LEMMA LineType ==
  \A n \in 1..MaxLines : LineCalls(n) \in Seq(Calls) /\ LineEnd(n) \in Seq(Calls)
  <1>1. /\ \A c \in CallNames : Call(c) \in Calls
        /\ \A n \in 1..MaxLines : Publish(Line(n)) \in Calls
    BY DEF Call, Publish, Calls, CallNames, Envelopes
  <1> QED BY <1>1 DEF LineCalls, LineEnd, CallNames

LEMMA StartType == StartCalls \in Seq(Calls) /\ StartEnd \in Seq(Calls)
  <1>1. /\ \A c \in CallNames : Call(c) \in Calls
        /\ Publish(Event("job_state")) \in Calls
    BY DEF Call, Publish, Calls, CallNames, Envelopes
  <1> QED BY <1>1 DEF StartCalls, StartEnd, CallNames

LEMMA PlanType == Plan => calls \in Seq(Calls)
  <1>4. \A p \in Finishing : p \in Seq(Calls) BY FinishingType
  <1>5. <<>> \in Seq(Calls) OBVIOUS
  <1>6. CASE calls = <<>> BY <1>5, <1>6
  <1>7. CASE calls \in {StartCalls, StartEnd} BY StartType, <1>7
  <1>8. CASE \E n \in 1..MaxLines : calls \in {LineCalls(n), LineEnd(n)}
    BY LineType, <1>8
  <1>9. CASE calls \in Finishing BY <1>4, <1>9
  <1> QED BY <1>6, <1>7, <1>8, <1>9 DEF Plan

-----------------------------------------------------------------------------
(* The executor and the goroutine of the job.                              *)

(* The process has gone and nothing of it is left to be consumed.          *)
Ended == pipe = "closed" /\ process = "exited" /\ events = <<>>

IsEvent(i, e) == i \in 1..Len(events) /\ events[i] = e

EventInv ==
  /\ process = "none" =>
       /\ pipe = "open" /\ events = <<>> /\ calls = <<>>
       /\ written = 0 /\ read = 0 /\ log = 0
  /\ pipe = "closed" => process = "exited"
  /\ \A i \in 1..Len(events) : events[i] = "started" => i = 1
  /\ \A i \in 1..Len(events) :
       events[i] = "finished" => i = Len(events) /\ pipe = "closed"

PlanInv ==
  /\ Plan
  /\ calls \in Finishing => Ended
  /\ \A n \in 1..MaxLines : calls = LineCalls(n) => n = log + 1
  /\ status = "finished" => Ended /\ calls \in Finishing \cup {<<>>}

(* Each line that was read is in the log, among the events, or about to    *)
(* be appended, once.                                                      *)
First == IF IsEvent(1, "started") THEN 1 ELSE 0
Last == IF IsEvent(Len(events), "finished") THEN 1 ELSE 0
Appending == IF \E n \in 1..MaxLines : calls = LineCalls(n) THEN 1 ELSE 0

LogInv ==
  /\ log + Len(events) + Appending <= read + First + Last
  /\ disk.lines <= log

OutputInv ==
  hazards = {} =>
    /\ listed
    /\ pipe = "closed" => read = written
    /\ log + Len(events) + Appending = read + First + Last

(* How far the finished job has been written.                              *)
StageInv ==
  /\ calls = FromLookup /\ listed => status = "finished"
  /\ calls \in {FromMeta, FromFinal, FromDone} => status = "finished"
  /\ "disk_error" \notin hazards =>
       /\ calls \in {FromFinal, FromDone} => disk.meta = "finished"
       /\ calls = FromDone => disk.lines = log

SchedInv == TypeOK /\ EventInv /\ PlanInv /\ LogInv /\ OutputInv /\ StageInv

LEMMA SchedInit == Init => SchedInv
  <1> SUFFICES ASSUME Init PROVE SchedInv OBVIOUS
  <1> USE JobAssumption
  <1>1. TypeOK BY DEF Init, TypeOK, Nothing
  <1>2. calls = <<>> /\ events = <<>> BY DEF Init
  <1>3. EventInv BY <1>2 DEF Init, EventInv
  <1>4. /\ calls \notin Finishing
        /\ \A n : calls # LineCalls(n)
        /\ calls \notin {FromLookup, FromMeta, FromFinal, FromDone}
    BY <1>2, NotEmpty DEF Finishing
  <1>5. PlanInv BY <1>2, <1>4 DEF Init, PlanInv, Plan
  <1>6. First = 0 /\ Last = 0 /\ Appending = 0
    BY <1>2, <1>4 DEF First, Last, Appending, IsEvent
  <1>7. LogInv /\ OutputInv
    BY <1>2, <1>6 DEF Init, LogInv, OutputInv, Nothing
  <1>8. StageInv BY <1>4 DEF StageInv
  <1> QED BY <1>1, <1>3, <1>5, <1>7, <1>8 DEF SchedInv

schedVars == <<hazards, executorVars, events, recordVars, calls, disk>>

(* What the rest of the program does leaves all this as it is.             *)
LEMMA SchedFrame ==
  ASSUME SchedInv, TypeOK', UNCHANGED schedVars
  PROVE  SchedInv'
  <1>1. /\ UNCHANGED <<hazards, process, written, read, pipe, events, status>>
        /\ UNCHANGED <<listed, log, calls, disk>>
    BY DEF schedVars, executorVars, recordVars
  <1>2. /\ EventInv' = EventInv /\ PlanInv' = PlanInv /\ LogInv' = LogInv
        /\ OutputInv' = OutputInv /\ StageInv' = StageInv
    BY <1>1 DEF EventInv, PlanInv, Plan, Ended, LogInv, OutputInv, StageInv,
       First, Last, Appending, IsEvent
  <1> QED BY <1>2 DEF SchedInv

LEMMA NoLength ==
  ASSUME NEW S, NEW s \in Seq(S), Len(s) = 0
  PROVE  s = <<>>
  OBVIOUS

LEMMA AppendEvent ==
  ASSUME TypeOK, NEW e \in {"started", "line", "finished"},
         events' = Append(events, e)
  PROVE  /\ events' \in Seq({"started", "line", "finished"})
         /\ Len(events') = Len(events) + 1 /\ Len(events) \in Nat
         /\ events'[Len(events) + 1] = e
         /\ \A i \in 1..Len(events) : events'[i] = events[i]
  BY DEF TypeOK

LEMMA TailEvent ==
  ASSUME TypeOK, events # <<>>, events' = Tail(events)
  PROVE  /\ events' \in Seq({"started", "line", "finished"})
         /\ Len(events) = Len(events') + 1 /\ Len(events') \in Nat
         /\ \A i \in 1..Len(events') : events'[i] = events[i + 1]
         /\ Head(events) = events[1]
         /\ events[1] \in {"started", "line", "finished"}
  BY DEF TypeOK

LEMMA EmptyEvents ==
  /\ events = <<>> => Len(events) = 0 /\ First = 0 /\ Last = 0
  /\ First \in {0, 1} /\ Last \in {0, 1} /\ Appending \in {0, 1}
  BY DEF First, Last, Appending, IsEvent

(* Steps that leave the events, the calls and the files alone.             *)
LEMMA ProcessStep ==
  ASSUME SchedInv, WriteLine \/ Exit
  PROVE  SchedInv'
  <1> USE DEF SchedInv
  <1>1. /\ UNCHANGED <<hazards, read, pipe, events, status, listed, log, calls, disk>>
        /\ process = "running" /\ process' \in {"running", "exited"}
        /\ written' \in written..MaxLines /\ written \in Nat /\ MaxLines \in Nat
        /\ UNCHANGED <<outputs, sending, subs, channel, closed, dropped>>
        /\ UNCHANGED <<viewer, shown, told>>
    BY JobAssumption DEF WriteLine, Exit, executorVars, recordVars, publishVars,
       streamVars, viewerVars, TypeOK
  <1>2. TypeOK' BY <1>1 DEF TypeOK
  <1>3. pipe = "open" BY <1>1 DEF EventInv, TypeOK
  <1>4. EventInv' BY <1>1, <1>3 DEF EventInv
  <1>5. ~ Ended BY <1>3 DEF Ended
  <1>6. PlanInv' BY <1>1, <1>5 DEF PlanInv, Plan
  <1>7. /\ First' = First /\ Last' = Last /\ Appending' = Appending
    BY <1>1 DEF First, Last, Appending, IsEvent
  <1>8. LogInv' /\ OutputInv' BY <1>1, <1>3, <1>7 DEF LogInv, OutputInv
  <1>9. StageInv' BY <1>1 DEF StageInv
  <1> QED BY <1>2, <1>4, <1>6, <1>8, <1>9

LEMMA RunStep ==
  ASSUME SchedInv, Run
  PROVE  SchedInv'
  <1> USE DEF SchedInv
  <1>1. /\ process = "none" /\ process' = "running" /\ calls = <<>> /\ status = "queued"
        /\ events' = Append(events, "started")
        /\ UNCHANGED <<hazards, written, read, pipe, status, listed, log, calls, disk>>
        /\ UNCHANGED <<outputs, sending, subs, channel, closed, dropped>>
        /\ UNCHANGED <<viewer, shown, told>>
    BY DEF Run, recordVars, publishVars, streamVars, viewerVars
  <1>2. /\ events' \in Seq({"started", "line", "finished"})
        /\ Len(events') = 1 /\ events'[1] = "started" /\ Len(events) = 0
    BY <1>1, AppendEvent, EmptyEvents DEF EventInv
  <1>3. TypeOK' BY <1>1, <1>2 DEF TypeOK
  <1>4. EventInv' BY <1>1, <1>2 DEF EventInv
  <1>5. calls \notin Finishing BY <1>1, NotEmpty
  <1>6. PlanInv' BY <1>1, <1>5 DEF PlanInv, Plan
  <1>7. First = 0 /\ Last = 0 /\ First' = 1 /\ Last' = 0 /\ Appending' = Appending
    BY <1>1, <1>2, EmptyEvents DEF EventInv, First, Last, Appending, IsEvent
  <1>8. Appending \in {0, 1} BY EmptyEvents
  <1>9. LogInv' BY <1>1, <1>2, <1>7, <1>8 DEF LogInv, TypeOK
  <1>10. OutputInv' BY <1>1, <1>2, <1>7, <1>8 DEF OutputInv, TypeOK
  <1>11. StageInv' BY <1>1 DEF StageInv
  <1> QED BY <1>3, <1>4, <1>6, <1>9, <1>10, <1>11

LEMMA RunFailsStep ==
  ASSUME SchedInv, RunFails
  PROVE  SchedInv'
  <1> USE DEF SchedInv
  <1>1. /\ process = "none" /\ process' = "exited" /\ pipe' = "closed"
        /\ calls = <<>> /\ status = "queued" /\ calls' = FinishCalls
        /\ UNCHANGED <<hazards, written, read, events, status, listed, log, disk>>
        /\ UNCHANGED <<outputs, sending, subs, channel, closed, dropped>>
        /\ UNCHANGED <<viewer, shown, told>>
    BY DEF RunFails, recordVars, publishVars, streamVars, viewerVars
  <1>2. calls' \in Finishing BY <1>1 DEF Finishing
  <1>3. Plan' BY <1>2 DEF Plan, Finishing
  <1>4. calls' \in Seq(Calls)
    <2>1. FinishCalls \in Finishing BY DEF Finishing
    <2> QED BY <1>1, <2>1, FinishingType
  <1>5. TypeOK' BY <1>1, <1>4 DEF TypeOK
  <1>6. EventInv' BY <1>1 DEF EventInv
  <1>7. Ended' BY <1>1 DEF Ended, EventInv
  <1>8. \A n : calls' # LineCalls(n) BY <1>1, <1>2, Distinct DEF Finishing
  <1>9. PlanInv' BY <1>1, <1>2, <1>3, <1>7, <1>8 DEF PlanInv
  <1>10. /\ First' = First /\ Last' = Last /\ Appending' = 0
         /\ Appending = 0
    BY <1>1, <1>8, NotEmpty DEF First, Last, Appending, IsEvent
  <1>11. LogInv' BY <1>1, <1>10 DEF LogInv
  <1>12. OutputInv' BY <1>1, <1>10 DEF OutputInv, EventInv
  <1>13. StageInv' BY <1>1, Distinct DEF StageInv
  <1> QED BY <1>5, <1>6, <1>9, <1>11, <1>12, <1>13

LEMMA ReadStep ==
  ASSUME SchedInv, ReadLine
  PROVE  SchedInv'
  <1> USE DEF SchedInv
  <1>1. /\ pipe = "open" /\ read < written /\ read' = read + 1
        /\ events' = Append(events, "line")
        /\ UNCHANGED <<hazards, process, written, pipe, status, listed, log, calls, disk>>
        /\ UNCHANGED <<outputs, sending, subs, channel, closed, dropped>>
        /\ UNCHANGED <<viewer, shown, told>>
    BY DEF ReadLine, recordVars, publishVars, streamVars, viewerVars
  <1>2. /\ events' \in Seq({"started", "line", "finished"})
        /\ Len(events') = Len(events) + 1 /\ Len(events) \in Nat
        /\ events'[Len(events) + 1] = "line"
        /\ \A i \in 1..Len(events) : events'[i] = events[i]
    BY <1>1, AppendEvent
  <1>3. TypeOK' BY <1>1, <1>2, JobAssumption DEF TypeOK
  <1>4. \A i \in 1..Len(events) : events[i] # "finished"
    BY <1>1 DEF EventInv
  <1>5. EventInv' BY <1>1, <1>2, <1>4 DEF EventInv, TypeOK
  <1>6. ~ Ended BY <1>1 DEF Ended
  <1>7. PlanInv' BY <1>1, <1>6 DEF PlanInv, Plan
  <1>8. /\ First' = First /\ Last = 0 /\ Last' = 0 /\ Appending' = Appending
    BY <1>1, <1>2, <1>4 DEF First, Last, Appending, IsEvent
  <1>9. LogInv' BY <1>1, <1>2, <1>8, EmptyEvents DEF LogInv, TypeOK
  <1>10. OutputInv' BY <1>1, <1>2, <1>8, EmptyEvents DEF OutputInv, TypeOK
  <1>11. StageInv' BY <1>1 DEF StageInv
  <1> QED BY <1>3, <1>5, <1>7, <1>9, <1>10, <1>11

LEMMA FinishStep ==
  ASSUME SchedInv, WaitForSubprocess \/ FinishInternal
  PROVE  SchedInv'
  <1> USE DEF SchedInv
  <1>1. /\ pipe = "open" /\ pipe' = "closed" /\ process = "exited"
        /\ events' = Append(events, "finished")
        /\ hazards = {} => read = written
        /\ UNCHANGED <<hazards, process, written, read, status, listed, log, calls, disk>>
        /\ UNCHANGED <<outputs, sending, subs, channel, closed, dropped>>
        /\ UNCHANGED <<viewer, shown, told>>
    BY DEF WaitForSubprocess, FinishInternal, recordVars, publishVars,
       streamVars, viewerVars
  <1>2. /\ events' \in Seq({"started", "line", "finished"})
        /\ Len(events') = Len(events) + 1 /\ Len(events) \in Nat
        /\ events'[Len(events) + 1] = "finished"
        /\ \A i \in 1..Len(events) : events'[i] = events[i]
    BY <1>1, AppendEvent
  <1>3. TypeOK' BY <1>1, <1>2 DEF TypeOK
  <1>4. \A i \in 1..Len(events) : events[i] # "finished"
    BY <1>1 DEF EventInv
  <1>5. EventInv' BY <1>1, <1>2, <1>4 DEF EventInv
  <1>6. ~ Ended BY <1>1 DEF Ended
  <1>7. PlanInv' BY <1>1, <1>6 DEF PlanInv, Plan
  <1>8. /\ First' = First /\ Last = 0 /\ Last' = 1 /\ Appending' = Appending
    BY <1>1, <1>2, <1>4 DEF First, Last, Appending, IsEvent
  <1>9. LogInv' BY <1>1, <1>2, <1>8, EmptyEvents DEF LogInv, TypeOK
  <1>10. OutputInv' BY <1>1, <1>2, <1>8, EmptyEvents DEF OutputInv, TypeOK
  <1>11. StageInv' BY <1>1 DEF StageInv
  <1> QED BY <1>3, <1>5, <1>7, <1>9, <1>10, <1>11

LEMMA ConsumeStep ==
  ASSUME SchedInv, ConsumeExecution
  PROVE  SchedInv'
  <1> USE DEF SchedInv
  <1>1. /\ calls = <<>> /\ events # <<>> /\ events' = Tail(events)
        /\ calls' = CASE Head(events) = "started" -> StartCalls
                      [] Head(events) = "line" -> LineCalls(log + 1)
                      [] Head(events) = "finished" -> FinishCalls
        /\ UNCHANGED <<hazards, process, written, read, pipe, status, listed, log, disk>>
        /\ UNCHANGED <<outputs, sending, subs, channel, closed, dropped>>
        /\ UNCHANGED <<viewer, shown, told>>
    BY DEF ConsumeExecution, executorVars, recordVars, publishVars,
       streamVars, viewerVars
  <1>2. /\ events' \in Seq({"started", "line", "finished"})
        /\ Len(events) = Len(events') + 1 /\ Len(events') \in Nat
        /\ \A i \in 1..Len(events') : events'[i] = events[i + 1]
        /\ Head(events) = events[1]
        /\ events[1] \in {"started", "line", "finished"}
    BY <1>1, TailEvent
  <1>3. /\ log \in Nat /\ read \in Nat /\ written \in Nat /\ MaxLines \in Nat
        /\ read <= written /\ written <= MaxLines /\ disk.lines \in Nat
    BY JobAssumption DEF TypeOK
  <1>4. ~ Ended /\ process # "none" /\ status # "finished"
    BY <1>1 DEF Ended, EventInv, PlanInv
  <1>5. EventInv'
    <2>1. \A i \in 1..Len(events') : i + 1 \in 1..Len(events)
      BY <1>2
    <2>2. \A i \in 1..Len(events') : events'[i] # "started"
      BY <1>2, <2>1 DEF EventInv
    <2>3. \A i \in 1..Len(events') : events'[i] = "finished" =>
            i = Len(events') /\ pipe = "closed"
      BY <1>2, <2>1 DEF EventInv
    <2> QED BY <1>1, <1>4, <2>2, <2>3 DEF EventInv
  <1>6. /\ First = IF events[1] = "started" THEN 1 ELSE 0
        /\ First' = 0
    BY <1>2 DEF First, IsEvent, EventInv
  <1>7. Last' = IF events[1] = "finished" THEN 0 ELSE Last
    <2>1. CASE events' = <<>>
      <3>1. Len(events') = 0 /\ Len(events) = 1 BY <1>2, <2>1
      <3>2. Last' = 0 BY <3>1 DEF Last, IsEvent
      <3>3. events[1] # "finished" => Last = 0 BY <3>1 DEF Last, IsEvent
      <3> QED BY <3>2, <3>3
    <2>2. CASE events' # <<>>
      <3>1. Len(events') \in 1..Len(events') /\ Len(events') > 0 BY <1>2, <2>2
      <3>2. events'[Len(events')] = events[Len(events)] BY <1>2, <3>1
      <3>3. events[1] # "finished" BY <1>2, <3>1 DEF EventInv
      <3>4. Last' = Last BY <1>2, <3>1, <3>2 DEF Last, IsEvent
      <3> QED BY <3>3, <3>4
    <2> QED BY <2>1, <2>2
  <1>8. Appending = 0 BY <1>1, NotEmpty DEF Appending
  <1>9. Last \in {0, 1} BY EmptyEvents
  <1>10. CASE events[1] = "started"
    <2>1. calls' = StartCalls BY <1>1, <1>2, <1>10
    <2>2. Plan' /\ calls' \notin Finishing /\ \A n : calls' # LineCalls(n)
      BY <2>1, Distinct, <1>4 DEF Plan
    <2>3. PlanInv' BY <1>1, <1>4, <2>2 DEF PlanInv
    <2>4. Appending' = 0 BY <2>2 DEF Appending
    <2>5. LogInv' /\ OutputInv'
      BY <1>1, <1>2, <1>3, <1>6, <1>7, <1>8, <1>9, <1>10, <2>4 DEF LogInv, OutputInv
    <2>6. calls' \in Seq(Calls) BY <2>1, StartType
    <2>7. TypeOK' BY <1>1, <1>2, <2>6 DEF TypeOK
    <2>8. StageInv' BY <2>2 DEF StageInv, Finishing
    <2> QED BY <1>5, <2>3, <2>5, <2>7, <2>8
  <1>11. CASE events[1] = "line"
    <2>1. calls' = LineCalls(log + 1) BY <1>1, <1>2, <1>11
    <2>2. Len(events) > Last
      <3>1. CASE Len(events) = 1 BY <1>11, <3>1 DEF Last, IsEvent
      <3>2. CASE Len(events) # 1 BY <1>2, <1>9, <3>2
      <3> QED BY <3>1, <3>2
    <2>3. log + 1 \in 1..MaxLines
      BY <1>2, <1>3, <1>6, <1>8, <1>9, <1>11, <2>2 DEF LogInv
    <2>4. Plan' /\ calls' \notin Finishing
      BY <2>1, <2>3, Distinct DEF Plan
    <2>5. \A n \in 1..MaxLines : calls' = LineCalls(n) => n = log' + 1
      BY <1>1, <2>1, Distinct
    <2>6. PlanInv' BY <1>1, <1>4, <2>4, <2>5 DEF PlanInv
    <2>7. Appending' = 1 BY <2>1, <2>3 DEF Appending
    <2>8. LogInv' /\ OutputInv'
      BY <1>1, <1>2, <1>3, <1>6, <1>7, <1>8, <1>9, <1>11, <2>7 DEF LogInv, OutputInv
    <2>9. calls' \in Seq(Calls) BY <2>1, <2>3, LineType
    <2>10. TypeOK' BY <1>1, <1>2, <2>9 DEF TypeOK
    <2>11. StageInv' BY <2>4 DEF StageInv, Finishing
    <2> QED BY <1>5, <2>6, <2>8, <2>10, <2>11
  <1>12. CASE events[1] = "finished"
    <2>1. calls' = FinishCalls BY <1>1, <1>2, <1>12
    <2>2. calls' \in Finishing /\ \A n : calls' # LineCalls(n)
      BY <2>1, Distinct DEF Finishing
    <2>3. Plan' BY <2>2 DEF Plan, Finishing
    <2>4. Len(events) = 1 /\ pipe = "closed" BY <1>2, <1>12 DEF EventInv
    <2>5. events' = <<>>
      <3>1. Len(events') = 0
        <4>1. Len(events) = Len(events') + 1 /\ Len(events') \in Nat BY <1>2
        <4> QED BY <2>4, <4>1
      <3>2. events' \in Seq({"started", "line", "finished"}) BY <1>2
      <3> QED BY <3>1, <3>2, NoLength
    <2>6. Ended' BY <1>1, <2>4, <2>5 DEF Ended, EventInv
    <2>7. PlanInv' BY <1>1, <1>4, <2>2, <2>3, <2>6 DEF PlanInv
    <2>8. Appending' = 0 /\ Last = 1
      BY <1>12, <2>2, <2>4 DEF Appending, Last, IsEvent
    <2>9. LogInv' /\ OutputInv'
      BY <1>1, <1>2, <1>3, <1>6, <1>7, <1>8, <1>12, <2>8 DEF LogInv, OutputInv
    <2>10. calls' \in Seq(Calls) BY <2>2, FinishingType
    <2>11. TypeOK' BY <1>1, <1>2, <2>10 DEF TypeOK
    <2>12. StageInv' BY <2>1, Distinct DEF StageInv
    <2> QED BY <1>5, <2>7, <2>9, <2>11, <2>12
  <1> QED BY <1>2, <1>10, <1>11, <1>12

(* Between two calls the executor has only its own part to change.         *)
LEMMA CallFrame ==
  ASSUME SchedInv, calls # <<>>,
         UNCHANGED <<hazards, process, written, read, pipe, events>>
  PROVE  /\ EventInv' /\ Ended' = Ended /\ First' = First /\ Last' = Last
         /\ Len(events') = Len(events)
  <1>1. process # "none" BY DEF SchedInv, EventInv
  <1> QED BY <1>1 DEF SchedInv, EventInv, Ended, First, Last, IsEvent

LEMMA Numbers ==
  ASSUME TypeOK
  PROVE  /\ log \in Nat /\ read \in Nat /\ written \in Nat /\ MaxLines \in Nat
         /\ read <= written /\ written <= MaxLines /\ log <= MaxLines
         /\ disk.lines \in Nat /\ Len(events) \in Nat
  BY JobAssumption DEF TypeOK

LEMMA StatusStep ==
  ASSUME SchedInv, UpdateStatus
  PROVE  SchedInv'
  <1> USE DEF SchedInv
  <1>1. /\ calls # <<>> /\ Head(calls).call \in {"started", "finished"}
        /\ calls' = Tail(calls)
        /\ status' = IF ~ listed THEN status
                     ELSE IF Head(calls).call = "started" THEN "running" ELSE "finished"
        /\ UNCHANGED <<hazards, process, written, read, pipe, events, listed, log, disk>>
        /\ UNCHANGED <<outputs, sending, subs, channel, closed, dropped>>
        /\ UNCHANGED <<viewer, shown, told>>
    BY DEF UpdateStatus, Calling, Called, executorVars, publishVars,
       streamVars, viewerVars
  <1>2. /\ EventInv' /\ Ended' = Ended /\ First' = First /\ Last' = Last
        /\ Len(events') = Len(events)
    BY <1>1, CallFrame
  <1>3. \/ calls = StartCalls /\ calls' = StartEnd /\ Head(calls).call = "started"
        \/ calls = FinishCalls /\ calls' = FromLookup /\ Head(calls).call = "finished"
    BY <1>1, ByCall DEF PlanInv
  <1>4. /\ \A n : calls # LineCalls(n) /\ calls' # LineCalls(n)
        /\ Appending = 0 /\ Appending' = 0
    BY <1>3, Distinct DEF Finishing, Appending
  <1>5. LogInv' /\ OutputInv' BY <1>1, <1>2, <1>4 DEF LogInv, OutputInv
  <1>6. calls' \in Seq(Calls) BY <1>3, StartType, FinishingType DEF Finishing
  <1>7. TypeOK' BY <1>1, <1>6 DEF TypeOK
  <1>8. CASE calls = StartCalls /\ calls' = StartEnd /\ Head(calls).call = "started"
    <2>1. calls \notin Finishing \cup {<<>>} /\ calls' \notin Finishing
      BY <1>8, Distinct
    <2>2. status # "finished" BY <2>1 DEF PlanInv
    <2>3. PlanInv' BY <1>1, <1>4, <1>8, <2>1, <2>2 DEF PlanInv, Plan
    <2>4. StageInv' BY <2>1 DEF StageInv, Finishing
    <2> QED BY <1>2, <1>5, <1>7, <2>3, <2>4
  <1>9. CASE calls = FinishCalls /\ calls' = FromLookup /\ Head(calls).call = "finished"
    <2>1. Ended BY <1>9 DEF PlanInv, Finishing
    <2>2. calls' \in Finishing /\ Plan' BY <1>9 DEF Finishing, Plan
    <2>3. PlanInv' BY <1>2, <1>4, <2>1, <2>2 DEF PlanInv
    <2>4. StageInv' BY <1>1, <1>9, Distinct DEF StageInv
    <2> QED BY <1>2, <1>5, <1>7, <2>3, <2>4
  <1> QED BY <1>3, <1>8, <1>9

LEMMA AppendStep ==
  ASSUME SchedInv, AppendJobLog
  PROVE  SchedInv'
  <1> USE DEF SchedInv
  <1>1. /\ calls # <<>> /\ Head(calls).call = "append"
        /\ calls' = Tail(calls)
        /\ log' = IF listed THEN log + 1 ELSE log
        /\ UNCHANGED <<hazards, process, written, read, pipe, events, status, listed, disk>>
        /\ UNCHANGED <<outputs, sending, subs, channel, closed, dropped>>
        /\ UNCHANGED <<viewer, shown, told>>
    BY DEF AppendJobLog, Calling, Called, executorVars, publishVars,
       streamVars, viewerVars
  <1>2. /\ EventInv' /\ Ended' = Ended /\ First' = First /\ Last' = Last
        /\ Len(events') = Len(events)
    BY <1>1, CallFrame
  <1>3. PICK n \in 1..MaxLines : calls = LineCalls(n) /\ calls' = LineEnd(n)
    BY <1>1, ByCall DEF PlanInv
  <1>4. n = log + 1 BY <1>3 DEF PlanInv
  <1>5. /\ log \in Nat /\ read \in Nat /\ MaxLines \in Nat
        /\ disk.lines \in Nat /\ Len(events) \in Nat
    BY Numbers
  <1>6. log' \in 0..MaxLines BY <1>1, <1>3, <1>4, <1>5
  <1>7. Appending = 1 BY <1>3 DEF Appending
  <1>8. Appending' = 0 BY <1>3, Distinct DEF Appending
  <1>9. /\ First \in {0, 1} /\ Last \in {0, 1} BY EmptyEvents
  <1>10. LogInv' BY <1>1, <1>2, <1>5, <1>7, <1>8, <1>9 DEF LogInv
  <1>11. OutputInv' BY <1>1, <1>2, <1>5, <1>7, <1>8, <1>9 DEF OutputInv
  <1>12. calls' \in Seq(Calls) BY <1>3, LineType
  <1>13. TypeOK' BY <1>1, <1>6, <1>12 DEF TypeOK
  <1>14. /\ calls \notin Finishing \cup {<<>>} /\ calls' \notin Finishing
         /\ \A m : calls' # LineCalls(m)
    BY <1>3, Distinct
  <1>15. PlanInv' BY <1>1, <1>2, <1>3, <1>14 DEF PlanInv, Plan
  <1>16. StageInv' BY <1>14 DEF StageInv, Finishing
  <1> QED BY <1>2, <1>10, <1>11, <1>13, <1>15, <1>16

LEMMA LookUpStep ==
  ASSUME SchedInv, LookUpJob
  PROVE  SchedInv'
  <1> USE DEF SchedInv
  <1>1. /\ calls # <<>> /\ Head(calls).call = "lookup"
        /\ calls' = IF listed THEN Tail(calls) ELSE <<>>
        /\ UNCHANGED <<hazards, process, written, read, pipe, events>>
        /\ UNCHANGED <<status, listed, log, disk>>
        /\ UNCHANGED <<outputs, sending, subs, channel, closed, dropped>>
        /\ UNCHANGED <<viewer, shown, told>>
    BY DEF LookUpJob, Calling, Called, executorVars, recordVars, publishVars,
       streamVars, viewerVars
  <1>2. /\ EventInv' /\ Ended' = Ended /\ First' = First /\ Last' = Last
        /\ Len(events') = Len(events)
    BY <1>1, CallFrame
  <1>3. calls = FromLookup /\ calls' \in {FromMeta, <<>>} /\ (calls' = FromMeta => listed)
    BY <1>1, ByCall, NotEmpty DEF PlanInv, Finishing
  <1>4. /\ \A n : calls # LineCalls(n) /\ calls' # LineCalls(n)
        /\ Appending = 0 /\ Appending' = 0
    BY <1>3, Distinct, NotEmpty DEF Finishing, Appending
  <1>5. LogInv' /\ OutputInv' BY <1>1, <1>2, <1>4 DEF LogInv, OutputInv
  <1>6. <<>> \in Seq(Calls) OBVIOUS
  <1>7. calls' \in Seq(Calls) BY <1>3, <1>6, FinishingType DEF Finishing
  <1>8. TypeOK' BY <1>1, <1>7 DEF TypeOK
  <1>9. Ended BY <1>3 DEF PlanInv, Finishing
  <1>10. calls' \in Finishing \cup {<<>>} /\ Plan' BY <1>3 DEF Finishing, Plan
  <1>11. PlanInv' BY <1>2, <1>4, <1>9, <1>10 DEF PlanInv
  <1>12. /\ calls' \notin {FromLookup, FromFinal, FromDone}
         /\ calls' = FromMeta => status' = "finished"
    BY <1>1, <1>3, Distinct, NotEmpty DEF Finishing, StageInv
  <1>13. StageInv' BY <1>12 DEF StageInv
  <1> QED BY <1>2, <1>5, <1>8, <1>11, <1>13

LEMMA PersistStep ==
  ASSUME SchedInv, PersistJob
  PROVE  SchedInv'
  <1> USE DEF SchedInv
  <1>1. /\ calls # <<>> /\ calls' = Tail(calls)
        /\ \/ Head(calls).call = "meta" /\ disk' = [disk EXCEPT !.meta = status]
           \/ Head(calls).call = "final" /\ disk' = [disk EXCEPT !.lines = log]
           \/ /\ "disk_error" \in hazards /\ disk' = disk
              /\ Head(calls).call \in {"meta", "final"}
        /\ UNCHANGED <<hazards, process, written, read, pipe, events>>
        /\ UNCHANGED <<status, listed, log>>
        /\ UNCHANGED <<outputs, sending, subs, channel, closed, dropped>>
        /\ UNCHANGED <<viewer, shown, told>>
    BY DEF PersistJob, Calling, Called, executorVars, recordVars, publishVars,
       streamVars, viewerVars
  <1>2. /\ EventInv' /\ Ended' = Ended /\ First' = First /\ Last' = Last
        /\ Len(events') = Len(events)
    BY <1>1, CallFrame
  <1>3. \/ calls = FromMeta /\ calls' = FromFinal /\ Head(calls).call = "meta"
        \/ calls = FromFinal /\ calls' = FromDone /\ Head(calls).call = "final"
    BY <1>1, ByCall DEF PlanInv
  <1>4. /\ \A n : calls # LineCalls(n) /\ calls' # LineCalls(n)
        /\ Appending = 0 /\ Appending' = 0
    BY <1>3, Distinct DEF Finishing, Appending
  <1>5. status = "finished" BY <1>3 DEF StageInv
  <1>6. /\ disk' \in [meta: {"none", "queued", "running", "finished"},
                      lines: 0..MaxLines]
        /\ disk'.lines \in {disk.lines, log} /\ disk'.meta \in {disk.meta, status}
    BY <1>1 DEF TypeOK
  <1>7. LogInv' BY <1>1, <1>2, <1>4, <1>6, Numbers DEF LogInv
  <1>8. OutputInv' BY <1>1, <1>2, <1>4 DEF OutputInv
  <1>9. calls' \in Seq(Calls) BY <1>3, FinishingType DEF Finishing
  <1>10. TypeOK' BY <1>1, <1>6, <1>9 DEF TypeOK
  <1>11. Ended BY <1>3 DEF PlanInv, Finishing
  <1>12. calls' \in Finishing /\ Plan' BY <1>3 DEF Finishing, Plan
  <1>13. PlanInv' BY <1>2, <1>4, <1>11, <1>12 DEF PlanInv
  <1>14. /\ calls' \notin {FromLookup, FromMeta}
         /\ calls' = FromDone => calls = FromFinal
    BY <1>3, Distinct
  <1>15. "disk_error" \notin hazards =>
           /\ disk'.meta = "finished"
           /\ calls' = FromDone => disk'.lines = log
    BY <1>1, <1>3, <1>5, <1>14, Distinct DEF StageInv, TypeOK
  <1>16. StageInv' BY <1>1, <1>5, <1>14, <1>15 DEF StageInv
  <1> QED BY <1>2, <1>7, <1>8, <1>10, <1>13, <1>16

(* The two calls about the subscribers are the last of their handlers, but *)
(* for the close that follows done.                                        *)
LEMMA SubscribersStep ==
  ASSUME SchedInv, TypeOK', CollectOutputs \/ CloseJobSubs
  PROVE  /\ SchedInv'
         /\ calls' \in {<<>>, FromClose}
         /\ calls' = FromClose => calls = FromDone
         /\ CloseJobSubs => calls = FromClose
  <1> USE DEF SchedInv
  <1>1. /\ calls # <<>> /\ Head(calls).call \in {"publish", "close"}
        /\ calls' = Tail(calls)
        /\ UNCHANGED <<hazards, process, written, read, pipe, events>>
        /\ UNCHANGED <<status, listed, log, disk>>
        /\ CloseJobSubs => Head(calls).call = "close"
    BY DEF CollectOutputs, CloseJobSubs, Calling, Called, executorVars, recordVars
  <1>2. /\ EventInv' /\ Ended' = Ended /\ First' = First /\ Last' = Last
        /\ Len(events') = Len(events)
    BY <1>1, CallFrame
  <1>3. \/ calls = StartEnd /\ calls' = <<>>
        \/ \E n \in 1..MaxLines : calls = LineEnd(n) /\ calls' = <<>>
        \/ calls = FromDone /\ calls' = FromClose
        \/ calls = FromClose /\ calls' = <<>>
    BY <1>1, ByCall DEF PlanInv
  <1>4. CloseJobSubs => calls = FromClose BY <1>1, ByCall DEF PlanInv
  <1>5. /\ \A n : calls # LineCalls(n) /\ calls' # LineCalls(n)
        /\ Appending = 0 /\ Appending' = 0
    BY <1>3, Distinct, NotEmpty DEF Finishing, Appending
  <1>6. LogInv' /\ OutputInv' BY <1>1, <1>2, <1>5 DEF LogInv, OutputInv
  <1>7. calls' = FromClose => calls = FromDone
    BY <1>3, NotEmpty DEF Finishing
  <1>8. /\ calls' \in Finishing => Ended
        /\ calls' \in Finishing \cup {<<>>} /\ Plan'
    BY <1>3, NotEmpty DEF Finishing, Plan, PlanInv
  <1>9. PlanInv' BY <1>1, <1>2, <1>5, <1>8 DEF PlanInv
  <1>10. calls' \notin {FromLookup, FromMeta, FromFinal, FromDone}
    BY <1>3, Distinct, NotEmpty DEF Finishing
  <1>11. StageInv' BY <1>10 DEF StageInv
  <1> QED BY <1>2, <1>3, <1>4, <1>6, <1>7, <1>9, <1>11

LEMMA TrimStep ==
  ASSUME SchedInv, TrimJob
  PROVE  SchedInv'
  <1> USE DEF SchedInv
  <1>1. /\ listed' = FALSE /\ subs' = {} /\ hazards # {}
        /\ UNCHANGED <<hazards, process, written, read, pipe, events>>
        /\ UNCHANGED <<status, log, calls, disk>>
        /\ UNCHANGED <<outputs, sending, channel, closed, dropped>>
        /\ UNCHANGED <<viewer, shown, told>>
    BY DEF TrimJob, executorVars, publishVars, viewerVars
  <1>2. TypeOK' BY <1>1 DEF TypeOK
  <1>3. /\ EventInv' = EventInv /\ PlanInv' = PlanInv /\ LogInv' = LogInv
    BY <1>1 DEF EventInv, PlanInv, Plan, Ended, LogInv,
       First, Last, Appending, IsEvent
  <1>4. OutputInv' BY <1>1 DEF OutputInv
  <1>5. StageInv' BY <1>1 DEF StageInv
  <1> QED BY <1>2, <1>3, <1>4, <1>5

LEMMA RestartStep ==
  ASSUME SchedInv, Restart
  PROVE  SchedInv' /\ Ended' /\ calls' = <<>>
  <1> USE DEF SchedInv
  <1>1. /\ process' = "exited" /\ pipe' = "closed" /\ events' = <<>>
        /\ calls' = <<>> /\ outputs' = {} /\ subs' = {} /\ hazards # {}
        /\ listed' = (disk.meta # "none")
        /\ status' = IF disk.meta = "none" THEN status ELSE disk.meta
        /\ log' = disk.lines
        /\ UNCHANGED <<hazards, written, read, sending, channel, closed>>
        /\ UNCHANGED <<dropped, disk, shown, told>>
    BY DEF Restart
  <1>2. /\ viewer' \in [Viewers -> {"away", "snapshot", "check", "stream", "left"}]
        /\ listed' \in BOOLEAN
        /\ status' \in {"queued", "running", "finished"}
        /\ log' \in 0..MaxLines
    BY <1>1 DEF Restart, TypeOK
  <1>3. /\ <<>> \in Seq(Calls)
        /\ <<>> \in Seq({"started", "line", "finished"})
    OBVIOUS
  <1>4. TypeOK' BY <1>1, <1>2, <1>3 DEF TypeOK
  <1>5. Len(events') = 0 /\ \A i \in 1..Len(events') : FALSE BY <1>1
  <1>6. EventInv' BY <1>1, <1>5 DEF EventInv
  <1>7. Ended' BY <1>1 DEF Ended
  <1>8. /\ calls' \notin Finishing /\ \A n : calls' # LineCalls(n)
        /\ calls' \notin {FromLookup, FromMeta, FromFinal, FromDone}
    BY <1>1, NotEmpty DEF Finishing
  <1>9. PlanInv' BY <1>1, <1>7, <1>8 DEF PlanInv, Plan
  <1>10. First' = 0 /\ Last' = 0 /\ Appending' = 0
    BY <1>5, <1>8 DEF First, Last, Appending, IsEvent
  <1>11. log <= read
    <2>1. CASE events = <<>>
      BY <2>1, EmptyEvents, Numbers DEF LogInv
    <2>2. CASE events # <<>>
      <3>1. Len(events) >= 1 BY <2>2 DEF TypeOK
      <3>2. Len(events) >= First + Last
        <4>1. CASE Len(events) = 1 BY <4>1 DEF First, Last, IsEvent
        <4>2. CASE Len(events) # 1
          <5>1. Len(events) \in Nat BY Numbers
          <5>2. Len(events) >= 2
            <6>1. \A m \in Nat : m >= 1 /\ m # 1 => m >= 2 OBVIOUS
            <6> QED BY <3>1, <4>2, <5>1, <6>1
          <5>3. First \in {0, 1} /\ Last \in {0, 1} BY EmptyEvents
          <5> QED BY <5>1, <5>2, <5>3
        <4> QED BY <4>1, <4>2
      <3> QED BY <3>2, EmptyEvents, Numbers DEF LogInv
    <2> QED BY <2>1, <2>2
  <1>12. LogInv' BY <1>1, <1>5, <1>10, <1>11, Numbers DEF LogInv
  <1>13. OutputInv' BY <1>1 DEF OutputInv
  <1>14. StageInv' BY <1>8 DEF StageInv
  <1> QED BY <1>1, <1>4, <1>6, <1>7, <1>9, <1>12, <1>13, <1>14

-----------------------------------------------------------------------------
(* The browsers.                                                           *)
InChannel(v, e) == \E i \in 1..Len(channel[v]) : channel[v][i] = e
Outgoing(v, e) == v \in outputs /\ sending = e

(* A channel that is sent to is open: it is closed by the same goroutine,  *)
(* only when it is sending nothing, and never opened again.                *)
SubsInv ==
  \A v \in Viewers :
    /\ v \in subs => ~ closed[v] /\ viewer[v] \in {"snapshot", "check", "stream"}
    /\ v \in outputs \/ closed[v] => viewer[v] # "away"
    /\ v \in outputs => ~ closed[v] /\ sending \in Envelopes

(* done is on its way or there.                                            *)
DoneSent(v) == \/ told[v] = "stream"
               \/ InChannel(v, Event("done"))
               \/ Outgoing(v, Event("done"))

Persisted ==
  /\ Ended /\ calls \in {FromClose, <<>>}
  /\ "disk_error" \notin hazards => disk.meta = "finished" /\ disk.lines = log

DoneInv == \A v \in Viewers : DoneSent(v) => Persisted

(* It is the last that a browser gets.                                     *)
DoneLast ==
  \A v \in Viewers :
    /\ \A i \in 1..Len(channel[v]) :
         channel[v][i] = Event("done") => i = Len(channel[v])
    /\ told[v] = "stream" => channel[v] = <<>> /\ viewer[v] \in {"stream", "left"}
    /\ told[v] = "stream" \/ InChannel(v, Event("done")) => v \notin outputs

Watching(v) == viewer[v] \in {"snapshot", "check", "stream"}
Over == Ended /\ calls = <<>>

(* Who watches is subscribed as long as there is something to publish.     *)
FollowInv ==
  "trim" \notin hazards =>
    /\ ~ listed => Over /\ \A v \in Viewers : ~ Watching(v)
    /\ \A v \in Viewers : Watching(v) => v \in subs \/ Over

(* Each line of the log is where it will reach the browser.                *)
Reaches(v, n) == \/ n \in shown[v]
                 \/ InChannel(v, Line(n))
                 \/ Outgoing(v, Line(n))
                 \/ calls = LineEnd(n)

LineInv ==
  \A v \in Viewers :
    ~ dropped[v] /\ "trim" \notin hazards =>
      /\ viewer[v] \in {"check", "stream"} => \A n \in 1..log : Reaches(v, n)
      /\ told[v] = "stream" => 1..log \subseteq shown[v]

JobInv == SchedInv /\ SubsInv /\ DoneInv /\ DoneLast /\ FollowInv /\ LineInv

LEMMA JobInit == Init => JobInv
  <1> SUFFICES ASSUME Init PROVE JobInv OBVIOUS
  <1>1. SchedInv BY SchedInit
  <1>2. /\ subs = {} /\ outputs = {} /\ log = 0 /\ listed
        /\ \A v \in Viewers : /\ channel[v] = <<>> /\ ~ closed[v]
                              /\ told[v] = "no" /\ viewer[v] = "away"
    BY DEF Init
  <1>3. \A v \in Viewers : \A e : ~ InChannel(v, e) /\ ~ Outgoing(v, e)
    BY <1>2 DEF InChannel, Outgoing
  <1>4. SubsInv BY <1>2 DEF SubsInv
  <1>5. DoneInv BY <1>2, <1>3 DEF DoneInv, DoneSent
  <1>6. DoneLast BY <1>2 DEF DoneLast
  <1>7. FollowInv BY <1>2 DEF FollowInv, Watching
  <1>8. LineInv BY <1>2 DEF LineInv
  <1> QED BY <1>1, <1>4, <1>5, <1>6, <1>7, <1>8 DEF JobInv

LEMMA EnvelopeShape ==
  /\ \A e \in Envelopes :
       /\ e.type = "done" <=> e = Event("done")
       /\ e.type = "log_line" => e.line \in 1..MaxLines /\ e = Line(e.line)
  /\ \A n : Line(n) # Event("done") /\ Line(n) # Event("job_state")
  /\ Event("done") # Event("job_state")
  /\ \A n : Line(n).type = "log_line" /\ Line(n).line = n
  /\ \A n, m : Line(n) = Line(m) => n = m
  <1>1. /\ \A t : Event(t).type = t
        /\ \A n : Line(n).type = "log_line" /\ Line(n).line = n
    BY CallFields
  <1>2. \A e \in Envelopes :
          \/ \E n \in 1..MaxLines : e = Line(n)
          \/ e = Event("job_state")
          \/ e = Event("done")
    BY DEF Envelopes
  <1>3. \A n, m : Line(n) = Line(m) => n = m BY <1>1
  <1>4. /\ \A n : Line(n) # Event("done") /\ Line(n) # Event("job_state")
        /\ Event("done") # Event("job_state")
    BY <1>1
  <1>5. ASSUME NEW e \in Envelopes
        PROVE  /\ e.type = "done" <=> e = Event("done")
               /\ e.type = "log_line" => e.line \in 1..MaxLines /\ e = Line(e.line)
    BY <1>1, <1>2
  <1> QED BY <1>1, <1>3, <1>4, <1>5

browserVars == <<outputs, sending, subs, channel, closed, dropped, viewer, shown, told>>

(* While a handler is before its close, no browser can have had done.      *)
LEMMA Busy ==
  ASSUME JobInv, ~ (Ended /\ calls \in {FromClose, <<>>})
  PROVE  /\ ~ Over /\ \A v \in Viewers : ~ DoneSent(v)
         /\ "trim" \notin hazards => listed
  BY DEF JobInv, DoneInv, Persisted, FollowInv, Over

LEMMA BusyStep ==
  ASSUME JobInv, SchedInv', UNCHANGED browserVars,
         UNCHANGED <<hazards, listed, log>>,
         ~ (Ended /\ calls \in {FromClose, <<>>}),
         \A n : calls = LineEnd(n) => calls' = LineEnd(n)
  PROVE  JobInv'
  <1> USE DEF JobInv
  <1>1. UNCHANGED <<outputs, sending, subs, channel, closed, dropped, viewer, shown, told>>
    BY DEF browserVars
  <1>2. /\ ~ Over /\ \A v \in Viewers : ~ DoneSent(v)
        /\ "trim" \notin hazards => listed
    BY Busy
  <1>3. SubsInv' BY <1>1 DEF SubsInv
  <1>4. \A v \in Viewers : DoneSent(v)' = DoneSent(v)
    BY <1>1 DEF DoneSent, InChannel, Outgoing
  <1>5. DoneInv' BY <1>2, <1>4 DEF DoneInv
  <1>6. DoneLast' BY <1>1 DEF DoneLast, InChannel
  <1>7. FollowInv' BY <1>1, <1>2 DEF FollowInv, Watching
  <1>8. \A v \in Viewers : \A n : Reaches(v, n) => Reaches(v, n)'
    BY <1>1 DEF Reaches, InChannel, Outgoing
  <1>9. LineInv' BY <1>1, <1>8 DEF LineInv
  <1> QED BY <1>3, <1>5, <1>6, <1>7, <1>9

(* The executor, and the calls that are not about the subscribers.         *)
LEMMA ExecuteInv ==
  ASSUME JobInv, Execute
  PROVE  JobInv'
  <1> USE DEF JobInv
  <1>1. SchedInv'
    BY ProcessStep, RunStep, RunFailsStep, ReadStep, FinishStep DEF Execute
  <1>2. UNCHANGED browserVars /\ UNCHANGED <<hazards, listed, log>>
    BY DEF Execute, WriteLine, Exit, Run, RunFails, ReadLine, WaitForSubprocess,
       FinishInternal, browserVars, recordVars, publishVars, streamVars, viewerVars
  <1>3. calls' = calls \/ calls = <<>>
    BY DEF Execute, WriteLine, Exit, Run, RunFails, ReadLine, WaitForSubprocess,
       FinishInternal
  <1>4. ~ Ended
    BY DEF Execute, WriteLine, Exit, Run, RunFails, ReadLine, WaitForSubprocess,
       FinishInternal, Ended
  <1>5. \A n : calls = LineEnd(n) => calls' = LineEnd(n)
    BY <1>3, NotEmpty
  <1> QED BY <1>1, <1>2, <1>4, <1>5, BusyStep

LEMMA CallsInv ==
  ASSUME JobInv, ConsumeExecution \/ UpdateStatus \/ LookUpJob \/ PersistJob
  PROVE  JobInv'
  <1> USE DEF JobInv
  <1>1. SchedInv' BY ConsumeStep, StatusStep, LookUpStep, PersistStep
  <1>2. UNCHANGED browserVars /\ UNCHANGED <<hazards, listed, log>>
    BY DEF ConsumeExecution, UpdateStatus, LookUpJob, PersistJob, browserVars,
       recordVars, publishVars, streamVars, viewerVars
  <1>3. CASE ConsumeExecution
    <2>1. calls = <<>> /\ ~ Ended BY <1>3 DEF ConsumeExecution, Ended
    <2> QED BY <1>1, <1>2, <2>1, BusyStep, NotEmpty
  <1>4. CASE UpdateStatus \/ LookUpJob \/ PersistJob
    <2>1. /\ calls # <<>>
          /\ Head(calls).call \in {"started", "finished", "lookup", "meta", "final"}
      BY <1>4 DEF UpdateStatus, LookUpJob, PersistJob, Calling
    <2>2. calls \in {StartCalls, FinishCalls, FromLookup, FromMeta, FromFinal}
      BY <2>1, ByCall DEF SchedInv, PlanInv
    <2>3. calls # FromClose /\ \A n : calls # LineEnd(n)
      BY <2>2, Distinct DEF Finishing
    <2> QED BY <1>1, <1>2, <2>1, <2>3, BusyStep
  <1> QED BY <1>3, <1>4

LEMMA AppendInv ==
  ASSUME JobInv, AppendJobLog
  PROVE  JobInv'
  <1> USE DEF JobInv
  <1>1. SchedInv' BY AppendStep
  <1>2. /\ calls # <<>> /\ Head(calls).call = "append" /\ calls' = Tail(calls)
        /\ log' = IF listed THEN log + 1 ELSE log
        /\ UNCHANGED <<hazards, listed, outputs, sending, subs, channel, closed>>
        /\ UNCHANGED <<dropped, viewer, shown, told>>
    BY DEF AppendJobLog, Calling, Called, recordVars, publishVars, streamVars,
       viewerVars
  <1>3. PICK n \in 1..MaxLines : calls = LineCalls(n) /\ calls' = LineEnd(n)
    BY <1>2, ByCall DEF SchedInv, PlanInv
  <1>4. n = log + 1 BY <1>3 DEF SchedInv, PlanInv
  <1>5. calls # FromClose BY <1>3, Distinct DEF Finishing
  <1>6. /\ ~ Over /\ \A v \in Viewers : ~ DoneSent(v)
        /\ "trim" \notin hazards => listed
    BY <1>2, <1>5, Busy
  <1>7. SubsInv' BY <1>2 DEF SubsInv
  <1>8. \A v \in Viewers : DoneSent(v)' = DoneSent(v)
    BY <1>2 DEF DoneSent, InChannel, Outgoing
  <1>9. DoneInv' BY <1>6, <1>8 DEF DoneInv
  <1>10. DoneLast' BY <1>2 DEF DoneLast, InChannel
  <1>11. FollowInv' BY <1>2, <1>6 DEF FollowInv, Watching
  <1>12. \A v \in Viewers : \A m : Reaches(v, m) => Reaches(v, m)'
    BY <1>2, <1>3, Distinct DEF Reaches, InChannel, Outgoing
  <1>13. \A v \in Viewers : Reaches(v, n)' BY <1>3 DEF Reaches
  <1>14. log \in Nat BY Numbers DEF SchedInv
  <1>15. \A m \in 1..log' : m \in 1..log \/ m = n BY <1>2, <1>4, <1>14
  <1>16. \A v \in Viewers : told[v] # "stream" BY <1>6 DEF DoneSent
  <1>17. LineInv' BY <1>2, <1>12, <1>13, <1>15, <1>16 DEF LineInv
  <1> QED BY <1>1, <1>7, <1>9, <1>10, <1>11, <1>17

LEMMA CollectInv ==
  ASSUME JobInv, CollectOutputs
  PROVE  JobInv'
  <1> USE DEF JobInv
  <1>1. /\ calls # <<>> /\ Head(calls).call = "publish" /\ calls' = Tail(calls)
        /\ outputs = {} /\ outputs' = subs /\ sending' = Head(calls).event
        /\ UNCHANGED <<hazards, process, written, read, pipe, events>>
        /\ UNCHANGED <<status, listed, log, disk>>
        /\ UNCHANGED <<subs, channel, closed, dropped, viewer, shown, told>>
    BY DEF CollectOutputs, Calling, Called, executorVars, recordVars,
       streamVars, viewerVars
  <1>2. \/ calls = StartEnd /\ calls' = <<>> /\ sending' = Event("job_state")
        \/ \E n \in 1..MaxLines :
             calls = LineEnd(n) /\ calls' = <<>> /\ sending' = Line(n)
        \/ calls = FromDone /\ calls' = FromClose /\ sending' = Event("done")
    BY <1>1, ByCall DEF SchedInv, PlanInv
  <1>3. sending' \in Envelopes BY <1>2 DEF Envelopes
  <1>4. <<>> \in Seq(Calls) OBVIOUS
  <1>5. calls' \in Seq(Calls) BY <1>2, <1>4, FinishingType DEF Finishing
  <1>6. TypeOK' BY <1>1, <1>3, <1>5 DEF TypeOK, SchedInv
  <1>7. SchedInv' BY <1>6, SubscribersStep
  <1>8. calls # FromClose BY <1>2, Distinct DEF Finishing
  <1>9. /\ ~ Over /\ \A v \in Viewers : ~ DoneSent(v)
        /\ "trim" \notin hazards => listed
    BY <1>1, <1>8, Busy
  <1>10. SubsInv' BY <1>1, <1>3 DEF SubsInv
  <1>11. \A v \in Viewers :
           told'[v] # "stream" /\ ~ InChannel(v, Event("done"))'
    BY <1>1, <1>9 DEF DoneSent, InChannel
  <1>12. sending' = Event("done") => calls = FromDone /\ calls' = FromClose
    BY <1>2, EnvelopeShape
  <1>13. ASSUME sending' = Event("done") PROVE Persisted'
    <2>1. calls = FromDone /\ calls' = FromClose BY <1>12, <1>13
    <2>2. Ended BY <2>1 DEF SchedInv, PlanInv, Finishing
    <2> QED BY <1>1, <2>1, <2>2 DEF SchedInv, StageInv, Persisted, Ended
  <1>14. DoneInv' BY <1>11, <1>13 DEF DoneInv, DoneSent, Outgoing
  <1>15. DoneLast' BY <1>1, <1>11 DEF DoneLast, InChannel
  <1>16. FollowInv' BY <1>1, <1>9 DEF FollowInv, Watching
  <1>17. ASSUME NEW v \in Viewers, "trim" \notin hazards,
                viewer[v] \in {"check", "stream"}, NEW n \in 1..log, Reaches(v, n)
         PROVE  Reaches(v, n)'
    <2>1. v \in outputs'
      BY <1>1, <1>9, <1>17 DEF FollowInv, Watching
    <2>2. CASE calls = LineEnd(n)
      <3>1. sending' = Line(n) BY <1>2, <2>2, Distinct DEF Finishing
      <3> QED BY <2>1, <3>1 DEF Reaches, Outgoing
    <2>3. CASE calls # LineEnd(n)
      BY <1>1, <1>17, <2>3 DEF Reaches, Outgoing, InChannel
    <2> QED BY <2>2, <2>3
  <1>18. LineInv' BY <1>1, <1>11, <1>17 DEF LineInv
  <1> QED BY <1>7, <1>10, <1>14, <1>15, <1>16, <1>18

LEMMA CloseInv ==
  ASSUME JobInv, CloseJobSubs
  PROVE  JobInv'
  <1> USE DEF JobInv
  <1>1. /\ calls # <<>> /\ Head(calls).call = "close" /\ calls' = Tail(calls)
        /\ outputs = {} /\ subs' = {}
        /\ closed' = [v \in Viewers |-> closed[v] \/ v \in subs]
        /\ UNCHANGED <<hazards, process, written, read, pipe, events>>
        /\ UNCHANGED <<status, listed, log, disk>>
        /\ UNCHANGED <<outputs, sending, channel, dropped, viewer, shown, told>>
    BY DEF CloseJobSubs, Calling, Called, executorVars, recordVars,
       publishVars, viewerVars
  <1>2. calls = FromClose /\ calls' = <<>>
    BY <1>1, ByCall DEF SchedInv, PlanInv
  <1>3. <<>> \in Seq(Calls) OBVIOUS
  <1>4. closed' \in [Viewers -> BOOLEAN] BY <1>1 DEF SchedInv, TypeOK
  <1>5. TypeOK' BY <1>1, <1>2, <1>3, <1>4 DEF TypeOK, SchedInv
  <1>6. SchedInv' BY <1>5, SubscribersStep
  <1>7. Ended /\ Ended' BY <1>1, <1>2 DEF SchedInv, PlanInv, Finishing, Ended
  <1>8. SubsInv' BY <1>1 DEF SubsInv
  <1>9. \A v \in Viewers : DoneSent(v)' = DoneSent(v)
    BY <1>1 DEF DoneSent, InChannel, Outgoing
  <1>10. Persisted => Persisted' BY <1>1, <1>2, <1>7 DEF Persisted
  <1>11. DoneInv' BY <1>9, <1>10 DEF DoneInv
  <1>12. DoneLast' BY <1>1 DEF DoneLast, InChannel
  <1>13. Over' BY <1>2, <1>7 DEF Over
  <1>14. ~ Over BY <1>1 DEF Over
  <1>15. FollowInv' BY <1>1, <1>13, <1>14 DEF FollowInv
  <1>16. \A v \in Viewers : \A n : Reaches(v, n) => Reaches(v, n)'
    BY <1>1, <1>2, Distinct DEF Reaches, InChannel, Outgoing, Finishing
  <1>17. LineInv' BY <1>1, <1>16 DEF LineInv
  <1> QED BY <1>6, <1>8, <1>11, <1>12, <1>15, <1>17

LEMMA SendInv ==
  ASSUME JobInv, NEW v \in Viewers, SendTo(v)
  PROVE  JobInv'
  <1> USE DEF JobInv
  <1>1. /\ v \in outputs /\ ~ closed[v] /\ outputs' = outputs \ {v}
        /\ UNCHANGED <<hazards, process, written, read, pipe, events, status, listed, log>>
        /\ UNCHANGED <<calls, disk, sending, subs, closed, viewer, shown, told>>
    BY DEF SendTo, executorVars, recordVars, viewerVars
  <1>2. \/ /\ channel' = [channel EXCEPT ![v] = Append(channel[v], sending)]
           /\ Len(channel[v]) < QueueSize
           /\ dropped' = dropped
        \/ /\ dropped' = [dropped EXCEPT ![v] = TRUE]
           /\ channel' = channel
    BY DEF SendTo
  <1>3. /\ channel \in [Viewers -> Seq(Envelopes)] /\ dropped \in [Viewers -> BOOLEAN]
        /\ Len(channel[v]) \in Nat /\ QueueSize \in Nat
    BY JobAssumption DEF SchedInv, TypeOK
  <1>4. \A u \in Viewers \ {v} : channel'[u] = channel[u] /\ dropped'[u] = dropped[u]
    BY <1>2, <1>3
  <1>5. \/ /\ channel'[v] = Append(channel[v], sending)
           /\ Len(channel[v]) < QueueSize /\ dropped'[v] = dropped[v]
        \/ channel'[v] = channel[v] /\ dropped'[v] = TRUE
    BY <1>2, <1>3
  <1>6. sending \in Envelopes BY <1>1 DEF SubsInv
  <1>7. ASSUME Len(channel[v]) < QueueSize, channel'[v] = Append(channel[v], sending)
        PROVE  /\ channel'[v] \in Seq(Envelopes) /\ Len(channel'[v]) = Len(channel[v]) + 1
               /\ Len(channel'[v]) <= QueueSize
               /\ channel'[v][Len(channel[v]) + 1] = sending
               /\ \A i \in 1..Len(channel[v]) : channel'[v][i] = channel[v][i]
    <2> DEFINE s == channel[v]
    <2>1. s \in Seq(Envelopes) /\ Len(s) \in Nat BY <1>3
    <2>2. /\ Append(s, sending) \in Seq(Envelopes)
          /\ Len(Append(s, sending)) = Len(s) + 1
          /\ Append(s, sending)[Len(s) + 1] = sending
          /\ \A i \in 1..Len(s) : Append(s, sending)[i] = s[i]
      <3> HIDE DEF s
      <3> QED BY <1>6, <2>1
    <2> QED BY <1>3, <1>7, <2>1, <2>2
  <1>8. TypeOK'
    <2>1. /\ channel'[v] \in Seq(Envelopes) /\ Len(channel'[v]) <= QueueSize
      BY <1>3, <1>5, <1>7 DEF SchedInv, TypeOK
    <2>2. channel' \in [Viewers -> Seq(Envelopes)]
      <3>1. CASE channel' = channel BY <1>3, <3>1
      <3>2. CASE channel' = [channel EXCEPT ![v] = Append(channel[v], sending)]
        <4> DEFINE s == Append(channel[v], sending)
        <4>1. s \in Seq(Envelopes) BY <1>3, <1>6
        <4> HIDE DEF s
        <4>2. channel' = [channel EXCEPT ![v] = s] BY <3>2 DEF s
        <4> QED BY <1>3, <4>1, <4>2
      <3> QED BY <1>2, <3>1, <3>2
    <2>3. \A u \in Viewers : Len(channel'[u]) <= QueueSize
      BY <1>4, <2>1 DEF SchedInv, TypeOK
    <2>4. dropped' \in [Viewers -> BOOLEAN] BY <1>2, <1>3
    <2> QED BY <1>1, <2>2, <2>3, <2>4 DEF SchedInv, TypeOK
  <1>9. SchedInv'
    BY <1>1, <1>8, SchedFrame DEF schedVars, executorVars, recordVars
  <1>10. /\ Persisted' = Persisted /\ Over' = Over
    BY <1>1 DEF Persisted, Over, Ended
  <1>11. SubsInv' BY <1>1 DEF SubsInv
  <1>12. /\ \A u \in Viewers : \A e : InChannel(u, e) => InChannel(u, e)'
         /\ \A u \in Viewers : \A e : InChannel(u, e)' => InChannel(u, e) \/ Outgoing(u, e)
         /\ \A u \in Viewers : \A e : Outgoing(u, e)' => Outgoing(u, e) /\ u # v
    <2>1. ASSUME NEW u \in Viewers, NEW e, InChannel(u, e)
          PROVE  InChannel(u, e)'
      <3>1. CASE u # v BY <1>4, <2>1, <3>1 DEF InChannel
      <3>2. CASE u = v /\ channel'[v] = channel[v] BY <2>1, <3>2 DEF InChannel
      <3>3. CASE u = v /\ channel'[v] # channel[v]
        BY <1>3, <1>5, <1>7, <2>1, <3>3 DEF InChannel
      <3> QED BY <3>1, <3>2, <3>3
    <2>2. ASSUME NEW u \in Viewers, NEW e, InChannel(u, e)'
          PROVE  InChannel(u, e) \/ Outgoing(u, e)
      <3>1. CASE u # v BY <1>4, <2>2, <3>1 DEF InChannel
      <3>2. CASE u = v /\ channel'[v] = channel[v] BY <2>2, <3>2 DEF InChannel
      <3>3. CASE u = v /\ channel'[v] # channel[v]
        <4>1. PICK i \in 1..Len(channel'[v]) : channel'[v][i] = e
          BY <2>2, <3>3 DEF InChannel
        <4>2. i \in 1..Len(channel[v]) \/ i = Len(channel[v]) + 1
          BY <1>3, <1>5, <1>7, <3>3
        <4>3. CASE i \in 1..Len(channel[v])
          BY <1>5, <1>7, <3>3, <4>1, <4>3 DEF InChannel
        <4>4. CASE i = Len(channel[v]) + 1
          BY <1>1, <1>5, <1>7, <3>3, <4>1, <4>4 DEF Outgoing
        <4> QED BY <4>2, <4>3, <4>4
      <3> QED BY <3>1, <3>2, <3>3
    <2>3. \A u \in Viewers : \A e : Outgoing(u, e)' => Outgoing(u, e) /\ u # v
      BY <1>1 DEF Outgoing
    <2> QED BY <2>1, <2>2, <2>3
  <1>13. DoneInv'
    <2>1. \A u \in Viewers : DoneSent(u)' => DoneSent(u) BY <1>1, <1>12 DEF DoneSent
    <2> QED BY <1>10, <2>1 DEF DoneInv
  <1>14. DoneLast'
    <2>1. told[v] # "stream" /\ ~ InChannel(v, Event("done"))
      BY <1>1 DEF DoneLast
    <2>2. ASSUME NEW i \in 1..Len(channel'[v]), channel'[v][i] = Event("done")
          PROVE  i = Len(channel'[v])
      <3>1. CASE channel'[v] = channel[v] BY <2>1, <2>2, <3>1 DEF InChannel
      <3>2. CASE channel'[v] # channel[v]
        <4>1. i \in 1..Len(channel[v]) \/ i = Len(channel[v]) + 1
          BY <1>3, <1>5, <1>7, <3>2
        <4>2. i \notin 1..Len(channel[v])
          BY <1>5, <1>7, <2>1, <2>2, <3>2 DEF InChannel
        <4> QED BY <1>5, <1>7, <3>2, <4>1, <4>2
      <3> QED BY <3>1, <3>2
    <2>3. ASSUME NEW u \in Viewers, u # v
          PROVE  /\ \A i \in 1..Len(channel'[u]) :
                      channel'[u][i] = Event("done") => i = Len(channel'[u])
                 /\ told'[u] = "stream" =>
                      channel'[u] = <<>> /\ viewer'[u] \in {"stream", "left"}
      BY <1>1, <1>4, <2>3 DEF DoneLast
    <2>4. ASSUME NEW u \in Viewers, told'[u] = "stream" \/ InChannel(u, Event("done"))'
          PROVE  u \notin outputs'
      BY <1>1, <1>4, <2>4 DEF DoneLast, InChannel
    <2> QED BY <1>1, <2>1, <2>2, <2>3, <2>4 DEF DoneLast
  <1>15. FollowInv' BY <1>1, <1>10 DEF FollowInv, Watching
  <1>16. ASSUME NEW u \in Viewers, NEW n, Reaches(u, n), ~ dropped'[u]
         PROVE  Reaches(u, n)'
    <2>1. CASE u # v BY <1>1, <1>12, <1>16, <2>1 DEF Reaches, Outgoing
    <2>2. CASE u = v
      <3>1. /\ Len(channel[v]) < QueueSize
            /\ channel'[v] = Append(channel[v], sending)
        BY <1>5, <1>16, <2>2
      <3>2. Outgoing(v, Line(n)) => InChannel(v, Line(n))'
        BY <1>3, <1>7, <3>1 DEF Outgoing, InChannel
      <3> QED BY <1>1, <1>12, <1>16, <2>2, <3>2 DEF Reaches
    <2> QED BY <2>1, <2>2
  <1>17. \A u \in Viewers : ~ dropped'[u] => ~ dropped[u] BY <1>4, <1>5
  <1>18. LineInv' BY <1>1, <1>16, <1>17 DEF LineInv
  <1> QED BY <1>9, <1>11, <1>13, <1>14, <1>15, <1>18

LEMMA TrimInv ==
  ASSUME JobInv, TrimJob
  PROVE  JobInv'
  <1> USE DEF JobInv
  <1>1. SchedInv' BY TrimStep
  <1>2. /\ "trim" \in hazards' /\ subs' = {}
        /\ UNCHANGED <<hazards, process, pipe, events, log, calls, disk>>
        /\ UNCHANGED <<outputs, sending, channel, closed, dropped, viewer, shown, told>>
    BY DEF TrimJob, executorVars, publishVars, viewerVars
  <1>3. SubsInv' BY <1>2 DEF SubsInv
  <1>4. DoneInv' = DoneInv
    BY <1>2 DEF DoneInv, DoneSent, InChannel, Outgoing, Persisted, Ended
  <1>5. DoneLast' BY <1>2 DEF DoneLast, InChannel
  <1>6. FollowInv' /\ LineInv' BY <1>2 DEF FollowInv, LineInv
  <1> QED BY <1>1, <1>3, <1>4, <1>5, <1>6

LEMMA RestartInv ==
  ASSUME JobInv, Restart
  PROVE  JobInv'
  <1> USE DEF JobInv
  <1>1. SchedInv' /\ Ended' /\ calls' = <<>> BY RestartStep
  <1>2. /\ outputs' = {} /\ subs' = {} /\ log' = disk.lines
        /\ UNCHANGED <<hazards, channel, closed, dropped, disk, shown, told>>
        /\ \A v \in Viewers :
             viewer'[v] = IF viewer[v] = "away" THEN "away" ELSE "left"
    BY DEF Restart
  <1>3. SubsInv' BY <1>2 DEF SubsInv
  <1>4. \A v \in Viewers : DoneSent(v)' => DoneSent(v)
    BY <1>2 DEF DoneSent, InChannel, Outgoing
  <1>5. Persisted => Persisted' BY <1>1, <1>2 DEF Persisted
  <1>6. DoneInv' BY <1>4, <1>5 DEF DoneInv
  <1>7. DoneLast' BY <1>2 DEF DoneLast, InChannel
  <1>8. FollowInv' BY <1>1, <1>2 DEF FollowInv, Over, Watching
  <1>9. 1..log' \subseteq 1..log BY <1>2, Numbers DEF SchedInv, LogInv
  <1>10. LineInv' BY <1>2, <1>9 DEF LineInv
  <1> QED BY <1>1, <1>3, <1>6, <1>7, <1>8, <1>10

(* The steps of a handler leave the goroutine of the job where it is.      *)
LEMMA HandlerFrame ==
  ASSUME JobInv, TypeOK', UNCHANGED schedVars, UNCHANGED <<outputs, sending>>
  PROVE  /\ SchedInv' /\ Persisted' = Persisted /\ Over' = Over
         /\ UNCHANGED <<hazards, listed, log, calls, outputs, sending>>
         /\ \A v, e : Outgoing(v, e)' = Outgoing(v, e)
  <1>1. SchedInv' BY SchedFrame DEF JobInv
  <1>2. UNCHANGED <<hazards, process, pipe, events, listed, log, calls, disk>>
    BY DEF schedVars, executorVars, recordVars
  <1> QED BY <1>1, <1>2 DEF Persisted, Over, Ended, Outgoing

LEMMA SubscribeInv ==
  ASSUME JobInv, NEW v \in Viewers, Subscribe(v)
  PROVE  JobInv'
  <1> USE DEF JobInv
  <1>1. /\ viewer[v] = "away" /\ listed /\ subs' = subs \cup {v}
        /\ viewer' = [viewer EXCEPT ![v] = "snapshot"]
        /\ UNCHANGED schedVars /\ UNCHANGED <<outputs, sending>>
        /\ UNCHANGED <<channel, closed, dropped, shown, told>>
    BY DEF Subscribe, schedVars, executorVars, recordVars, publishVars
  <1>2. /\ viewer'[v] = "snapshot"
        /\ \A u \in Viewers \ {v} : viewer'[u] = viewer[u]
        /\ viewer' \in [Viewers -> {"away", "snapshot", "check", "stream", "left"}]
    BY <1>1 DEF SchedInv, TypeOK
  <1>3. UNCHANGED <<hazards, process, written, read, pipe, events, status, listed, log, calls, disk>>
    BY <1>1 DEF schedVars, executorVars, recordVars
  <1>4. TypeOK' BY <1>1, <1>2, <1>3 DEF SchedInv, TypeOK
  <1>5. /\ SchedInv' /\ Persisted' = Persisted /\ Over' = Over
        /\ \A u, e : Outgoing(u, e)' = Outgoing(u, e)
    BY <1>1, <1>4, HandlerFrame
  <1>6. ~ closed[v] /\ told[v] # "stream" BY <1>1 DEF SubsInv, DoneLast
  <1>7. SubsInv' BY <1>1, <1>2, <1>6 DEF SubsInv
  <1>8. \A u \in Viewers : DoneSent(u)' = DoneSent(u)
    BY <1>1, <1>5 DEF DoneSent, InChannel
  <1>9. DoneInv' BY <1>5, <1>8 DEF DoneInv
  <1>10. DoneLast' BY <1>1, <1>2, <1>6 DEF DoneLast, InChannel
  <1>11. FollowInv' BY <1>1, <1>2, <1>3, <1>5 DEF FollowInv, Watching
  <1>12. \A u \in Viewers : \A n : Reaches(u, n)' = Reaches(u, n)
    BY <1>1, <1>3, <1>5 DEF Reaches, InChannel
  <1>13. LineInv' BY <1>1, <1>2, <1>3, <1>12 DEF LineInv
  <1> QED BY <1>5, <1>7, <1>9, <1>10, <1>11, <1>13

LEMMA SnapshotInv ==
  ASSUME JobInv, NEW v \in Viewers, SendSnapshot(v)
  PROVE  JobInv'
  <1> USE DEF JobInv
  <1>1. /\ viewer[v] = "snapshot"
        /\ viewer' = [viewer EXCEPT ![v] = "check"]
        /\ shown' = [shown EXCEPT ![v] = IF listed THEN 1..log ELSE shown[v]]
        /\ UNCHANGED schedVars /\ UNCHANGED <<outputs, sending>>
        /\ UNCHANGED <<subs, channel, closed, dropped, told>>
    BY DEF SendSnapshot, schedVars, executorVars, recordVars, publishVars, streamVars
  <1>2. /\ viewer'[v] = "check"
        /\ \A u \in Viewers \ {v} : viewer'[u] = viewer[u]
        /\ viewer' \in [Viewers -> {"away", "snapshot", "check", "stream", "left"}]
    BY <1>1 DEF SchedInv, TypeOK
  <1>3. /\ shown'[v] = IF listed THEN 1..log ELSE shown[v]
        /\ \A u \in Viewers \ {v} : shown'[u] = shown[u]
        /\ shown' \in [Viewers -> SUBSET (1..MaxLines)]
    <2>1. 1..log \subseteq 1..MaxLines BY Numbers DEF SchedInv
    <2>2. shown \in [Viewers -> SUBSET (1..MaxLines)] BY DEF SchedInv, TypeOK
    <2> QED BY <1>1, <2>1, <2>2
  <1>4. UNCHANGED <<hazards, process, written, read, pipe, events, status, listed, log, calls, disk>>
    BY <1>1 DEF schedVars, executorVars, recordVars
  <1>5. TypeOK' BY <1>1, <1>2, <1>3, <1>4 DEF SchedInv, TypeOK
  <1>6. /\ SchedInv' /\ Persisted' = Persisted /\ Over' = Over
        /\ \A u, e : Outgoing(u, e)' = Outgoing(u, e)
    BY <1>1, <1>5, HandlerFrame
  <1>7. told[v] # "stream" BY <1>1 DEF DoneLast
  <1>8. SubsInv' BY <1>1, <1>2 DEF SubsInv
  <1>9. \A u \in Viewers : DoneSent(u)' = DoneSent(u)
    BY <1>1, <1>6 DEF DoneSent, InChannel
  <1>10. DoneInv' BY <1>6, <1>9 DEF DoneInv
  <1>11. DoneLast' BY <1>1, <1>2, <1>7 DEF DoneLast, InChannel
  <1>12. \A u \in Viewers : Watching(u)' = Watching(u)
    BY <1>1, <1>2 DEF Watching
  <1>13. FollowInv' BY <1>1, <1>4, <1>6, <1>12 DEF FollowInv
  <1>14. \A u \in Viewers \ {v} : \A n : Reaches(u, n)' = Reaches(u, n)
    BY <1>1, <1>3, <1>4, <1>6 DEF Reaches, InChannel
  <1>15. "trim" \notin hazards => \A n \in 1..log : Reaches(v, n)'
    BY <1>1, <1>3 DEF FollowInv, Watching, Reaches
  <1>16. LineInv' BY <1>1, <1>2, <1>3, <1>4, <1>7, <1>14, <1>15 DEF LineInv
  <1> QED BY <1>6, <1>8, <1>10, <1>11, <1>13, <1>16

(* CheckDone, ChannelClosed and Disconnect.                                *)
LEMMA LeaveInv ==
  ASSUME JobInv, NEW v \in Viewers, NEW by \in {"check", "no"}, Leave(v, by),
         viewer[v] # "away",
         UNCHANGED schedVars, UNCHANGED <<outputs, sending, channel, dropped, shown>>
  PROVE  JobInv'
  <1> USE DEF JobInv
  <1>1. /\ subs' = subs \ {v} /\ closed' = closed
        /\ viewer' = [viewer EXCEPT ![v] = "left"]
        /\ told' = [told EXCEPT ![v] = IF told[v] = "no" THEN by ELSE told[v]]
    BY DEF Leave, Cancel
  <1>2. /\ viewer'[v] = "left"
        /\ \A u \in Viewers \ {v} : viewer'[u] = viewer[u]
        /\ viewer' \in [Viewers -> {"away", "snapshot", "check", "stream", "left"}]
    BY <1>1 DEF SchedInv, TypeOK
  <1>3. /\ \A u \in Viewers : told'[u] = "stream" <=> told[u] = "stream"
        /\ told' \in [Viewers -> {"no", "check", "stream"}]
    BY <1>1 DEF SchedInv, TypeOK
  <1>4. UNCHANGED <<hazards, process, written, read, pipe, events, status, listed, log, calls, disk>>
    BY DEF schedVars, executorVars, recordVars
  <1>5. TypeOK' BY <1>1, <1>2, <1>3, <1>4 DEF SchedInv, TypeOK
  <1>6. /\ SchedInv' /\ Persisted' = Persisted /\ Over' = Over
        /\ \A u, e : Outgoing(u, e)' = Outgoing(u, e)
    BY <1>5, HandlerFrame
  <1>7. SubsInv' BY <1>1, <1>2 DEF SubsInv
  <1>8. \A u \in Viewers : DoneSent(u)' = DoneSent(u)
    BY <1>3, <1>6 DEF DoneSent, InChannel
  <1>9. DoneInv' BY <1>6, <1>8 DEF DoneInv
  <1>10. DoneLast' BY <1>2, <1>3 DEF DoneLast, InChannel
  <1>11. FollowInv' BY <1>1, <1>2, <1>4, <1>6 DEF FollowInv, Watching
  <1>12. \A u \in Viewers : \A n : Reaches(u, n)' = Reaches(u, n)
    BY <1>4, <1>6 DEF Reaches, InChannel
  <1>13. LineInv' BY <1>2, <1>3, <1>4, <1>12 DEF LineInv
  <1> QED BY <1>6, <1>7, <1>9, <1>10, <1>11, <1>13

LEMMA CheckRunningInv ==
  ASSUME JobInv, NEW v \in Viewers, CheckRunning(v)
  PROVE  JobInv'
  <1> USE DEF JobInv
  <1>1. /\ viewer[v] = "check" /\ viewer' = [viewer EXCEPT ![v] = "stream"]
        /\ UNCHANGED schedVars /\ UNCHANGED <<outputs, sending>>
        /\ UNCHANGED <<subs, channel, closed, dropped, shown, told>>
    BY DEF CheckRunning, schedVars, executorVars, recordVars, publishVars, streamVars
  <1>2. /\ viewer'[v] = "stream"
        /\ \A u \in Viewers \ {v} : viewer'[u] = viewer[u]
        /\ viewer' \in [Viewers -> {"away", "snapshot", "check", "stream", "left"}]
    BY <1>1 DEF SchedInv, TypeOK
  <1>3. UNCHANGED <<hazards, process, written, read, pipe, events, status, listed, log, calls, disk>>
    BY <1>1 DEF schedVars, executorVars, recordVars
  <1>4. TypeOK' BY <1>1, <1>2, <1>3 DEF SchedInv, TypeOK
  <1>5. /\ SchedInv' /\ Persisted' = Persisted /\ Over' = Over
        /\ \A u, e : Outgoing(u, e)' = Outgoing(u, e)
    BY <1>1, <1>4, HandlerFrame
  <1>6. SubsInv' BY <1>1, <1>2 DEF SubsInv
  <1>7. \A u \in Viewers : DoneSent(u)' = DoneSent(u)
    BY <1>1, <1>5 DEF DoneSent, InChannel
  <1>8. DoneInv' BY <1>5, <1>7 DEF DoneInv
  <1>9. DoneLast' BY <1>1, <1>2 DEF DoneLast, InChannel
  <1>10. \A u \in Viewers : Watching(u)' = Watching(u)
    BY <1>1, <1>2 DEF Watching
  <1>11. FollowInv' BY <1>1, <1>3, <1>5, <1>10 DEF FollowInv
  <1>12. \A u \in Viewers : \A n : Reaches(u, n)' = Reaches(u, n)
    BY <1>1, <1>3, <1>5 DEF Reaches, InChannel
  <1>13. LineInv' BY <1>1, <1>2, <1>3, <1>12 DEF LineInv
  <1> QED BY <1>5, <1>6, <1>8, <1>9, <1>11, <1>13

LEMMA LoadInv ==
  ASSUME JobInv, NEW v \in Viewers, LoadJobLog(v)
  PROVE  JobInv'
  <1> USE DEF JobInv
  <1>1. /\ viewer[v] = "left" /\ told[v] = "no"
        /\ shown' = [shown EXCEPT ![v] = 1..log]
        /\ UNCHANGED schedVars /\ UNCHANGED <<outputs, sending>>
        /\ UNCHANGED <<subs, channel, closed, dropped, viewer, told>>
    BY DEF LoadJobLog, schedVars, executorVars, recordVars, publishVars, streamVars
  <1>2. /\ \A u \in Viewers \ {v} : shown'[u] = shown[u]
        /\ shown' \in [Viewers -> SUBSET (1..MaxLines)]
    <2>1. 1..log \subseteq 1..MaxLines BY Numbers DEF SchedInv
    <2>2. shown \in [Viewers -> SUBSET (1..MaxLines)] BY DEF SchedInv, TypeOK
    <2> QED BY <1>1, <2>1, <2>2
  <1>3. UNCHANGED <<hazards, process, written, read, pipe, events, status, listed, log, calls, disk>>
    BY <1>1 DEF schedVars, executorVars, recordVars
  <1>4. TypeOK' BY <1>1, <1>2, <1>3 DEF SchedInv, TypeOK
  <1>5. /\ SchedInv' /\ Persisted' = Persisted /\ Over' = Over
        /\ \A u, e : Outgoing(u, e)' = Outgoing(u, e)
    BY <1>1, <1>4, HandlerFrame
  <1>6. SubsInv' BY <1>1 DEF SubsInv
  <1>7. \A u \in Viewers : DoneSent(u)' = DoneSent(u)
    BY <1>1, <1>5 DEF DoneSent, InChannel
  <1>8. DoneInv' BY <1>5, <1>7 DEF DoneInv
  <1>9. DoneLast' BY <1>1 DEF DoneLast, InChannel
  <1>10. FollowInv' BY <1>1, <1>3, <1>5 DEF FollowInv, Watching
  <1>11. \A u \in Viewers \ {v} : \A n : Reaches(u, n)' = Reaches(u, n)
    BY <1>1, <1>2, <1>3, <1>5 DEF Reaches, InChannel
  <1>12. LineInv' BY <1>1, <1>2, <1>3, <1>11 DEF LineInv
  <1> QED BY <1>5, <1>6, <1>8, <1>9, <1>10, <1>12

LEMMA ForwardInv ==
  ASSUME JobInv, NEW v \in Viewers, Forward(v)
  PROVE  JobInv'
  <1> USE DEF JobInv
  <1> DEFINE s == channel[v]
             e == Head(s)
  <1>1. /\ viewer[v] = "stream" /\ s # <<>>
        /\ shown' = [shown EXCEPT ![v] =
                       IF e.type = "log_line" THEN shown[v] \cup {e.line} ELSE shown[v]]
        /\ told' = [told EXCEPT ![v] = IF e.type = "done" THEN "stream" ELSE told[v]]
        /\ channel' = [channel EXCEPT ![v] = Tail(s)]
        /\ UNCHANGED schedVars /\ UNCHANGED <<outputs, sending>>
        /\ UNCHANGED <<subs, closed, dropped, viewer>>
    BY DEF Forward, schedVars, executorVars, recordVars, publishVars
  <1>2. s \in Seq(Envelopes) BY DEF SchedInv, TypeOK
  <1>3. /\ Tail(s) \in Seq(Envelopes) /\ Len(s) = Len(Tail(s)) + 1
        /\ Len(Tail(s)) \in Nat /\ e = s[1] /\ e \in Envelopes
        /\ \A i \in 1..Len(Tail(s)) : Tail(s)[i] = s[i + 1]
    <2> HIDE DEF s
    <2> QED BY <1>1, <1>2
  <1>4. /\ channel'[v] = Tail(s) /\ channel' \in [Viewers -> Seq(Envelopes)]
        /\ \A u \in Viewers \ {v} : channel'[u] = channel[u]
    <2>1. channel \in [Viewers -> Seq(Envelopes)] BY DEF SchedInv, TypeOK
    <2> HIDE DEF s
    <2> QED BY <1>1, <1>3, <2>1
  <1>5. /\ e.type = "log_line" => e.line \in 1..MaxLines /\ e = Line(e.line)
        /\ e.type = "done" <=> e = Event("done")
    BY <1>3, EnvelopeShape
  <1>6. /\ shown'[v] = IF e.type = "log_line" THEN shown[v] \cup {e.line} ELSE shown[v]
        /\ \A u \in Viewers \ {v} : shown'[u] = shown[u]
        /\ shown' \in [Viewers -> SUBSET (1..MaxLines)]
    <2>1. shown \in [Viewers -> SUBSET (1..MaxLines)] BY DEF SchedInv, TypeOK
    <2> HIDE DEF e
    <2> QED BY <1>1, <1>5, <2>1
  <1>7. /\ told'[v] = "stream" => told[v] = "stream" \/ e = Event("done")
        /\ e # Event("done") => told'[v] = told[v]
        /\ \A u \in Viewers \ {v} : told'[u] = told[u]
        /\ told' \in [Viewers -> {"no", "check", "stream"}]
    <2>1. told \in [Viewers -> {"no", "check", "stream"}] BY DEF SchedInv, TypeOK
    <2> HIDE DEF e
    <2> QED BY <1>1, <1>5, <2>1
  <1>8. UNCHANGED <<hazards, process, written, read, pipe, events, status, listed, log, calls, disk>>
    BY <1>1 DEF schedVars, executorVars, recordVars
  <1>9. TypeOK'
    <2>1. Len(s) <= QueueSize /\ QueueSize \in Nat /\ Len(s) \in Nat
      BY <1>3, JobAssumption DEF SchedInv, TypeOK
    <2>2. Len(channel'[v]) <= QueueSize BY <1>3, <1>4, <2>1
    <2>3. \A u \in Viewers : Len(channel'[u]) <= QueueSize
      BY <1>4, <2>2 DEF SchedInv, TypeOK
    <2> QED BY <1>1, <1>4, <1>6, <1>7, <1>8, <2>3 DEF SchedInv, TypeOK
  <1>10. /\ SchedInv' /\ Persisted' = Persisted /\ Over' = Over
         /\ \A u, x : Outgoing(u, x)' = Outgoing(u, x)
    BY <1>1, <1>9, HandlerFrame
  <1>11. SubsInv' BY <1>1 DEF SubsInv
  <1>12. /\ \A u \in Viewers : \A x : InChannel(u, x)' => InChannel(u, x)
         /\ \A x : InChannel(v, x) => InChannel(v, x)' \/ x = e
         /\ InChannel(v, e)
    <2>1. ASSUME NEW u \in Viewers, NEW x, InChannel(u, x)' PROVE InChannel(u, x)
      <3>1. CASE u # v BY <1>4, <2>1, <3>1 DEF InChannel
      <3>2. CASE u = v
        <4>1. PICK i \in 1..Len(Tail(s)) : Tail(s)[i] = x
          BY <1>4, <2>1, <3>2 DEF InChannel
        <4>2. i + 1 \in 1..Len(s) /\ s[i + 1] = x BY <1>3, <4>1
        <4> QED BY <3>2, <4>2 DEF InChannel
      <3> QED BY <3>1, <3>2
    <2>2. ASSUME NEW x, InChannel(v, x), x # e PROVE InChannel(v, x)'
      <3>1. PICK i \in 1..Len(s) : s[i] = x BY <2>2 DEF InChannel
      <3>2. i # 1 BY <1>3, <2>2, <3>1
      <3>3. PICK j \in 1..Len(Tail(s)) : i = j + 1
        <4>1. i - 1 \in 1..Len(Tail(s)) /\ i = (i - 1) + 1 BY <1>3, <3>1, <3>2
        <4> QED BY <4>1
      <3>4. Tail(s)[j] = x BY <1>3, <3>1, <3>3
      <3> QED BY <1>4, <3>4 DEF InChannel
    <2>3. InChannel(v, e)
      <3>1. 1 \in 1..Len(s) BY <1>3
      <3> QED BY <1>3, <3>1 DEF InChannel
    <2> QED BY <2>1, <2>2, <2>3
  <1>13. \A u \in Viewers :
           told'[u] = "stream" => told[u] = "stream" \/ InChannel(u, Event("done"))
    BY <1>7, <1>12
  <1>14. \A u \in Viewers : DoneSent(u)' => DoneSent(u)
    BY <1>10, <1>12, <1>13 DEF DoneSent
  <1>15. DoneInv' BY <1>10, <1>14 DEF DoneInv
  <1>16. ASSUME e = Event("done") PROVE Len(s) = 1 /\ Tail(s) = <<>>
    <2>1. 1 \in 1..Len(s) BY <1>3
    <2>2. Len(s) = 1 BY <1>3, <1>16, <2>1 DEF DoneLast
    <2>3. Len(Tail(s)) = 0 BY <1>3, <2>2
    <2> HIDE DEF s
    <2> QED BY <1>3, <2>2, <2>3, NoLength
  <1>17. told[v] # "stream" BY <1>1 DEF DoneLast
  <1>18. DoneLast'
    <2>1. ASSUME NEW i \in 1..Len(Tail(s)), Tail(s)[i] = Event("done")
          PROVE  i = Len(Tail(s))
      <3>1. i + 1 \in 1..Len(s) /\ s[i + 1] = Event("done") BY <1>3, <2>1
      <3>2. i + 1 = Len(s) BY <3>1 DEF DoneLast
      <3> QED BY <1>3, <3>2
    <2>2. told'[v] = "stream" => channel'[v] = <<>> /\ viewer'[v] = "stream"
      BY <1>1, <1>4, <1>7, <1>16, <1>17
    <2>3. \A u \in Viewers :
            told'[u] = "stream" \/ InChannel(u, Event("done"))' => u \notin outputs'
      BY <1>1, <1>12, <1>13 DEF DoneLast
    <2>4. ASSUME NEW u \in Viewers, u # v
          PROVE  /\ \A i \in 1..Len(channel'[u]) :
                      channel'[u][i] = Event("done") => i = Len(channel'[u])
                 /\ told'[u] = "stream" =>
                      channel'[u] = <<>> /\ viewer'[u] \in {"stream", "left"}
      BY <1>1, <1>4, <1>7, <2>4 DEF DoneLast
    <2> QED BY <1>4, <2>1, <2>2, <2>3, <2>4 DEF DoneLast
  <1>19. FollowInv' BY <1>1, <1>8, <1>10 DEF FollowInv, Watching
  <1>20. \A u \in Viewers \ {v} : \A n : Reaches(u, n)' = Reaches(u, n)
    BY <1>4, <1>6, <1>8, <1>10 DEF Reaches, InChannel
  <1>21. ASSUME NEW n, Reaches(v, n) PROVE Reaches(v, n)'
    <2>1. CASE Line(n) = e
      <3>1. e.type = "log_line" /\ e.line = n BY <2>1, EnvelopeShape
      <3> QED BY <1>6, <3>1 DEF Reaches
    <2>2. CASE Line(n) # e
      <3>1. n \in shown[v] => n \in shown'[v] BY <1>6
      <3>2. InChannel(v, Line(n)) => InChannel(v, Line(n))' BY <1>12, <2>2
      <3> QED BY <1>8, <1>10, <1>21, <3>1, <3>2 DEF Reaches
    <2> QED BY <2>1, <2>2
  <1>22. ASSUME e = Event("done"), ~ dropped[v], "trim" \notin hazards
         PROVE  1..log \subseteq shown[v]
    <2>1. InChannel(v, Event("done")) BY <1>12, <1>22
    <2>2. v \notin outputs BY <2>1 DEF DoneLast
    <2>3. calls \in {FromClose, <<>>} BY <2>1 DEF DoneInv, DoneSent, Persisted
    <2>4. ASSUME NEW n \in 1..log PROVE n \in shown[v]
      <3>1. Reaches(v, n) BY <1>1, <1>22 DEF LineInv
      <3>2. ~ InChannel(v, Line(n))
        <4>1. Len(s) = 1 BY <1>16, <1>22
        <4>2. s[1] # Line(n) BY <1>3, <1>22, EnvelopeShape
        <4> QED BY <4>1, <4>2 DEF InChannel
      <3>3. ~ Outgoing(v, Line(n)) BY <2>2 DEF Outgoing
      <3>4. calls # LineEnd(n) BY <2>3, Distinct DEF Finishing
      <3> QED BY <3>1, <3>2, <3>3, <3>4 DEF Reaches
    <2> QED BY <2>4
  <1>23. shown[v] \subseteq shown'[v] BY <1>6
  <1>24. LineInv'
    <2>1. ASSUME NEW u \in Viewers, u # v, ~ dropped'[u], "trim" \notin hazards'
          PROVE  /\ viewer'[u] \in {"check", "stream"} => \A n \in 1..log' : Reaches(u, n)'
                 /\ told'[u] = "stream" => 1..log' \subseteq shown'[u]
      BY <1>1, <1>6, <1>7, <1>8, <1>20, <2>1 DEF LineInv
    <2>2. ASSUME ~ dropped'[v], "trim" \notin hazards'
          PROVE  /\ \A n \in 1..log' : Reaches(v, n)'
                 /\ told'[v] = "stream" => 1..log' \subseteq shown'[v]
      <3>1. \A n \in 1..log' : Reaches(v, n)'
        BY <1>1, <1>8, <1>21, <2>2 DEF LineInv
      <3>2. told'[v] = "stream" => 1..log' \subseteq shown'[v]
        BY <1>1, <1>7, <1>8, <1>17, <1>22, <1>23, <2>2
      <3> QED BY <3>1, <3>2
    <2> QED BY <2>1, <2>2 DEF LineInv
  <1> QED BY <1>10, <1>11, <1>15, <1>18, <1>19, <1>24

-----------------------------------------------------------------------------
LEMMA JobStutter ==
  ASSUME JobInv, UNCHANGED vars
  PROVE  JobInv'
  <1>1. /\ UNCHANGED <<hazards, process, written, read, pipe, events, status, listed, log>>
        /\ UNCHANGED <<calls, outputs, sending, subs, channel, closed, dropped>>
        /\ UNCHANGED <<disk, viewer, shown, told>>
    BY DEF vars, executorVars, recordVars, publishVars, streamVars, viewerVars
  <1>2. TypeOK' BY <1>1 DEF JobInv, SchedInv, TypeOK
  <1>3. SchedInv'
    BY <1>1, <1>2, SchedFrame DEF JobInv, SchedInv, schedVars, executorVars, recordVars
  <1>4. /\ SubsInv' = SubsInv /\ DoneLast' = DoneLast
        /\ DoneInv' = DoneInv /\ FollowInv' = FollowInv /\ LineInv' = LineInv
    BY <1>1 DEF SubsInv, DoneLast, DoneInv, FollowInv, LineInv, DoneSent, InChannel,
       Outgoing, Persisted, Over, Ended, Watching, Reaches
  <1> QED BY <1>3, <1>4 DEF JobInv

LEMMA JobStep == JobInv /\ [Next]_vars => JobInv'
  <1> SUFFICES ASSUME JobInv, [Next]_vars PROVE JobInv' OBVIOUS
  <1>1. CASE Execute BY <1>1, ExecuteInv
  <1>2. CASE Schedule
    BY <1>2, CallsInv, AppendInv, CollectInv, CloseInv, SendInv DEF Schedule
  <1>3. CASE TrimJob BY <1>3, TrimInv
  <1>4. CASE Restart BY <1>4, RestartInv
  <1>5. ASSUME NEW v \in Viewers,
               Subscribe(v) \/ Serve(v) \/ Disconnect(v) \/ LoadJobLog(v)
        PROVE  JobInv'
    <2>1. CASE Subscribe(v) BY <2>1, SubscribeInv
    <2>2. CASE SendSnapshot(v) BY <2>2, SnapshotInv
    <2>3. CASE CheckDone(v)
      BY <2>3, LeaveInv
         DEF CheckDone, schedVars, executorVars, recordVars, publishVars
    <2>4. CASE CheckRunning(v) BY <2>4, CheckRunningInv
    <2>5. CASE Forward(v) BY <2>5, ForwardInv
    <2>6. CASE ChannelClosed(v)
      BY <2>6, LeaveInv
         DEF ChannelClosed, schedVars, executorVars, recordVars, publishVars
    <2>7. CASE Disconnect(v)
      BY <2>7, LeaveInv
         DEF Disconnect, schedVars, executorVars, recordVars, publishVars
    <2>8. CASE LoadJobLog(v) BY <2>8, LoadInv
    <2> QED BY <1>5, <2>1, <2>2, <2>3, <2>4, <2>5, <2>6, <2>7, <2>8 DEF Serve
  <1>6. CASE UNCHANGED vars BY <1>6, JobStutter
  <1> QED BY <1>1, <1>2, <1>3, <1>4, <1>5, <1>6 DEF Next

LEMMA JobInvariant == Spec => []JobInv
  BY JobInit, JobStep, PTL DEF Spec

(* The variables keep their types; in particular the log never grows past  *)
(* what the process wrote and no channel past its capacity.                *)
THEOREM TypeCorrect == Spec => []TypeOK
  <1>1. JobInv => TypeOK BY DEF JobInv, SchedInv
  <1> QED BY <1>1, JobInvariant, PTL

(* publish sends to channels it copied under the lock, and none of them is *)
(* ever closed: the same goroutine closes, and cancel does not.            *)
THEOREM SendsAreSafe == Spec => []NoSendOnClosed
  <1>1. JobInv => outputs \subseteq Viewers BY DEF JobInv, SchedInv, TypeOK
  <1>2. JobInv => NoSendOnClosed
    BY <1>1 DEF JobInv, SubsInv, NoSendOnClosed
  <1> QED BY <1>2, JobInvariant, PTL

(* A browser that follows the stream, with room in its channel and the job *)
(* listed, has every line: in the snapshot or from its channel.            *)
THEOREM StreamHasNoGap == Spec => []NoGap
  <1>1. JobInv => NoGap
    <2> SUFFICES ASSUME JobInv, NEW v \in Viewers, ~ dropped[v], "trim" \notin hazards,
                        \/ viewer[v] = "stream" /\ channel[v] = <<>> /\ Between /\ listed
                        \/ viewer[v] = "left" /\ told[v] = "stream"
                 PROVE  1..log \subseteq shown[v]
      BY DEF NoGap
    <2>1. CASE told[v] = "stream" BY <2>1 DEF JobInv, LineInv
    <2>2. CASE viewer[v] = "stream" /\ channel[v] = <<>> /\ Between
      <3>1. \A n \in 1..log : Reaches(v, n) BY <2>2 DEF JobInv, LineInv
      <3>2. \A n : /\ ~ InChannel(v, Line(n)) /\ ~ Outgoing(v, Line(n))
                   /\ calls # LineEnd(n)
        BY <2>2, NotEmpty DEF InChannel, Outgoing, Between
      <3> QED BY <3>1, <3>2 DEF Reaches
    <2> QED BY <2>1, <2>2
  <1> QED BY <1>1, JobInvariant, PTL

(* The log of a finished internal task has every line it wrote: its        *)
(* readers come to the end of the pipe before it is called finished.       *)
THEOREM OutputIsLogged == Spec => []AllOutputLogged
  <1>1. JobInv => AllOutputLogged
    <2> SUFFICES ASSUME JobInv, hazards = {}, status = "finished" PROVE log = written
      BY DEF AllOutputLogged
    <2>1. Ended /\ calls \in Finishing \cup {<<>>}
      BY DEF JobInv, SchedInv, PlanInv
    <2>2. \A n : calls # LineCalls(n) BY <2>1, Distinct, NotEmpty
    <2>3. Len(events) = 0 /\ First = 0 /\ Last = 0 /\ Appending = 0
      BY <2>1, <2>2, EmptyEvents DEF Ended, Appending
    <2>4. log \in Nat /\ read \in Nat BY Numbers DEF JobInv, SchedInv
    <2> QED BY <2>1, <2>3, <2>4 DEF JobInv, SchedInv, OutputInv, Ended
  <1> QED BY <1>1, JobInvariant, PTL

(* Whoever is told by the stream that the job is done finds it on disk as  *)
(* finished and with its whole log, after any number of restarts.          *)
THEOREM DoneJobsPersist == Spec => []DoneIsPersisted
  <1>1. JobInv => DoneIsPersisted
    BY DEF JobInv, DoneInv, DoneSent, Persisted, DoneIsPersisted
  <1> QED BY <1>1, JobInvariant, PTL
=============================================================================
