------------------------------- MODULE FunAsr -------------------------------
(***************************************************************************)
(* A session of fusion-ai's real-time speech recognition: the event stream *)
(* that a consumer polls, the pump task that sends audio and context       *)
(* updates, and the provider behind one websocket.  The consumer may drop  *)
(* the stream, the microphone may never end, and the connection may break. *)
(***************************************************************************)
EXTENDS Naturals, Sequences

CONSTANTS
  Mics,                \* what AsrInit chooses the uplink from: sequences of items
  MaxSentence,         \* bound: sentences that the provider recognises
  MaxVersion,          \* bound: how often it revises one
  MaxDown              \* bound: frames under way to the client

ASSUME AsrAssumption == {MaxSentence, MaxVersion, MaxDown} \subseteq Nat \ {0}

VARIABLES
  stage,               \* of the event stream
  outcome,             \* how it ended
  shown,               \* the segments that were yielded
  segments, partial,   \* all_segments, and the position of an unfinished one, or 0
  result,              \* the segments of the final transcript
  pump, mic, endless,  \* the uplink task, its items to come, whether more may come for ever
  sent,                \* frames that the pump sent
  down, up,            \* frames under way to the client; whether the connection is up
  talk                 \* the provider: whether it started and ended, and its last segment

stream == <<stage, outcome, shown, segments, partial, result>>
uplink == <<pump, mic, endless, sent>>
asrVars == <<stream, uplink, down, up, talk>>

Segment == [sentence : 1..MaxSentence, version : 1..MaxVersion, final : BOOLEAN]

Over == stage = "ended"

AsrTypeOK ==
  /\ stage \in {"opened", "connecting", "sending", "starting", "started", "running", "draining", "ended"}
  /\ outcome \in {"none", "finished", "error", "dropped"}
  /\ segments \in Seq(Segment) /\ partial \in 0..Len(segments)
  /\ pump \in {"none", "pumping", "done", "failed", "aborting", "gone"}
  /\ Len(down) <= MaxDown

NoSegment == [sentence |-> 0, version |-> 0, final |-> TRUE]

\* transcribe_realtime returned its stream; nothing happens before the first poll.
AsrInit ==
  /\ stage = "opened" /\ outcome = "none"
  /\ shown = <<>> /\ segments = <<>> /\ partial = 0 /\ result = <<>>
  /\ pump = "none" /\ mic \in Mics /\ endless \in BOOLEAN /\ sent = <<>>
  /\ down = <<>> /\ up = TRUE
  /\ talk = [started |-> FALSE, ended |-> FALSE, last |-> NoSegment]

----------------------------------------------------------------------------
(* The provider and the network.                                           *)

Frame(kind) == [kind |-> kind, segment |-> NoSegment]

Says(frame, t) ==
  /\ up /\ ~ talk.ended /\ Len(down) < MaxDown
  /\ stage \notin {"opened", "connecting"}
  /\ down' = Append(down, frame) /\ talk' = t
  /\ UNCHANGED <<stream, uplink, up>>

\* A ping, a pong, or an event that the client does not know.
SaysNothing == Says(Frame("ignorable"), talk)

SaysStarted == Says(Frame("started"), [talk EXCEPT !.started = TRUE])

\* A revision of the sentence under way, or, when that is final, the next one.
SaysResult ==
  \E final \in BOOLEAN :
    LET next == IF talk.last.final THEN [sentence |-> talk.last.sentence + 1, version |-> 1, final |-> final]
                ELSE [talk.last EXCEPT !.version = @ + 1, !.final = final]
    IN  /\ talk.started /\ next \in Segment
        /\ Says([kind |-> "result", segment |-> next], [talk EXCEPT !.last = next])

\* task-finished, asked for or not; task-failed; or a frame that does not parse.
SaysLast ==
  \E kind \in {"failed", "broken"} \cup (IF talk.started THEN {"finished"} ELSE {}) :
    Says(Frame(kind), [talk EXCEPT !.ended = TRUE])

\* The connection closes or breaks; frames under way may still be read.
Break ==
  /\ up /\ stage \notin {"opened", "connecting"}
  /\ up' = FALSE /\ down' \in {down, <<>>}
  /\ UNCHANGED <<stream, uplink, talk>>

----------------------------------------------------------------------------
(* The event stream.                                                       *)

\* The stream is over: its AbortOnDropHandle aborts a pump that still runs.
End(how) ==
  /\ stage' = "ended" /\ outcome' = how
  /\ pump' = IF pump = "pumping" THEN "aborting" ELSE pump

EndFailed == End("error") /\ UNCHANGED <<shown, segments, partial, result>>

Goes(to) == stage' = to /\ UNCHANGED <<outcome, shown, segments, partial, result>>

\* The first poll.
Poll == stage = "opened" /\ Goes("connecting") /\ UNCHANGED <<uplink, down, up, talk>>

\* connect_async.
Connect ==
  /\ stage = "connecting"
  /\ \/ Goes("sending") /\ UNCHANGED pump
     \/ EndFailed
  /\ UNCHANGED <<mic, endless, sent, down, up, talk>>

\* run-task is sent, under no deadline.
SendRunTask ==
  /\ stage = "sending"
  /\ \/ up /\ Goes("starting") /\ UNCHANGED pump
     \/ EndFailed
  /\ UNCHANGED <<mic, endless, sent, down, up, talk>>

\* The deadline over connecting and waiting for task-started; timeout_at looks for a frame first.
StartTimeout ==
  /\ stage \in {"connecting", "starting"} /\ down = <<>>
  /\ EndFailed
  /\ UNCHANGED <<mic, endless, sent, down, up, talk>>

Receive(kinds) ==
  /\ down # <<>> /\ Head(down).kind \in kinds
  /\ down' = Tail(down) /\ UNCHANGED <<mic, endless, sent, up, talk>>

\* Waiting for task-started, which is yielded: what can be ignored is skipped.
ReadBeforeStart ==
  /\ stage = "starting"
  /\ \/ Receive({"ignorable"}) /\ UNCHANGED <<stream, pump>>
     \/ Receive({"started"}) /\ Goes("started") /\ UNCHANGED pump
     \/ Receive({"result", "finished", "failed", "broken"}) /\ EndFailed

\* The next poll starts the pump.
StartPump ==
  /\ stage = "started" /\ Goes("running") /\ pump' = "pumping"
  /\ UNCHANGED <<mic, endless, sent, down, up, talk>>

\* What remains of all_segments when a new result comes: the unfinished one goes.
Settled == IF partial = 0 THEN segments ELSE SubSeq(segments, 1, partial - 1)

\* Mutant of ReadResult: a final segment leaves the unfinished one before it.
ReadResultBeside ==
  /\ stage = "running" /\ Receive({"result"})
  /\ LET segment == Head(down).segment
         kept    == IF segment.final THEN segments ELSE Settled
     IN  /\ segments' = Append(kept, segment)
         /\ partial' = IF segment.final THEN 0 ELSE Len(kept) + 1
         /\ shown' = Append(shown, segment)
  /\ UNCHANGED <<stage, outcome, result, pump>>

\* result-generated: it takes the place of an unfinished segment, and is yielded.
ReadResult ==
  /\ stage = "running" /\ Receive({"result"})
  /\ LET segment == Head(down).segment
     IN  /\ segments' = Append(Settled, segment)
         /\ partial' = IF segment.final THEN 0 ELSE Len(Settled) + 1
         /\ shown' = Append(shown, segment)
  /\ UNCHANGED <<stage, outcome, result, pump>>

\* task-finished: the transcript is yielded, and the pump gets some time.
ReadFinished ==
  /\ stage = "running" /\ Receive({"finished"})
  /\ stage' = "draining" /\ outcome' = "finished" /\ result' = segments
  /\ UNCHANGED <<shown, segments, partial, pump>>

ReadOther ==
  /\ stage = "running"
  /\ \/ Receive({"ignorable", "started"}) /\ UNCHANGED <<stream, pump>>
     \/ Receive({"failed", "broken"}) /\ EndFailed

\* The end of the connection is read.
ReadEnd ==
  /\ stage \in {"starting", "running"} /\ ~ up /\ down = <<>>
  /\ EndFailed
  /\ UNCHANGED <<mic, endless, sent, down, up, talk>>

\* No frame for idle_timeout.
IdleTimeout ==
  /\ stage = "running" /\ down = <<>>
  /\ EndFailed
  /\ UNCHANGED <<mic, endless, sent, down, up, talk>>

\* Mutant of Drain: the pump is waited for without a limit.
DrainUnlimited ==
  /\ stage = "draining" /\ pump # "pumping" /\ End(outcome)
  /\ UNCHANGED <<shown, segments, partial, result, mic, endless, sent, down, up, talk>>

\* The pump has ended, or its time is up: its errors do not count any more.
Drain ==
  /\ stage = "draining" /\ End(outcome)
  /\ UNCHANGED <<shown, segments, partial, result, mic, endless, sent, down, up, talk>>

\* The consumer drops the stream.
Drop ==
  /\ ~ Over /\ stage # "opened"
  /\ End(IF outcome = "none" THEN "dropped" ELSE outcome)
  /\ UNCHANGED <<shown, segments, partial, result, mic, endless, sent, down, up, talk>>

Read == ReadBeforeStart \/ ReadResult \/ ReadFinished \/ ReadOther \/ ReadEnd

----------------------------------------------------------------------------
(* The pump.                                                               *)

\* An item of the uplink: an empty frame and an empty update are skipped.
PumpItem ==
  /\ pump = "pumping" /\ mic # <<>>
  /\ mic' = Tail(mic)
  /\ LET silent == Head(mic) \in {"empty", "clear"}
     IN  /\ sent' = IF silent \/ ~ up THEN sent
                    ELSE Append(sent, IF Head(mic) = "update" THEN "continue-task" ELSE Head(mic))
         /\ pump' = IF silent \/ up THEN pump ELSE "failed"
  /\ UNCHANGED <<stream, endless, down, up, talk>>

\* The uplink has ended: finish-task.
PumpFinish ==
  /\ pump = "pumping" /\ mic = <<>> /\ ~ endless
  /\ sent' = IF up THEN Append(sent, "finish-task") ELSE sent
  /\ pump' = IF up THEN "done" ELSE "failed"
  /\ UNCHANGED <<stream, mic, endless, down, up, talk>>

\* An aborted pump stops at its next await.
PumpStops ==
  /\ pump = "aborting" /\ pump' = "gone"
  /\ UNCHANGED <<stream, mic, endless, sent, down, up, talk>>

AsrNext ==
  \/ SaysNothing \/ SaysStarted \/ SaysResult \/ SaysLast \/ Break
  \/ Poll \/ Connect \/ SendRunTask \/ StartPump \/ StartTimeout \/ IdleTimeout \/ Drain \/ Drop \/ Read
  \/ PumpItem \/ PumpFinish \/ PumpStops

\* Mutant of Deadline: each frame renews it.
DeadlineRenewed == WF_asrVars(StartTimeout)

\* The deadline stands when a frame comes: it need not pass in one wait (strong fairness).
Deadline == SF_asrVars(StartTimeout)

\* The runtime goes on with what is ready and its timers run out, idle_timeout from each
\* frame anew; the consumer goes on to poll; run-task is short enough to be sent or refused.
\* Nothing else is asked of the provider, the network and the microphone.
Fairness ==
  /\ Deadline
  /\ WF_asrVars(SendRunTask) /\ WF_asrVars(StartPump) /\ WF_asrVars(Read) /\ WF_asrVars(IdleTimeout) /\ WF_asrVars(Drain)
  /\ WF_asrVars(PumpItem) /\ WF_asrVars(PumpFinish) /\ WF_asrVars(PumpStops)

AsrSpec == AsrInit /\ [][AsrNext]_asrVars

AsrFairSpec == AsrSpec /\ Fairness

----------------------------------------------------------------------------
(* Properties.                                                             *)

\* The last version of each sentence that was shown, in the order of the sentences.
LastShown ==
  LET isLast(i) == \A j \in i + 1..Len(shown) : shown[j].sentence # shown[i].sentence
      numbers   == {i \in 1..Len(shown) : isLast(i)}
      at(s)     == CHOOSE i \in numbers : shown[i].sentence = s
  IN  [s \in {shown[i].sentence : i \in numbers} |-> shown[at(s)]]

\* The final transcript holds each sentence once and as the user saw it last, an unfinished
\* one at the end too, whichever way revisions, repeated and unknown events come.
KeepsEverySentence == outcome = "finished" => result = LastShown

\* A session gets an end.  Waiting for task-started ends whatever the provider sends, unless
\* its frames leave no pause at all; once it runs, only a provider that keeps sending frames
\* can hold the stream open.  After the transcript an endless microphone cannot, and a
\* stream that is over leaves no pump.
SessionEnds ==
  /\ (stage = "connecting" ~> stage \notin {"connecting", "sending", "starting", "started"}) \/ <>[](down # <<>>)
  /\ (stage = "running" ~> stage # "running") \/ []<>(down # <<>>)
  /\ stage = "draining" ~> Over
  /\ Over ~> pump \in {"none", "done", "failed", "gone"}

=============================================================================
