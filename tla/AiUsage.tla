------------------------------- MODULE AiUsage -------------------------------
(***************************************************************************)
(* Metering of model calls in fusion-ai: callers of a MeteredLlmProvider   *)
(* over the OpenAI-compatible transport, the bounded channel of BatchSink  *)
(* and the task run_usage_writer, with the store its write_batch writes.   *)
(*                                                                         *)
(* Calls run concurrently with the writer.  A call's answer is reduced to  *)
(* what decides its result: whether it has a choice with content or tool   *)
(* calls, and whether it reports usage.                                    *)
(***************************************************************************)
EXTENDS Naturals, Sequences, FiniteSets

CONSTANTS
  Call,               \* calls that are made
  Capacity,           \* channel_capacity
  MAX_BATCH,
  MAX_WRITE_ATTEMPTS

ASSUME UsageAssumption ==
  /\ IsFiniteSet(Call)
  /\ Capacity \in Nat
  /\ MAX_BATCH \in Nat \ {0} /\ MAX_WRITE_ATTEMPTS \in Nat \ {0}

VARIABLES
  phase,        \* where a call is; owed: it returned Ok with usage, over: it did not
  sinkOpen,     \* whether the program still holds providers, and with them senders
  recorded,     \* calls that were recorded, in this order
  queue,        \* the channel
  mode, batch, attempt,           \* the writer task
  dropped, write_failed, worker_restart,    \* UsageMetrics
  stored,       \* how often the store has a call's event
  ambiguous     \* calls whose batch was stored although its write reported a failure

writer  == <<mode, batch, attempt>>
metrics == <<dropped, write_failed, worker_restart>>
usageVars == <<phase, sinkOpen, recorded, queue, writer, metrics, stored, ambiguous>>

Elements(s) == {s[i] : i \in DOMAIN s}

\* Room of the channel, at least for one event.
Room == IF Capacity = 0 THEN 1 ELSE Capacity

UsageTypeOK ==
  /\ phase \in [Call -> {"idle", "chat", "responses", "owed", "over"}]
  /\ sinkOpen \in BOOLEAN
  /\ recorded \in Seq(Call)
  /\ queue \in Seq(Call) /\ Len(queue) <= Room
  /\ mode \in {"recv", "fill", "write", "backoff", "done", "dead"}
  /\ batch \in Seq(Call) /\ Len(batch) <= MAX_BATCH
  /\ attempt \in 0..MAX_WRITE_ATTEMPTS
  /\ dropped \in Nat /\ write_failed \in Nat /\ worker_restart \in Nat
  /\ stored \in [Call -> Nat] /\ ambiguous \subseteq Call

UsageInit ==
  /\ phase = [c \in Call |-> "idle"] /\ sinkOpen = TRUE
  /\ recorded = <<>> /\ queue = <<>>
  /\ mode = "recv" /\ batch = <<>> /\ attempt = 0
  /\ dropped = 0 /\ write_failed = 0 /\ worker_restart = 0
  /\ stored = [c \in Call |-> 0] /\ ambiguous = {}

----------------------------------------------------------------------------
(* Calls.                                                                  *)

InFlight(c) == phase[c] \in {"chat", "responses"}

\* chat_complete or responses_complete is called.
Send(c, form) ==
  /\ sinkOpen /\ phase[c] = "idle"
  /\ phase' = [phase EXCEPT ![c] = form]
  /\ UNCHANGED <<sinkOpen, recorded, queue, writer, metrics, stored, ambiguous>>

\* What an answer carries: no choice, an empty message, text or tool calls.
Content == {"nothing", "empty", "some"}

\* The transport's result is Ok: an empty message is a choice to into_response, and no
\* choice to responses_to_chat.
IsOk(form, content) == content = "some" \/ (form = "chat" /\ content = "empty")

\* Mutant of Metered: only chat_complete is decorated.
MeteredChatOnly(form, content, usage) == form = "chat" /\ usage /\ IsOk(form, content)

\* MeteredLlmProvider records an Ok answer that reports usage.
Metered(form, content, usage) == usage /\ IsOk(form, content)

HasRoom == Len(queue) < Room

\* BatchSink::record: try_send, or drop and count when the channel is full or closed.
Record(c) ==
  /\ recorded' = Append(recorded, c)
  /\ IF mode # "dead" /\ HasRoom
     THEN queue' = Append(queue, c) /\ UNCHANGED dropped
     ELSE dropped' = dropped + 1 /\ UNCHANGED queue

\* The vendor answers with a success status and a body that parses.
CallAnswered(c, content, usage) ==
  /\ InFlight(c)
  /\ phase' = [phase EXCEPT ![c] = IF usage /\ IsOk(@, content) THEN "owed" ELSE "over"]
  /\ IF Metered(phase[c], content, usage) THEN Record(c) ELSE UNCHANGED <<recorded, queue, dropped>>
  /\ UNCHANGED <<sinkOpen, writer, write_failed, worker_restart, stored, ambiguous>>

\* Transport, status or parse error; or the caller gives the call up.
CallFails(c) ==
  /\ InFlight(c)
  /\ phase' = [phase EXCEPT ![c] = "over"]
  /\ UNCHANGED <<sinkOpen, recorded, queue, writer, metrics, stored, ambiguous>>

\* The program drops its providers and with them the last sender.
DropSinks ==
  /\ sinkOpen /\ \A c \in Call : ~ InFlight(c)
  /\ sinkOpen' = FALSE
  /\ UNCHANGED <<phase, recorded, queue, writer, metrics, stored, ambiguous>>

----------------------------------------------------------------------------
(* run_usage_writer.                                                       *)

program == <<phase, sinkOpen, recorded>>

\* recv returns the first event of the next batch.
Recv ==
  /\ mode = "recv" /\ queue # <<>>
  /\ batch' = <<Head(queue)>> /\ queue' = Tail(queue) /\ mode' = "fill"
  /\ UNCHANGED <<program, attempt, metrics, stored, ambiguous>>

\* try_recv adds one, between two records of the callers.
Fill ==
  /\ mode = "fill" /\ queue # <<>> /\ Len(batch) < MAX_BATCH
  /\ batch' = Append(batch, Head(queue)) /\ queue' = Tail(queue)
  /\ UNCHANGED <<program, mode, attempt, metrics, stored, ambiguous>>

\* The batch is full or the channel empty: the first attempt to write.
FillEnds ==
  /\ mode = "fill" /\ (queue = <<>> \/ Len(batch) = MAX_BATCH)
  /\ mode' = "write" /\ attempt' = 1
  /\ UNCHANGED <<program, queue, batch, metrics, stored, ambiguous>>

\* write_batch stored the batch.
StoreBatch == stored' = [c \in Call |-> IF c \in Elements(batch) THEN stored[c] + 1 ELSE stored[c]]

\* write_batch failed, before the store had the batch or with its answer lost.
StoreUnclear ==
  \/ UNCHANGED <<stored, ambiguous>>
  \/ StoreBatch /\ ambiguous' = ambiguous \cup Elements(batch)

\* The writer is through with the batch.
NextBatch == mode' = "recv" /\ batch' = <<>> /\ attempt' = 0

Written ==
  /\ mode = "write"
  /\ StoreBatch /\ NextBatch
  /\ UNCHANGED <<program, queue, metrics, ambiguous>>

\* write_batch returns an error: back off, or drop the batch and count its events.
WriteFails ==
  /\ mode = "write"
  /\ StoreUnclear
  /\ IF attempt < MAX_WRITE_ATTEMPTS
     THEN mode' = "backoff" /\ UNCHANGED <<batch, attempt, metrics>>
     ELSE /\ write_failed' = write_failed + Len(batch)
          /\ NextBatch /\ UNCHANGED <<dropped, worker_restart>>
  /\ UNCHANGED <<program, queue>>

\* Mutant of BackoffEnds: the attempts are not counted.
BackoffUncounted ==
  /\ mode = "backoff"
  /\ mode' = "write"
  /\ UNCHANGED <<program, queue, batch, attempt, metrics, stored, ambiguous>>

BackoffEnds ==
  /\ mode = "backoff"
  /\ mode' = "write" /\ attempt' = attempt + 1
  /\ UNCHANGED <<program, queue, batch, metrics, stored, ambiguous>>

\* The future of write_batch panics: caught, the batch is dropped.
FuturePanics ==
  /\ mode = "write"
  /\ StoreUnclear
  /\ worker_restart' = worker_restart + 1
  /\ NextBatch
  /\ UNCHANGED <<program, queue, dropped, write_failed>>

\* The call of write_batch panics before it has made a future.  It is evaluated outside
\* of catch_unwind: the task dies, and the receiver with what is in the channel.
CallPanics ==
  /\ mode = "write"
  /\ mode' = "dead" /\ batch' = <<>> /\ queue' = <<>> /\ attempt' = 0
  /\ UNCHANGED <<program, metrics, stored, ambiguous>>

\* Mutant of Closed: the task that owns the receiver keeps a sender too.
ClosedNever == FALSE

\* recv returns None.
Closed == ~ sinkOpen /\ queue = <<>>

Exit ==
  /\ mode = "recv" /\ Closed
  /\ mode' = "done"
  /\ UNCHANGED <<program, queue, batch, attempt, metrics, stored, ambiguous>>

Write == Written \/ WriteFails \/ FuturePanics \/ CallPanics

UsageNext ==
  \/ \E c \in Call : \/ \E form \in {"chat", "responses"} : Send(c, form)
                     \/ \E content \in Content, usage \in BOOLEAN : CallAnswered(c, content, usage)
                     \/ CallFails(c)
  \/ DropSinks
  \/ Recv \/ Fill \/ FillEnds \/ Write \/ BackoffEnds \/ Exit

UsageSpec == UsageInit /\ [][UsageNext]_usageVars

\* The runtime runs the writer, and write_batch returns.
UsageFairSpec == UsageSpec /\ WF_usageVars(Recv \/ Fill \/ FillEnds \/ Write \/ BackoffEnds \/ Exit)

----------------------------------------------------------------------------
(* Properties.                                                             *)

UnderWay == Elements(batch) \cup Elements(queue)

\* Every call that was answered with usage is stored, under way, or covered by the metrics: an
\* operator can bound the loss by dropped + write_failed + MAX_BATCH per restart.  A writer
\* that died in the call of write_batch lost a batch and a channel beyond that.
LossIsCounted ==
  Cardinality({c \in Call : phase[c] = "owed" /\ stored[c] = 0 /\ c \notin UnderWay})
    <= dropped + write_failed + MAX_BATCH * worker_restart
       + (IF mode = "dead" THEN MAX_BATCH + Room ELSE 0)

\* The store has an event twice only when a write was carried out and reported as failed,
\* and never more often than the writer tries.
StoredOnce ==
  \A c \in Call : stored[c] <= MAX_WRITE_ATTEMPTS /\ (stored[c] > 1 => c \in ambiguous)

\* After the last sender is dropped the writer empties the channel and ends, unless it died.
Drains == ~ sinkOpen ~> (mode = "done" /\ UnderWay = {}) \/ mode = "dead"

============================================================================
