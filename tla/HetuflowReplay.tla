--------------------------- MODULE HetuflowReplay ---------------------------
(***************************************************************************)
(* fold_events and diff_projection of hetuflow-runtime: the projection     *)
(* that the event log alone gives, and its comparison with the live rows.  *)
(*                                                                         *)
(* fold_events is a left fold, so a writer may keep the folded projection  *)
(* instead of its log: appending e to the log is Fold(r, e) on r.  Events  *)
(* that the reducer ignores (merge_passed, branch_reached_join,            *)
(* parallel_join_satisfied, context_updated, timer_fired, activity_failed) *)
(* do not occur here.                                                      *)
(*                                                                         *)
(* Activities are numbered in creation order; NoAct is "no activity".      *)
(***************************************************************************)
EXTENDS Naturals, Sequences

NoAct == 0

TerminalStatus == {"completed", "errored", "cancelled"}

EmptyProjection == [status |-> "pending", current |-> NoAct, result |-> "none", rows |-> <<>>]

NewRow(e) ==
  [id |-> e.act, node |-> e.node, status |-> "active", result |-> "none", round |-> e.round,
   role |-> "declared", assignee |-> "none", by |-> "none"]

\* The reducer edits the first row that carries the id.
IsFirst(rows, i, id) == rows[i].id = id /\ \A j \in 1..(i - 1) : rows[j].id # id

EditFirst(r, id, fields) ==
  LET Edit(row) == [f \in DOMAIN row |-> IF f \in DOMAIN fields THEN fields[f] ELSE row[f]]
  IN  [r EXCEPT !.rows = [i \in DOMAIN @ |-> IF IsFirst(@, i, id) THEN Edit(@[i]) ELSE @[i]]]

SkipActive(r) ==
  [r EXCEPT !.rows = [i \in DOMAIN @ |->
                        IF @[i].status = "active" THEN [@[i] EXCEPT !.status = "skipped"] ELSE @[i]]]

\* One arm of the reducer per event type.
Fold(r, e) ==
  CASE e.type = "started"      -> [r EXCEPT !.status = "active"]
    [] e.type = "scheduled"    -> [r EXCEPT !.rows = Append(@, NewRow(e)),
                                            !.current = IF e.fanout THEN NoAct ELSE e.act,
                                            !.status = IF @ \in TerminalStatus THEN @ ELSE "active"]
    [] e.type = "claimed"      -> EditFirst(r, e.act, [assignee |-> e.assignee])
    [] e.type = "signalled"    -> EditFirst(r, e.act, [by |-> "user"])
    [] e.type = "act_completed" ->
         EditFirst(r, e.act, [status |-> "completed", result |-> e.result])
    [] e.type = "delivered"    ->
         EditFirst(r, e.act, [status |-> "completed", result |-> "none", by |-> "system"])
    [] e.type = "act_skipped"  -> EditFirst(r, e.act, [status |-> "skipped"])
    [] e.type = "rest_skipped" -> SkipActive(r)
    [] e.type = "escalated"    -> EditFirst(r, e.act, [role |-> "escalated"])
    [] e.type = "fanned_out"   -> [r EXCEPT !.current = NoAct]
    [] e.type = "completed"    -> [r EXCEPT !.status = "completed", !.result = e.result, !.current = NoAct]
    [] e.type = "errored"      -> [r EXCEPT !.status = "errored"]
    [] e.type = "returned_to_rework" ->
         [r EXCEPT !.status = "returned_waiting", !.rows = Append(@, NewRow(e)), !.current = e.act]
    [] e.type = "rework_resumed" -> [r EXCEPT !.status = "active"]
    [] e.type = "reactivated"  -> [r EXCEPT !.status = "active", !.result = "none"]

\* diff_projection finds nothing: the instance agrees, every folded row agrees with
\* the live row of its id, and every live row was folded.
SameRow(row, act) ==
  \A f \in {"status", "result", "round", "role", "assignee", "by"} : row[f] = act[f]

Agrees(r, inst, acts) ==
  /\ r.status = inst.status /\ r.current = inst.current /\ r.result = inst.result
  /\ \A i \in DOMAIN r.rows : r.rows[i].id \in DOMAIN acts /\ SameRow(r.rows[i], acts[r.rows[i].id])
  /\ \A a \in DOMAIN acts : \E i \in DOMAIN r.rows : r.rows[i].id = a

=============================================================================
