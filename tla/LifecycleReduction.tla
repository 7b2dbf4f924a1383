------------------------- MODULE LifecycleReduction -------------------------
(* The pure part of lifecycle_evidence.py: what an evidence stream accepts,
   and what the recorder makes of the current heads of one attempt.  Payloads
   and digests are abstracted to the outcome they state; two pieces of evidence
   are equal here exactly when their envelopes have the same bytes.           *)
EXTENDS Naturals

Kinds == {"prepared", "submitted", "host", "relay", "gate", "revision",
          "publication"}

(* What a payload of each kind may say ("failed" stands for interrupted too).  *)
Outcomes ==
    [prepared |-> {"prepared"},
     submitted |-> {"submitted"},
     host |-> {"imported", "pending", "running", "completed", "failed"},
     relay |-> {"relayed", "not_applicable"},
     gate |-> {"passed", "failed", "blocked", "missing", "conflict"},
     revision |-> {"queued", "exhausted", "blocked", "not_applicable", "missing",
                   "conflict"},
     publication |-> {"awaiting_review", "drafted", "merged", "rejected",
                      "terminal_no_publication", "blocked", "not_applicable",
                      "missing", "conflict"}]

(* _require_finality: every outcome closes its stream but those of a job that
   has not run to its end or waits for a review.                              *)
Ends(outcome) == outcome \notin {"imported", "pending", "running", "awaiting_review"}

(* One envelope of a stream: its producer sequence, what it states, whether
   it closes the stream (closed_status final or not_applicable), and a number
   that tells apart envelopes that state the same thing in different bytes.   *)
Envelope(seq, outcome, closed, copy) ==
    [seq |-> seq, outcome |-> outcome, closed |-> closed, copy |-> copy]

AllOutcomes == UNION {Outcomes[k] : k \in Kinds}
Said == AllOutcomes \union {"none"}

Envelopes == [seq : Nat, outcome : Said, closed : BOOLEAN, copy : Nat]

(* _validate_payload.                                                         *)
Stateable(kind, e) ==
    e.seq > 0 /\ e.outcome \in Outcomes[kind] /\ e.closed = Ends(e.outcome)

NoHead == Envelope(0, "none", FALSE, 0)

Closing(outcome, copy) == Envelope(1, outcome, TRUE, copy)

(* _replace_head and _validate_head_update: a stream starts at 1, a closed
   stream takes only an identical replay, an open one a replay or the next
   number (never a gap, a regression or other bytes under the same number).   *)
StreamAccepts(current, new) ==
    \/ current = NoHead /\ new.seq = 1
    \/ current # NoHead /\ new = current
    \/ current # NoHead /\ ~current.closed /\ new.seq = current.seq + 1

-----------------------------------------------------------------------------
(* _reduce_identity_heads: h is the attempt's current heads, merged whether a
   durable merge report names this attempt, drafted whether a correction of
   the attempt has drafted evidence of its own.                               *)

Dispatched(h) == h["prepared"] # NoHead /\ h["submitted"] # NoHead

(* Completed, relayed and judged by the gate.                                 *)
Validated(h) ==
    /\ Dispatched(h)
    /\ h["host"].outcome = "completed"
    /\ h["relay"].outcome = "relayed"
    /\ h["gate"] # NoHead

SettledPublication ==
    {"drafted", "merged", "rejected", "terminal_no_publication"}

\* Mutant: any end of the execution settles the item.
TerminalOnceArchived(h, merged, drafted) ==
    \/ Dispatched(h) /\ h["host"].outcome = "failed"
    \/ Validated(h) /\ h["gate"].outcome = "passed"
                    /\ h["publication"].outcome \in SettledPublication

Terminal(h, merged, drafted) ==
    \/ /\ Dispatched(h)
       /\ h["host"].outcome = "failed"
       /\ merged
    \/ /\ Validated(h)
       /\ h["gate"].outcome = "failed"
       /\ \/ h["revision"].outcome = "queued" /\ drafted
          \/ h["revision"].outcome = "exhausted"
    \/ /\ Validated(h)
       /\ h["gate"].outcome = "passed"
       /\ h["revision"].outcome = "not_applicable"
       /\ h["publication"].outcome \in SettledPublication

InFlight(h, drafted) ==
    \/ h["prepared"] # NoHead /\ h["submitted"] = NoHead
    \/ /\ Dispatched(h)
       /\ h["host"].outcome \in {"none", "imported", "pending", "running"}
    \/ /\ Validated(h)
       /\ h["gate"].outcome = "failed"
       /\ h["revision"].outcome = "queued"
       /\ ~drafted
    \/ /\ Validated(h)
       /\ h["gate"].outcome = "passed"
       /\ h["revision"].outcome = "not_applicable"
       /\ h["publication"].outcome = "awaiting_review"

(* What refill may do with the item: go on to the next one, wait, or stop and
   ask an operator (refill_action block_fail_closed without in_flight).       *)
Dispositions == {"terminal", "in_flight", "blocked"}

Disposition(h, merged, drafted) ==
    IF Terminal(h, merged, drafted) THEN "terminal"
    ELSE IF InFlight(h, drafted) THEN "in_flight" ELSE "blocked"
=============================================================================
