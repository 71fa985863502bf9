----------------------------- MODULE ApprovalStore -----------------------------
(***************************************************************************)
(* Human approval: plata/hitl/approval_store.py, with the two front ends   *)
(* that resolve a request, plata/hitl/telegram_bot.py (cb_approval) and    *)
(* plata/dashboard/routes/proposals.py (decide).                           *)
(*                                                                         *)
(* A request is a Redis hash per proposal; an answer is a message on the   *)
(* proposal's pub/sub channel, which reaches whoever listens at that       *)
(* moment and nobody later.  resolve() reads the status, writes it and     *)
(* publishes in three calls, so two operators can be inside it at once.    *)
(* TradePipeline composes this with the risk manager, the only listener.   *)
(***************************************************************************)
EXTENDS Naturals, FiniteSets

CONSTANTS
  Proposals,  \* proposals that may come to the pipeline
  Operators   \* concurrent resolve() calls: dashboard requests and Telegram taps

VARIABLES
  status,   \* the hash's status field, per proposal
  resolver, \* per operator: where its resolve() is
  granted   \* history: proposals an approving answer was published for

approvalVars == <<status, resolver, granted>>

Statuses == {"absent", "pending", "approved", "rejected"}
Answers  == {"approved", "rejected"}
NoCall   == [pc |-> "idle"]
Call     == [pc : {"writing", "publishing"}, p : Proposals, answer : Answers]

ApprovalType ==
  /\ status \in [Proposals -> Statuses]
  /\ resolver \in [Operators -> Call \cup {NoCall}]
  /\ granted \subseteq Proposals

ApprovalInit ==
  /\ status = [p \in Proposals |-> "absent"]
  /\ resolver = [o \in Operators |-> NoCall]
  /\ granted = {}

\* create_pending: HSET of the whole hash, whatever it held before.
CreatePending(p) ==
  /\ status' = [status EXCEPT ![p] = "pending"]
  /\ UNCHANGED <<resolver, granted>>

\* resolve: HGET status; a request that is not pending is turned away.
ResolveRead(o, p, answer) ==
  /\ resolver[o] = NoCall
  /\ status[p] = "pending"
  /\ resolver' = [resolver EXCEPT ![o] = [pc |-> "writing", p |-> p, answer |-> answer]]
  /\ UNCHANGED <<status, granted>>

\* resolve: HSET, without a second look at the status.
ResolveWrite(o) ==
  /\ resolver[o].pc = "writing"
  /\ status' = [status EXCEPT ![resolver[o].p] = resolver[o].answer]
  /\ resolver' = [resolver EXCEPT ![o].pc = "publishing"]
  /\ UNCHANGED granted

\* resolve: PUBLISH on the proposal's channel, then return True.
ResolvePublish(o) ==
  /\ resolver[o].pc = "publishing"
  /\ granted' = IF resolver[o].answer = "approved" THEN granted \cup {resolver[o].p} ELSE granted
  /\ resolver' = [resolver EXCEPT ![o] = NoCall]
  /\ UNCHANGED status
=============================================================================
