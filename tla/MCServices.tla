------------------------------ MODULE MCServices ------------------------------
(***************************************************************************)
(* What reads from a service outside that refuses, blocks and breaks off:  *)
(* RedditSource with three subreddits, TelegramListener with two channels. *)
(* They share no state, so that a behaviour is one of the two, chosen at   *)
(* the start; the other stays at a first state.                            *)
(***************************************************************************)
EXTENDS RedditSource, TelegramListener

CONSTANTS s1, s2, s3, c1, c2, a1, a2, p1

VARIABLE which
allVars == <<redditVars, tgVars, which>>

MCSubreddits == <<s1, s2, s3>>

MCInit ==
  /\ RedditInit /\ TelegramInit
  /\ which \in {"reddit", "telegram"}
  /\ which # "reddit" => public = {}

Reddited(A) == which = "reddit" /\ A /\ UNCHANGED <<tgVars, which>>
Telegrammed(A) == which = "telegram" /\ A /\ UNCHANGED <<redditVars, which>>

MCNext == Reddited(RedditNext) \/ Telegrammed(TelegramNext)

\* The fairness of the two, over the whole state.
MCSpec ==
  /\ MCInit /\ [][MCNext]_allVars
  /\ WF_allVars(Reddited(PollStep))
  /\ \A s \in Subs : WF_allVars(Reddited(FailsExpire(s)))
  /\ WF_allVars(Telegrammed(ListenerStep)) /\ WF_allVars(Telegrammed(CacheExpires))
  /\ WF_allVars(Telegrammed(WriteCount))
  /\ \A l \in Links : WF_allVars(Telegrammed(FloodEnds(l)))
=============================================================================
