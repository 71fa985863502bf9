----------------------------- MODULE RedditSource -----------------------------
(***************************************************************************)
(* What one source of the scraper keeps from poll to poll: Reddit          *)
(* (agents/scraper/sources/reddit.py).  A poll asks for the next few       *)
(* subreddits of the list only, does not ask for one that has been refused *)
(* too often on days when others answered, and hands on the posts it has   *)
(* not seen before.  The runner cuts a poll off after ninety seconds.      *)
(* A subreddit has one post here.                                          *)
(***************************************************************************)
EXTENDS Naturals, Sequences, FiniteSets

CONSTANTS
  Subreddits, \* reddit_subreddits
  PerCycle,   \* PER_CYCLE_LIMIT
  Quarantine, \* refusals that keep a subreddit from being asked for, 10 in the code
  SeenCap,    \* of the set of seen posts, 5000 in the code
  MaxTroubles \* bound of the model

Subs == {Subreddits[i] : i \in DOMAIN Subreddits}

ASSUME RedditAssumption ==
  /\ Subreddits \in Seq(Subs) /\ Subreddits # <<>> /\ PerCycle \in Nat \ {0}
  /\ \A i, j \in DOMAIN Subreddits : Subreddits[i] = Subreddits[j] => i = j
  /\ Quarantine \in Nat \ {0} /\ {SeenCap, MaxTroubles} \subseteq Nat

VARIABLES
  offset,  \* _rotation_offset
  fails,   \* reddit:fail:*, gone a day after its last increment
  seen,    \* _seen_ids
  unreset, \* _needs_quarantine_reset
  poll,    \* the poll under way: what it still asks for, and what came of the others
  public,  \* the subreddits that answer; the others are private, or blocked for now
  handed,  \* history: posts handed on to the runner
  cut,     \* history: posts that were held by a poll that broke off
  ntroubles

redditVars == <<offset, fails, seen, unreset, poll, public, handed, cut, ntroubles>>

N == Len(Subreddits)
NoPoll == [on |-> FALSE, todo |-> <<>>, ok |-> {}, refused |-> {}, got |-> {}]

RedditTypeOK ==
  /\ offset \in 0 .. N - 1 /\ fails \in [Subs -> 0 .. Quarantine + MaxTroubles] /\ unreset \in BOOLEAN
  /\ poll \in [on : BOOLEAN, todo : Seq(Subs), ok : SUBSET Subs, refused : SUBSET Subs,
               got : SUBSET Subs]
  /\ {seen, public, handed, cut} \subseteq SUBSET Subs /\ ntroubles \in 0 .. MaxTroubles

RedditInit ==
  /\ offset = 0 /\ fails = [s \in Subs |-> 0] /\ seen = {} /\ unreset = TRUE
  /\ poll = NoPoll /\ public \in SUBSET Subs
  /\ handed = {} /\ cut = {} /\ ntroubles = 0

Trouble == ntroubles < MaxTroubles /\ ntroubles' = ntroubles + 1

-----------------------------------------------------------------------------
Asked == IF PerCycle < N THEN PerCycle ELSE N

\* The next subreddits of the list, from its start again after its end.
Slice == [i \in 1 .. Asked |-> Subreddits[((offset + i - 1) % N) + 1]]

\* Broken variant of NextOffset: the rotation stands still.
NextOffsetSame == offset

NextOffset == (offset + Asked) % N

\* The first poll of a process forgets the refusals; an error while it does is passed over.
BeginPoll ==
  /\ ~ poll.on
  /\ poll' = [NoPoll EXCEPT !.on = TRUE, !.todo = Slice]
  /\ offset' = NextOffset
  /\ unreset' = FALSE
  /\ \/ fails' = (IF unreset THEN [s \in Subs |-> 0] ELSE fails) /\ UNCHANGED ntroubles
     \/ unreset /\ Trouble /\ UNCHANGED fails
  /\ UNCHANGED <<seen, public, handed, cut>>

Next1(s) == poll.todo # <<>> /\ Head(poll.todo) = s
Rest == [poll EXCEPT !.todo = Tail(@)]

Skip(s) ==
  /\ Next1(s) /\ fails[s] >= Quarantine
  /\ poll' = Rest
  /\ UNCHANGED <<offset, fails, seen, unreset, public, handed, cut, ntroubles>>

\* A counter that cannot be read counts for none.
Asks(s) ==
  /\ Next1(s)
  /\ \/ fails[s] < Quarantine /\ UNCHANGED ntroubles
     \/ Trouble

\* Its posts, or those of its feed when they are refused.
Posts(s) == IF s \in public THEN {s} ELSE {}

\* Refusals are forgotten, when Redis has it.
Answers(s) ==
  /\ Asks(s) /\ Posts(s) # {}
  /\ poll' = [Rest EXCEPT !.ok = @ \cup {s}, !.got = @ \cup (Posts(s) \ seen)]
  /\ seen' = seen \cup Posts(s)
  /\ \/ fails' = [fails EXCEPT ![s] = 0]
     \/ ntroubles' # ntroubles /\ UNCHANGED fails
  /\ UNCHANGED <<offset, unreset, public, handed, cut>>

\* No connection: the status is 0, which is taken for an answer without posts.
Unreachable(s) ==
  /\ Next1(s)
  /\ Trouble
  /\ poll' = [Rest EXCEPT !.ok = @ \cup {s}] /\ fails' = [fails EXCEPT ![s] = 0]
  /\ UNCHANGED <<offset, seen, unreset, public, handed, cut>>

\* 403 for the posts, and nothing from the feed.
Refused(s) ==
  /\ Asks(s) /\ Posts(s) = {}
  /\ poll' = [Rest EXCEPT !.refused = @ \cup {s}]
  /\ UNCHANGED <<offset, fails, seen, unreset, public, handed, cut>>

\* Another error of this subreddit ...
OtherError(s) ==
  /\ Next1(s)
  /\ Trouble
  /\ poll' = Rest
  /\ UNCHANGED <<offset, fails, seen, unreset, public, handed, cut>>

\* ... or 429, which ends the poll.
RateLimited ==
  /\ poll.todo # <<>>
  /\ Trouble
  /\ poll' = [poll EXCEPT !.todo = <<>>]
  /\ UNCHANGED <<offset, fails, seen, unreset, public, handed, cut>>

\* Refusals count when somebody answered, and Redis counts them.
FinishPoll ==
  /\ poll.on /\ poll.todo = <<>>
  /\ \E counted \in SUBSET poll.refused :
       /\ IF counted = poll.refused THEN UNCHANGED ntroubles ELSE poll.ok # {} /\ Trouble
       /\ fails' = [s \in Subs |-> IF poll.ok # {} /\ s \in counted THEN fails[s] + 1
                                   ELSE fails[s]]
  /\ handed' = handed \cup poll.got
  /\ IF Cardinality(seen) > SeenCap
     THEN seen' \in {kept \in SUBSET seen : Cardinality(kept) = SeenCap \div 2}
     ELSE UNCHANGED seen
  /\ poll' = NoPoll
  /\ UNCHANGED <<offset, unreset, public, cut>>

\* Ninety seconds are over, or the poll's note for the page cannot be written: the posts
\* stay in the set of seen ones.
CutOff ==
  /\ poll.on
  /\ Trouble
  /\ cut' = cut \cup poll.got
  /\ poll' = NoPoll
  /\ UNCHANGED <<offset, fails, seen, unreset, public, handed>>

RestartScraper ==
  /\ Trouble
  /\ offset' = 0 /\ seen' = {} /\ unreset' = TRUE /\ poll' = NoPoll
  /\ UNCHANGED <<fails, public, handed, cut>>

FailsExpire(s) ==
  /\ fails[s] > 0
  /\ fails' = [fails EXCEPT ![s] = 0]
  /\ UNCHANGED <<offset, seen, unreset, poll, public, handed, cut, ntroubles>>

\* The site blocks the scraper's address or stops to; subreddits go private and back.
Blocks ==
  /\ Trouble
  /\ public' \in SUBSET Subs
  /\ UNCHANGED <<offset, fails, seen, unreset, poll, handed, cut>>

-----------------------------------------------------------------------------
PollStep == BeginPoll \/ FinishPoll \/ \E s \in Subs : Skip(s) \/ Answers(s) \/ Refused(s)

RedditNext ==
  \/ PollStep
  \/ \E s \in Subs : Unreachable(s) \/ OtherError(s) \/ FailsExpire(s)
  \/ RateLimited \/ CutOff \/ RestartScraper \/ Blocks

RedditSpec == RedditInit /\ [][RedditNext]_redditVars

\* The runner polls again and again, and days pass.
RedditFair == WF_redditVars(PollStep) /\ \A s \in Subs : WF_redditVars(FailsExpire(s))

\* "rotate the offset across cycles so every sub eventually gets polled" (reddit.py:53-54):
\* the post of a subreddit that answers from some time on is handed on, whatever was
\* refused, blocked or limited before, unless a poll that held it broke off.
EveryPostHandedOn ==
  \A s \in Subs : <>[](s \in public) => <>(s \in handed \cup cut)

\* A post marked as seen was handed on, is held by the poll under way, or was held by one
\* that broke off (reddit.py:180, which marks a post as it is collected): no other
\* failure, refusal or quarantine takes a post away.
SeenIsAccountedFor == seen \subseteq handed \cup cut \cup poll.got

\* A subreddit is counted out at the limit, and once more for every time that a call
\* failed: its counter was not read then, and it was asked again (reddit.py:134-140).
OverrunsAreTroubles ==
  \A s \in Subs :
    fails[s] + (IF s \in poll.refused THEN 1 ELSE 0) =< Quarantine + ntroubles
=============================================================================
