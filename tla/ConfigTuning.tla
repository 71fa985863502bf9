---------------------------- MODULE ConfigTuning ----------------------------
(***************************************************************************)
(* One key of the risk configuration: its versioned rows in Postgres, its  *)
(* live value in the Redis hash, and the copy the risk manager works with. *)
(* Writers are the settings form (dashboard/routes/risk_config.py), the    *)
(* tuning page applying a tweak the reviewer proposed (routes/tuning.py,   *)
(* agents/reviewer.py), the bot's /paper (hitl/telegram_bot.py), the reset *)
(* (routes/controls.py), and the risk manager filling in a missing         *)
(* default; the janitor deletes old rows.  None of them locks anything.    *)
(***************************************************************************)
EXTENDS Naturals, Sequences, FiniteSets

CONSTANTS
  Values,
  Default,   \* DEFAULT_RISK_CONFIG's value of the key
  Proposed,  \* the value the reviewer proposes
  TuneEvery, \* tuning_every_n_closures
  None,      \* the hash has no such field
  Forms,     \* requests being served at a time
  Keep,      \* config_settings_keep_versions
  MaxWrites, \* bound of the model: writes begun
  MaxFaults  \* bound of the model: failed calls and restarts

ASSUME ConfigAssumption ==
  /\ Values \subseteq Nat /\ {Default, Proposed} \subseteq Values /\ None \notin Values
  /\ {Keep, TuneEvery} \subseteq Nat \ {0} /\ {MaxWrites, MaxFaults} \subseteq Nat

VARIABLES
  rows,    \* config_settings, oldest id first
  live,    \* the field in Redis
  form,    \* per request, what it writes and its next call
  rm,      \* the risk manager: where its setup or its watcher is
  copy,    \* its _config
  linked,  \* its subscription has a connection
  inbox,   \* config_updated messages that wait there
  closures, \* reviewer:closures_since_tune
  tuner,   \* the reviewer: at rest, or asking its model for a tweak
  tweak,   \* the status of the reviewer's newest tweak of this key
  mixed,   \* ghost: the last write met another one, had no row, or broke off
  untold,  \* ghost: a change the risk manager has not read and was not told of
  nwrites,
  nfaults

tuning == <<closures, tuner, tweak>>
manager == <<rm, copy, linked, inbox>>
vars == <<rows, live, form, manager, tuning, mixed, untold, nwrites, nfaults>>

Idle == [pc |-> "idle"]
Busy(f)  == form[f] # Idle
Quiet    == \A f \in Forms : ~ Busy(f)
Newest   == IF rows = <<>> THEN 0
            ELSE CHOOSE n \in {rows[i].version : i \in DOMAIN rows} :
                   \A i \in DOMAIN rows : rows[i].version <= n

ConfigTypeOK ==
  /\ rows \in Seq([version : Nat, value : Values])
  /\ live \in Values \cup {None} /\ copy \in Values \cup {None}
  /\ \A f \in Forms :
       Busy(f) => /\ form[f].value \in Values \cup {None} /\ form[f].version \in Nat
                  /\ form[f].alone \in BOOLEAN
                  /\ form[f].pc \in {"commit", "live", "tell", "apply", "announce", "close"}
  /\ rm \in {"setup", "seed", "gap", "wait", "read", "fill", "deaf"}
  /\ closures \in 0 .. TuneEvery - 1 /\ tuner \in {"rest", "asking"}
  /\ tweak \in {"none", "pending", "applied", "rejected"}
  /\ linked \in BOOLEAN /\ inbox \in Nat
  /\ nwrites \in 0 .. MaxWrites /\ nfaults \in 0 .. MaxFaults

ConfigInit ==
  /\ rows = <<>> /\ live \in {None, Default} /\ copy = None
  /\ form = [f \in Forms |-> Idle]
  /\ rm = "setup" /\ linked = FALSE /\ inbox = 0
  /\ closures = 0 /\ tuner = "rest" /\ tweak = "none"
  /\ mixed = TRUE /\ untold = FALSE /\ nwrites = 0 /\ nfaults = 0

Fault == nfaults < MaxFaults /\ nfaults' = nfaults + 1
\* A write without a version spoils the ones under way.
Spoilt == [f \in Forms |-> IF Busy(f) THEN [form[f] EXCEPT !.alone = FALSE] ELSE Idle]

-----------------------------------------------------------------------------
(***************************************************************************)
(* Requests.                                                               *)
(***************************************************************************)
At(f, pc) == Busy(f) /\ form[f].pc = pc
Goes(f, pc) == form' = [form EXCEPT ![f].pc = pc]
Ends(f) == form' = [form EXCEPT ![f] = Idle]

Begin(f, pc, v, version) ==
  /\ ~ Busy(f) /\ nwrites < MaxWrites
  /\ nwrites' = nwrites + 1
  /\ form' = [Spoilt EXCEPT ![f] = [pc |-> pc, value |-> v, version |-> version,
                                    alone |-> Quiet]]

\* Broken variant of NextVersion: the newest version again.
NextVersionSame == Newest

NextVersion == Newest + 1

\* _write reads the newest version in the transaction that adds the next.
SaveBegin(f, v) ==
  /\ Begin(f, "commit", v, NextVersion)
  /\ UNCHANGED <<rows, live, manager, mixed, untold, nfaults, tuning>>

NewRow(f) == Append(rows, [version |-> form[f].version, value |-> form[f].value])

SaveCommit(f) ==
  /\ At(f, "commit")
  /\ rows' = NewRow(f)
  /\ Goes(f, "live")
  /\ UNCHANGED <<live, manager, mixed, untold, nwrites, nfaults, tuning>>

SaveLive(f) ==
  /\ At(f, "live")
  /\ live' = form[f].value
  /\ mixed' = ~ form[f].alone
  /\ Goes(f, "tell")
  /\ UNCHANGED <<rows, manager, untold, nwrites, nfaults, tuning>>

\* PUBLISH reaches who is subscribed, and connected.
Told == IF linked THEN inbox' = inbox + 1 /\ UNCHANGED untold
                     ELSE untold' = TRUE /\ UNCHANGED inbox

Tell(f) ==
  /\ At(f, "tell")
  /\ Told
  /\ Ends(f)
  /\ UNCHANGED <<rows, live, rm, copy, linked, mixed, nwrites, nfaults, tuning>>

\* The tuning page changes the hash and publishes within the transaction that adds
\* the row and settles the tweak.  It does not ask whether the tweak is pending.
ApplyBegin(f) ==
  /\ tweak # "none"
  /\ Begin(f, "apply", Proposed, NextVersion)
  /\ UNCHANGED <<rows, live, manager, mixed, untold, nfaults, tuning>>

ApplyLive(f) ==
  /\ At(f, "apply")
  /\ live' = form[f].value
  /\ Goes(f, "announce")
  /\ UNCHANGED <<rows, manager, mixed, untold, nwrites, nfaults, tuning>>

Announce(f) ==
  /\ At(f, "announce")
  /\ Told
  /\ Goes(f, "close")
  /\ UNCHANGED <<rows, live, rm, copy, linked, mixed, nwrites, nfaults, tuning>>

ApplyCommit(f) ==
  /\ At(f, "close")
  /\ rows' = NewRow(f)
  /\ tweak' = "applied"
  /\ mixed' = ~ form[f].alone
  /\ Ends(f)
  /\ UNCHANGED <<live, manager, closures, tuner, untold, nwrites, nfaults>>

RejectTweak ==
  /\ tweak \notin {"none", "rejected"}
  /\ tweak' = "rejected"
  /\ UNCHANGED <<rows, live, form, manager, closures, tuner, mixed, untold, nwrites, nfaults>>

\* Broken variant of Overwrite: nobody is told.
OverwriteSilent(f, v) ==
  /\ ~ Busy(f) /\ nwrites < MaxWrites
  /\ nwrites' = nwrites + 1
  /\ live' = v
  /\ mixed' = TRUE
  /\ form' = Spoilt
  /\ UNCHANGED <<rows, manager, untold, nfaults, tuning>>

\* Deleting a field, and /paper, leave the rows alone.
Overwrite(f, v) ==
  /\ ~ Busy(f) /\ nwrites < MaxWrites
  /\ nwrites' = nwrites + 1
  /\ live' = v
  /\ mixed' = TRUE
  /\ form' = [Spoilt EXCEPT ![f] = [pc |-> "tell", value |-> v, version |-> 0,
                                    alone |-> FALSE]]
  /\ UNCHANGED <<rows, manager, untold, nfaults, tuning>>

\* The reset sets the starting equity, and tells nobody.
ResetEquity(v) ==
  /\ nwrites < MaxWrites
  /\ nwrites' = nwrites + 1
  /\ live' = v /\ closures' = 0
  /\ mixed' = TRUE /\ untold' = TRUE
  /\ form' = Spoilt
  /\ UNCHANGED <<rows, manager, tuner, tweak, nfaults>>

\* Postgres or Redis does not answer: the transaction, if one is open, is rolled back,
\* what is in the hash stays.
RequestFails(f) ==
  /\ Busy(f)
  /\ Fault
  /\ Ends(f)
  /\ mixed' = (mixed \/ form[f].pc \in {"live", "announce", "close"})
  /\ untold' = (untold \/ form[f].pc \in {"tell", "announce"})
  /\ UNCHANGED <<rows, live, manager, nwrites, tuning>>

-----------------------------------------------------------------------------
(***************************************************************************)
(* The reviewer, after each closure.                                       *)
(***************************************************************************)
CountClosure ==
  /\ tuner = "rest" /\ closures + 1 < TuneEvery
  /\ closures' = closures + 1
  /\ UNCHANGED <<rows, live, form, manager, tuner, tweak, mixed, untold, nwrites, nfaults>>

\* The counter starts anew before the statistics are read and the model is asked.
AskForTweak ==
  /\ tuner = "rest" /\ closures + 1 >= TuneEvery
  /\ closures' = 0
  /\ tuner' = "asking"
  /\ UNCHANGED <<rows, live, form, manager, tweak, mixed, untold, nwrites, nfaults>>

\* A key and value are named, and a row is added; the older row stays, and so does the
\* value it was about.
ProposeTweak ==
  /\ tuner = "asking"
  /\ tweak' = "pending"
  /\ tuner' = "rest"
  /\ UNCHANGED <<rows, live, form, manager, closures, mixed, untold, nwrites, nfaults>>

\* No bucket has trades enough, the model sees nothing to tighten, its call fails, or
\* the reviewer dies: the next tweak is TuneEvery closures away.
NoTweak ==
  /\ tuner = "asking"
  /\ tuner' = "rest"
  /\ UNCHANGED <<rows, live, form, manager, closures, tweak, mixed, untold, nwrites, nfaults>>

-----------------------------------------------------------------------------
(***************************************************************************)
(* The risk manager: it loads the hash, then starts the task that          *)
(* subscribes and loads it again on every message.                         *)
(***************************************************************************)
Loads == rm \in {"setup", "read"}
Loaded == IF rm \in {"setup", "seed"} THEN "gap" ELSE "wait"

Load ==
  /\ Loads
  /\ IF live = None
     THEN rm' = (IF rm = "setup" THEN "seed" ELSE "fill") /\ UNCHANGED <<copy, untold>>
     ELSE rm' = Loaded /\ copy' = live /\ untold' = FALSE
  /\ UNCHANGED <<rows, live, form, linked, inbox, mixed, nwrites, nfaults, tuning>>

\* A missing field gets its default, whatever was written since it was missed.
Backfill ==
  /\ rm \in {"seed", "fill"}
  /\ live' = Default /\ copy' = Default
  /\ rm' = Loaded
  /\ mixed' = TRUE /\ untold' = FALSE
  /\ form' = Spoilt
  /\ UNCHANGED <<rows, linked, inbox, nwrites, nfaults, tuning>>

Subscribe ==
  /\ rm = "gap"
  /\ rm' = "wait"
  /\ linked' = TRUE
  /\ UNCHANGED <<rows, live, form, copy, inbox, mixed, untold, nwrites, nfaults, tuning>>

Receive ==
  /\ rm = "wait" /\ inbox > 0
  /\ inbox' = inbox - 1
  /\ rm' = "read"
  /\ UNCHANGED <<rows, live, form, copy, linked, mixed, untold, nwrites, nfaults, tuning>>

\* The connection is lost, with what waits there and what is published meanwhile; after
\* a second the subscription is there again, and nothing is loaded.
Disconnect ==
  /\ linked
  /\ Fault
  /\ linked' = FALSE /\ inbox' = 0
  /\ untold' = (untold \/ inbox > 0)
  /\ UNCHANGED <<rows, live, form, rm, copy, mixed, nwrites, tuning>>

Reconnect ==
  /\ rm = "wait" /\ ~ linked
  /\ linked' = TRUE
  /\ UNCHANGED <<rows, live, form, rm, copy, inbox, mixed, untold, nwrites, nfaults, tuning>>

\* An error while subscribing or loading ends the watcher's task, and nobody hears of it.
WatcherDies ==
  /\ rm \in {"gap", "read", "fill"}
  /\ Fault
  /\ rm' = "deaf" /\ linked' = FALSE /\ inbox' = 0
  /\ untold' = (untold \/ rm # "gap")
  /\ UNCHANGED <<rows, live, form, copy, mixed, nwrites, tuning>>

Restart ==
  /\ Fault
  /\ rm' = "setup" /\ linked' = FALSE /\ inbox' = 0
  /\ UNCHANGED <<rows, live, form, copy, mixed, untold, nwrites, tuning>>

\* The janitor keeps the rows added last.
SweepVersions ==
  /\ Len(rows) > Keep
  /\ rows' = SubSeq(rows, Len(rows) - Keep + 1, Len(rows))
  /\ UNCHANGED <<live, form, manager, mixed, untold, nwrites, nfaults, tuning>>

-----------------------------------------------------------------------------
RequestStep(f) ==
  \/ SaveCommit(f) \/ SaveLive(f) \/ Tell(f)
  \/ ApplyLive(f) \/ Announce(f) \/ ApplyCommit(f)

RiskManagerStep == Load \/ Backfill \/ Subscribe \/ Receive \/ Reconnect

ConfigNext ==
  \/ \E f \in Forms :
       \/ \E v \in Values : SaveBegin(f, v)
       \/ \E v \in Values \cup {None} : Overwrite(f, v)
       \/ ApplyBegin(f) \/ RequestStep(f) \/ RequestFails(f)
  \/ \E v \in Values : ResetEquity(v)
  \/ RejectTweak
  \/ CountClosure \/ AskForTweak \/ ProposeTweak \/ NoTweak
  \/ RiskManagerStep \/ Disconnect \/ WatcherDies \/ Restart \/ SweepVersions

\* What the configuration page shows as the current version is what is live, unless
\* two writes met, a write had no row (/paper, a deletion, a default filled in) or
\* broke off half-way (risk_config.py:3, "Writes to Postgres (audited, versioned) and
\* mirrors to Redis").
LiveIsLatest ==
  Quiet /\ ~ mixed => \A i \in DOMAIN rows : rows[i].version = Newest => rows[i].value = live

\* The risk manager ends up with the live value, unless a change went unannounced:
\* made before it subscribed, while its connection was lost, after its watcher died, or
\* without a message (risk_manager.py:167, "Re-load on config_updated").
CopyCatchesUp == <>[](untold \/ copy = live)

\* risk_config.py:1, "Live-edit risk configuration".
EditsTakeEffect == <>[](copy = live)
=============================================================================
