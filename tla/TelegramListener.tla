--------------------------- MODULE TelegramListener ---------------------------
(***************************************************************************)
(* Reading public Telegram channels with a user's account                  *)
(* (agents/scraper/telegram_user.py).  People log in, log out and edit the *)
(* list of channels on a page of the dashboard (dashboard/routes/news.py); *)
(* the listener, in another process, finds the session in the encrypted    *)
(* store through a cache (config/credentials.py), joins the listed         *)
(* channels one by one, and notes in telegram:user_join_status which it    *)
(* joined.  Messages of a chat are ingested when its row says joined.      *)
(***************************************************************************)
EXTENDS Naturals, Sequences, FiniteSets

CONSTANTS
  Links,      \* normalised links of channels
  Bad,        \* those Telegram refuses for ever: expired invitations, misspelt names
  Accounts,
  Pages,      \* edits and logouts being served at a time
  NoLink,
  MaxEdits,   \* bound of the model: edits and logouts
  MaxLogins,  \* bound of the model
  MaxTgFaults \* bound of the model: failing calls, flood waits and restarts

ASSUME TelegramAssumption ==
  /\ Bad \subseteq Links /\ NoLink \notin Links
  /\ {MaxEdits, MaxLogins, MaxTgFaults} \subseteq Nat

VARIABLES
  wanted,   \* telegram_user_channels
  rows,     \* telegram:user_join_status; "retry" is an error, or a flood wait that is over
  store,    \* the stored session, 0 if there is none
  owner,    \* the account of each session so far, in the order of their logins
  valid,    \* the sessions Telegram accepts
  member,   \* who is in which channel
  login,    \* the page's half-open client: a code was sent, or the client is signed in
  signed,   \* sessions signed in at Telegram whose request has not stored them yet
  page,     \* edits and logouts, and how far they are
  cache,    \* the listener's copy of the stored session, and whether it may be used
  listener, \* the listener's loop: its next call, its client and what it read
  bump,     \* the channel whose message counter is being written
  nedits, ntg

tgVars == <<wanted, rows, store, owner, valid, member, login, signed, page, cache, listener,
            bump, nedits, ntg>>
people == <<wanted, store, owner, login, signed, page, nedits>>

Closed == [pc |-> "closed"]
Offline == [pc |-> "look", client |-> 0, seen |-> 0, list |-> <<>>, link |-> NoLink,
            row |-> "none"]
Sessions == 1 .. Len(owner)
Row == {"none", "joined", "flood", "retry"}

TelegramTypeOK ==
  /\ wanted \in Seq(Links) /\ rows \in [Links -> Row]
  /\ store \in 0 .. Len(owner) /\ owner \in Seq(Accounts) /\ valid \subseteq Sessions
  /\ member \subseteq Accounts \X Links
  /\ login \in {"none", "sent", "signed"} /\ signed \subseteq Sessions
  /\ \A g \in Pages : page[g].pc \in {"closed", "save", "drop", "logout", "forget", "clear"}
  /\ cache.session \in 0 .. Len(owner) /\ cache.usable \in BOOLEAN
  /\ listener.pc \in {"look", "connect", "config", "rows", "join", "note"}
  /\ listener.client \in 0 .. Len(owner) /\ listener.link \in Links \cup {NoLink}
  /\ bump \in Links \cup {NoLink}
  /\ nedits \in 0 .. MaxEdits /\ ntg \in 0 .. MaxTgFaults

TelegramInit ==
  /\ wanted = <<>> /\ rows = [l \in Links |-> "none"]
  /\ store = 0 /\ owner = <<>> /\ valid = {} /\ member = {}
  /\ login = "none" /\ signed = {}
  /\ page = [g \in Pages |-> Closed]
  /\ cache = [session |-> 0, usable |-> FALSE]
  /\ listener = Offline
  /\ bump = NoLink /\ nedits = 0 /\ ntg = 0

TgFault == ntg < MaxTgFaults /\ ntg' = ntg + 1
InList(l, list) == \E i \in DOMAIN list : list[i] = l

-----------------------------------------------------------------------------
(***************************************************************************)
(* The page.                                                               *)
(***************************************************************************)
Page(g, pc) == page[g].pc = pc
PageTo(g, pc) == page' = [page EXCEPT ![g].pc = pc]
PageEnds(g) == page' = [page EXCEPT ![g] = Closed]
Edits == nedits < MaxEdits /\ nedits' = nedits + 1

\* A client of a login that was begun before is thrown away.
SendCode ==
  /\ Len(owner) < MaxLogins
  /\ login' = "sent"
  /\ UNCHANGED <<wanted, rows, store, owner, valid, member, signed, page, cache, listener,
                 bump, nedits, ntg>>

\* The code, and the password if there is one, are right.
SignIn(a) ==
  /\ login = "sent" /\ Len(owner) < MaxLogins
  /\ owner' = Append(owner, a)
  /\ valid' = valid \cup {Len(owner')} /\ signed' = signed \cup {Len(owner')}
  /\ login' = "signed"
  /\ UNCHANGED <<wanted, rows, store, member, page, cache, listener, bump, nedits, ntg>>

\* credentials.set_, in the dashboard: its own cache is not the listener's.  The session
\* stored before and the join status stay as they are; the half-open client goes, although
\* it may be one of a login that somebody began meanwhile.
StoreSession(session) ==
  /\ session \in signed
  /\ signed' = signed \ {session}
  /\ \/ store' = session /\ login' = "none" /\ UNCHANGED ntg
     \/ TgFault /\ UNCHANGED <<store, login>>
  /\ UNCHANGED <<wanted, rows, owner, valid, member, page, cache, listener, bump, nedits>>

Without(l) == SelectSeq(wanted, LAMBDA k : k # l)

\* Add and Remove read the list, and save it whole.
Edit(g, l) ==
  /\ Page(g, "closed")
  /\ Edits
  /\ page' = [page EXCEPT ![g] =
       [pc |-> "save", link |-> l,
        list |-> IF InList(l, wanted) THEN Without(l) ELSE Append(wanted, l)]]
  /\ UNCHANGED <<wanted, rows, store, owner, valid, member, login, signed, cache, listener,
                 bump, ntg>>

SaveList(g) ==
  /\ Page(g, "save")
  /\ wanted' = page[g].list
  /\ IF InList(page[g].link, page[g].list) THEN PageEnds(g) ELSE PageTo(g, "drop")
  /\ UNCHANGED <<rows, store, owner, valid, member, login, signed, cache, listener, bump,
                 nedits, ntg>>

DropRow(g) ==
  /\ Page(g, "drop")
  /\ rows' = [rows EXCEPT ![page[g].link] = "none"]
  /\ PageEnds(g)
  /\ UNCHANGED <<wanted, store, owner, valid, member, login, signed, cache, listener, bump,
                 nedits, ntg>>

\* Logging out: at Telegram, if it answers, then in the store, then the status.
Unlink(g) ==
  /\ Page(g, "closed")
  /\ Edits
  /\ page' = [page EXCEPT ![g] = [pc |-> IF store = 0 THEN "forget" ELSE "logout",
                                  session |-> store]]
  /\ UNCHANGED <<wanted, rows, store, owner, valid, member, login, signed, cache, listener,
                 bump, ntg>>

LogOut(g) ==
  /\ Page(g, "logout")
  /\ \/ valid' = valid \ {page[g].session} /\ UNCHANGED ntg
     \/ TgFault /\ UNCHANGED valid
  /\ PageTo(g, "forget")
  /\ UNCHANGED <<wanted, rows, store, owner, member, login, signed, cache, listener, bump,
                 nedits>>

Forget(g) ==
  /\ Page(g, "forget")
  /\ store' = 0
  /\ PageTo(g, "clear")
  /\ UNCHANGED <<wanted, rows, owner, valid, member, login, signed, cache, listener, bump,
                 nedits, ntg>>

ClearRows(g) ==
  /\ Page(g, "clear")
  /\ rows' = [l \in Links |-> "none"]
  /\ PageEnds(g)
  /\ UNCHANGED <<wanted, store, owner, valid, member, login, signed, cache, listener, bump,
                 nedits, ntg>>

\* The half-open login and the requests live in memory.
RestartDashboard ==
  /\ TgFault
  /\ login' = "none" /\ signed' = {} /\ page' = [g \in Pages |-> Closed]
  /\ UNCHANGED <<wanted, rows, store, owner, valid, member, cache, listener, bump, nedits>>

-----------------------------------------------------------------------------
(***************************************************************************)
(* The listener's loop.                                                    *)
(***************************************************************************)
On(pc) == listener.pc = pc
LoopsTo(pc) == listener' = [listener EXCEPT !.pc = pc]

\* credentials.get: the cache holds a value for a minute, absent ones too.
Session == IF cache.usable THEN cache.session ELSE store

Configured == Session # 0

CacheExpires ==
  /\ cache.usable
  /\ cache' = [cache EXCEPT !.usable = FALSE]
  /\ UNCHANGED <<people, rows, valid, member, listener, bump, ntg>>

Look ==
  /\ On("look")
  /\ cache' = [session |-> Session, usable |-> TRUE]
  /\ listener' = [listener EXCEPT
       !.pc = IF ~ Configured THEN "look"
              ELSE IF Session = listener.client THEN "config" ELSE "connect",
       !.client = IF Session = @ THEN @ ELSE 0,
       !.seen = Session]
  /\ UNCHANGED <<people, rows, valid, member, bump, ntg>>

\* The database is not reached: nothing is configured, as it seems, for a minute.
LookFails ==
  /\ On("look")
  /\ ~ cache.usable /\ TgFault
  /\ cache' = [session |-> 0, usable |-> TRUE]
  /\ listener' = [listener EXCEPT !.client = 0, !.seen = 0]
  /\ UNCHANGED <<people, rows, valid, member, bump>>

Authorised(session) == session \in valid

\* A session that is no longer authorised is tried again after half a minute.
Connect ==
  /\ On("connect")
  /\ listener' = IF Authorised(listener.seen)
                 THEN [listener EXCEPT !.pc = "config", !.client = listener.seen]
                 ELSE [listener EXCEPT !.pc = "look"]
  /\ UNCHANGED <<people, rows, valid, member, cache, bump, ntg>>

ReadConfig ==
  /\ On("config")
  /\ listener' = [listener EXCEPT !.pc = "rows", !.list = wanted]
  /\ UNCHANGED <<people, rows, valid, member, cache, bump, ntg>>

\* Broken variant of Stale: rows of channels that were removed stay.
StaleNever(l) == FALSE

Stale(l) == ~ InList(l, listener.list)

Tries(l) == rows[l] \notin {"joined", "flood"}

\* Broken variant of FirstToJoin: the listed channels are counted from one, so that the
\* first of them is passed over.
NextToJoin ==
  LET open == {i \in DOMAIN listener.list : i > 1 /\ Tries(listener.list[i])} IN
  IF open = {} THEN NoLink ELSE listener.list[CHOOSE i \in open : \A j \in open : i <= j]

FirstToJoin ==
  LET open == {i \in DOMAIN listener.list : Tries(listener.list[i])} IN
  IF open = {} THEN NoLink ELSE listener.list[CHOOSE i \in open : \A j \in open : i <= j]

\* One attempt per round: a channel that fails is first again in the next.
ReadRows ==
  /\ On("rows")
  /\ rows' = [l \in Links |-> IF Stale(l) THEN "none" ELSE rows[l]]
  /\ listener' = [listener EXCEPT !.pc = IF FirstToJoin = NoLink THEN "look" ELSE "join",
                                  !.link = FirstToJoin]
  /\ UNCHANGED <<people, valid, member, cache, bump, ntg>>

Joined(row) == listener' = [listener EXCEPT !.pc = "note", !.row = row]

Join ==
  /\ On("join")
  /\ IF listener.client \in valid /\ listener.link \notin Bad
     THEN /\ member' = member \cup {<<owner[listener.client], listener.link>>}
          /\ Joined("joined")
     ELSE Joined("retry") /\ UNCHANGED member
  /\ UNCHANGED <<people, rows, valid, cache, bump, ntg>>

\* Telegram is not reached, or wants the account to wait.
JoinFails ==
  /\ On("join")
  /\ TgFault
  /\ \E row \in {"retry", "flood"} : Joined(row)
  /\ UNCHANGED <<people, rows, valid, member, cache, bump>>

NoteRow ==
  /\ On("note")
  /\ rows' = [rows EXCEPT ![listener.link] = listener.row]
  /\ listener' = [listener EXCEPT !.pc = "look", !.link = NoLink, !.row = "none", !.list = <<>>]
  /\ UNCHANGED <<people, valid, member, cache, bump, ntg>>

FloodEnds(l) ==
  /\ rows[l] = "flood"
  /\ rows' = [rows EXCEPT ![l] = "retry"]
  /\ UNCHANGED <<people, valid, member, cache, listener, bump, ntg>>

\* An error outside a join: the client goes, and half a minute later the loop starts over.
LoopFails ==
  /\ ~ On("look")
  /\ TgFault
  /\ listener' = Offline
  /\ UNCHANGED <<people, rows, valid, member, cache, bump>>

RestartListener ==
  /\ TgFault
  /\ listener' = Offline /\ cache' = [session |-> 0, usable |-> FALSE] /\ bump' = NoLink
  /\ UNCHANGED <<people, rows, valid, member>>

-----------------------------------------------------------------------------
(***************************************************************************)
(* Messages.                                                               *)
(***************************************************************************)
Ingests(l) ==
  /\ listener.client \in valid /\ rows[l] = "joined"
  /\ <<owner[listener.client], l>> \in member

\* The row is read for its counter, and written whole.
CountMessage(l) ==
  /\ bump = NoLink /\ Ingests(l)
  /\ bump' = l
  /\ UNCHANGED <<people, rows, valid, member, cache, listener, ntg>>

WriteCount ==
  /\ bump # NoLink
  /\ rows' = [rows EXCEPT ![bump] = "joined"]
  /\ bump' = NoLink
  /\ UNCHANGED <<people, valid, member, cache, listener, ntg>>

-----------------------------------------------------------------------------
PageStep(g) == SaveList(g) \/ DropRow(g) \/ LogOut(g) \/ Forget(g) \/ ClearRows(g)

ListenerStep == Look \/ Connect \/ ReadConfig \/ ReadRows \/ Join \/ NoteRow

TelegramNext ==
  \/ SendCode \/ RestartDashboard \/ \E a \in Accounts : SignIn(a)
  \/ \E n \in signed : StoreSession(n)
  \/ \E g \in Pages : Unlink(g) \/ PageStep(g) \/ \E l \in Links : Edit(g, l)
  \/ ListenerStep \/ LookFails \/ JoinFails \/ LoopFails \/ RestartListener \/ CacheExpires
  \/ \E l \in Links : FloodEnds(l) \/ CountMessage(l)
  \/ WriteCount

TelegramSpec == TelegramInit /\ [][TelegramNext]_tgVars

\* The loop is an endless task whose calls end, time passes, and counters are written.
TelegramFair ==
  /\ WF_tgVars(ListenerStep) /\ WF_tgVars(CacheExpires) /\ WF_tgVars(WriteCount)
  /\ \A l \in Links : WF_tgVars(FloodEnds(l))

-----------------------------------------------------------------------------
(***************************************************************************)
(* Properties.                                                             *)
(***************************************************************************)
\* The channel is listed, and nothing Telegram refuses is listed before it.
Unhindered(l) ==
  \E i \in DOMAIN wanted : wanted[i] = l /\ \A j \in 1 .. i : wanted[j] \notin Bad

\* The row says joined, and it was another account that joined.
Foreign(l) == rows[l] = "joined" /\ store # 0 /\ <<owner[store], l>> \notin member

\* A listed channel is joined in the end, however the list was edited and whatever failed
\* or made the listener wait, once an account is logged in for good (telegram_user.py:9-14,
\* "no restarts needed ... the agent joins missing ones itself"), unless its row is one
\* that another account left.
ChannelsJoined ==
  \A l \in Links :
    <>[](Unhindered(l) /\ store \in valid /\ ~ Foreign(l))
      => <>[](rows[l] = "joined" /\ Ingests(l))

\* The same without the two exceptions: no row of another account, no channel listed
\* before it that Telegram refuses.
EveryListedJoined ==
  \A l \in Links \ Bad :
    <>[](InList(l, wanted) /\ store \in valid) => <>[](rows[l] = "joined" /\ Ingests(l))

\* A channel that was taken off the list is not read any more (telegram_user.py:20, "Only
\* messages from chats in the followed list are ingested"): its row goes, although a join
\* or a message's counter that was under way puts it back, once its messages pause.
RemovedGoesQuiet ==
  \A l \in Links :
    <>[](~ InList(l, wanted) /\ bump # l) => <>[](~ Ingests(l))

\* What the page shows as joined was joined: Telegram took the request of one of the
\* accounts that logged in, though rows are written late, and written again by a counter
\* or after another account's login.
JoinedIsMember ==
  \A l \in Links : rows[l] = "joined" => l \notin Bad /\ \E a \in Accounts : <<a, l>> \in member
=============================================================================
