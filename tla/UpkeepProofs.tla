---------------------------- MODULE UpkeepProofs ----------------------------
(***************************************************************************)
(* Of ConfigTuning, for any number of requests, writes and failures: what  *)
(* the configuration page shows as newest is live when no write met        *)
(* another.  Of Sysop, for any set of troubles, any number of requests and *)
(* of failures: the loop runs the fix of a fingerprint once within the     *)
(* hour at most.  Of GraphRetention, for all events and edges: a reader of *)
(* the index sets misses no edge once the janitor has declared them ready. *)
(* The types of the three.                                                 *)
(***************************************************************************)
EXTENDS ConfigTuning, Sysop, GraphRetention, SequenceTheorems, TLAPS

-----------------------------------------------------------------------------
(***************************************************************************)
(* The rows.                                                               *)
(***************************************************************************)
Row == [version : Nat, value : Values]

Version(t, i) == t[i].version

\* Some row has the newest version, whichever of the oldest rows are deleted.
HasNewest(t) ==
  \A k \in 1 .. Len(t) : \E n \in k .. Len(t) : \A i \in k .. Len(t) :
    Version(t, i) <= Version(t, n)

Above(t, v) == \A i \in 1 .. Len(t) : Version(t, i) < v

\* The row added last has the newest version, and no other has it.
LastOnTop(t) == t # <<>> /\ \A i \in 1 .. Len(t) - 1 : Version(t, i) < Version(t, Len(t))
LastIs(t, v) == LastOnTop(t) /\ t[Len(t)].value = v

LEMMA RowFacts ==
  ASSUME NEW t \in Seq(Row)
  PROVE  /\ Len(t) \in Nat /\ DOMAIN t = 1 .. Len(t) /\ (t # <<>> => Len(t) >= 1)
         /\ \A i \in 1 .. Len(t) : t[i] \in Row /\ Version(t, i) \in Nat
<1>1. /\ Len(t) \in Nat /\ DOMAIN t = 1 .. Len(t) /\ (t # <<>> => Len(t) >= 1)
      /\ \A i \in 1 .. Len(t) : t[i] \in Row
  BY EmptySeq, LenProperties, ElementOfSeq
<1> QED
  BY <1>1 DEF Row, Version

LEMMA NewestIs ==
  ASSUME rows \in Seq(Row), rows # <<>>,
         \E i \in 1 .. Len(rows) : \A j \in 1 .. Len(rows) : Version(rows, j) <= Version(rows, i)
  PROVE  /\ \E i \in 1 .. Len(rows) : Newest = Version(rows, i)
         /\ \A j \in 1 .. Len(rows) : Version(rows, j) <= Newest
<1> DEFINE V == {Version(rows, i) : i \in DOMAIN rows}
<1>1. DOMAIN rows = 1 .. Len(rows)
  BY RowFacts
<1>2. \E v \in V : \A i \in DOMAIN rows : Version(rows, i) <= v
  BY <1>1
<1>3. Newest = CHOOSE v \in V : \A i \in DOMAIN rows : Version(rows, i) <= v
  BY DEF Newest, Version
<1>4. Newest \in V /\ \A i \in DOMAIN rows : Version(rows, i) <= Newest
  BY <1>2, <1>3
<1> QED
  BY <1>1, <1>4

LEMMA NewestAbove ==
  ASSUME rows \in Seq(Row), HasNewest(rows)
  PROVE  Newest \in Nat /\ Above(rows, Newest + 1)
<1>1. CASE rows = <<>>
  BY <1>1 DEF Newest, Above
<1>2. CASE rows # <<>>
  <2>1. Len(rows) \in Nat /\ Len(rows) >= 1 /\ \A i \in 1 .. Len(rows) : Version(rows, i) \in Nat
    BY <1>2, RowFacts
  <2>2. \E n \in 1 .. Len(rows) : \A i \in 1 .. Len(rows) : Version(rows, i) <= Version(rows, n)
    BY <2>1 DEF HasNewest
  <2>3. /\ \E i \in 1 .. Len(rows) : Newest = Version(rows, i)
        /\ \A j \in 1 .. Len(rows) : Version(rows, j) <= Newest
    BY <1>2, <2>2, NewestIs
  <2>4. Newest \in Nat
    BY <2>1, <2>3
  <2> QED
    BY <2>1, <2>3, <2>4 DEF Above
<1> QED
  BY <1>1, <1>2

LEMMA NewestIsLast ==
  ASSUME rows \in Seq(Row), NEW v, LastIs(rows, v), NEW i \in DOMAIN rows,
         rows[i].version = Newest
  PROVE  rows[i].value = v
<1>1. /\ Len(rows) \in Nat /\ Len(rows) >= 1 /\ DOMAIN rows = 1 .. Len(rows)
      /\ \A j \in 1 .. Len(rows) : Version(rows, j) \in Nat
  BY RowFacts DEF LastIs, LastOnTop
<1>2. \A j \in 1 .. Len(rows) - 1 : Version(rows, j) < Version(rows, Len(rows))
  BY DEF LastIs, LastOnTop
<1>3. \A j \in 1 .. Len(rows) : j = Len(rows) \/ Version(rows, j) < Version(rows, Len(rows))
  <2>1. \A j \in 1 .. Len(rows) : j = Len(rows) \/ j \in 1 .. Len(rows) - 1
    <3>1. Len(rows) \in Nat
      BY <1>1
    <3> QED
      BY ONLY <3>1
  <2> QED
    BY <1>2, <2>1
<1>4. \A j \in 1 .. Len(rows) : Version(rows, j) <= Newest
  <2>1. \A j \in 1 .. Len(rows) : Version(rows, j) <= Version(rows, Len(rows))
    <3> SUFFICES ASSUME NEW j \in 1 .. Len(rows)
                 PROVE  Version(rows, j) <= Version(rows, Len(rows))
      OBVIOUS
    <3>1. Version(rows, j) \in Nat /\ Version(rows, Len(rows)) \in Nat
      BY <1>1
    <3> QED
      BY <1>3, <3>1
  <2>2. rows # <<>> /\ Len(rows) \in 1 .. Len(rows)
    BY <1>1 DEF LastIs, LastOnTop
  <2> QED
    BY <2>1, <2>2, NewestIs
<1>5. i \in 1 .. Len(rows) /\ Newest = Version(rows, i)
  BY <1>1 DEF Version
<1>6. i = Len(rows)
  <2>1. Version(rows, Len(rows)) <= Version(rows, i)
    BY <1>1, <1>4, <1>5
  <2>2. Version(rows, Len(rows)) \in Nat /\ Version(rows, i) \in Nat
    BY <1>1, <1>5
  <2> QED
    BY <1>3, <1>5, <2>1, <2>2
<1> QED
  BY <1>6 DEF LastIs

LEMMA RowAdded ==
  ASSUME NEW t \in Seq(Row), HasNewest(t), NEW r \in Row
  PROVE  /\ Append(t, r) \in Seq(Row) /\ HasNewest(Append(t, r))
         /\ Above(t, r.version) => LastIs(Append(t, r), r.value)
<1> DEFINE u == Append(t, r)
<1>1. /\ u \in Seq(Row) /\ u # <<>> /\ Len(u) = Len(t) + 1 /\ Len(t) \in Nat
      /\ \A i \in 1 .. Len(t) : u[i] = t[i]
      /\ u[Len(u)] = r
  BY AppendProperties, RowFacts
<1>2. /\ \A i \in 1 .. Len(t) : Version(u, i) = Version(t, i) /\ Version(t, i) \in Nat
      /\ Version(u, Len(u)) = r.version /\ r.version \in Nat
  <2>1. \A i \in 1 .. Len(t) : Version(t, i) \in Nat
    BY RowFacts
  <2> QED
    BY <1>1, <2>1 DEF Version, Row
<1> HIDE DEF u
<1>3. Above(t, r.version) => LastIs(u, r.value)
  <2>1. \A i \in 1 .. Len(u) - 1 : i \in 1 .. Len(t)
    BY <1>1
  <2> QED
    BY <1>1, <1>2, <2>1 DEF Above, LastIs, LastOnTop
<1>4. ASSUME NEW k \in 1 .. Len(u)
      PROVE  \E n \in k .. Len(u) : \A i \in k .. Len(u) : Version(u, i) <= Version(u, n)
  <2>1. /\ \A i \in k .. Len(u) : i = Len(u) \/ i \in k .. Len(t)
        /\ k .. Len(t) \subseteq k .. Len(u) /\ Len(u) \in k .. Len(u)
        /\ k .. Len(t) \subseteq 1 .. Len(t)
        /\ k # Len(u) => k \in 1 .. Len(t)
    BY <1>1
  <2>2. CASE \A i \in k .. Len(t) : Version(t, i) <= r.version
    <3>1. \A i \in k .. Len(u) : Version(u, i) <= Version(u, Len(u))
      <4> SUFFICES ASSUME NEW i \in k .. Len(u) PROVE Version(u, i) <= r.version
        BY <1>2
      <4>1. CASE i = Len(u)
        BY <1>2, <4>1
      <4>2. CASE i \in k .. Len(t)
        BY <1>2, <2>1, <2>2, <4>2
      <4> QED
        BY <2>1, <4>1, <4>2
    <3> QED
      BY <2>1, <3>1
  <2>3. CASE \E i \in k .. Len(t) : r.version < Version(t, i)
    <3>1. k \in 1 .. Len(t)
      BY <1>1, <2>3
    <3>2. PICK n \in k .. Len(t) : \A i \in k .. Len(t) : Version(t, i) <= Version(t, n)
      BY <3>1 DEF HasNewest
    <3>3. r.version <= Version(t, n)
      BY <1>2, <2>1, <2>3, <3>2
    <3> QED
      BY <1>2, <2>1, <3>2, <3>3
  <2> QED
    <3>1. \A i \in k .. Len(t) : Version(t, i) \in Nat /\ r.version \in Nat
      BY <1>2, <2>1
    <3> QED
      BY <2>2, <2>3, <3>1
<1> QED
  BY <1>1, <1>3, <1>4 DEF HasNewest, u

LEMMA OldestSwept ==
  ASSUME NEW t \in Seq(Row), HasNewest(t), NEW m \in 1 .. Len(t)
  PROVE  /\ SubSeq(t, m, Len(t)) \in Seq(Row) /\ HasNewest(SubSeq(t, m, Len(t)))
         /\ \A v : Above(t, v) => Above(SubSeq(t, m, Len(t)), v)
         /\ \A v : LastIs(t, v) => LastIs(SubSeq(t, m, Len(t)), v)
<1> DEFINE u == SubSeq(t, m, Len(t))
<1>1. Len(t) \in Nat /\ \A i \in 1 .. Len(t) : t[i] \in Row /\ Version(t, i) \in Nat
  BY RowFacts
<1>2. /\ u \in Seq(Row) /\ Len(u) = Len(t) - m + 1
      /\ \A i \in 1 .. Len(t) - m + 1 : u[i] = t[m + i - 1]
  BY <1>1, SubSeqProperties
<1> HIDE DEF u
<1>3. \A i \in 1 .. Len(u) : Version(u, i) = Version(t, m + i - 1) /\ u[i] = t[m + i - 1]
  BY <1>2 DEF Version
<1>4. \A i \in 1 .. Len(u) : m + i - 1 \in 1 .. Len(t)
  BY <1>1, <1>2
<1>5. Len(u) >= 1 /\ m + Len(u) - 1 = Len(t) /\ Len(u) \in Nat /\ m \in Nat /\ m >= 1
  BY <1>1, <1>2
<1>6. \A v : Above(t, v) => Above(u, v)
  BY <1>3, <1>4 DEF Above
<1>7. ASSUME NEW v, LastIs(t, v) PROVE LastIs(u, v)
  <2>1. u # <<>> /\ u[Len(u)] = t[Len(t)] /\ Version(u, Len(u)) = Version(t, Len(t))
    BY <1>3, <1>5, EmptySeq
  <2>2. \A i \in 1 .. Len(u) - 1 : i \in 1 .. Len(u) /\ m + i - 1 \in 1 .. Len(t) - 1
    BY ONLY <1>5
  <2>3. \A i \in 1 .. Len(u) - 1 : Version(u, i) < Version(u, Len(u))
    BY <1>3, <1>7, <2>1, <2>2 DEF LastIs, LastOnTop
  <2> QED
    BY <1>7, <2>1, <2>3 DEF LastIs, LastOnTop
<1>8. ASSUME NEW k \in 1 .. Len(u)
      PROVE  \E n \in k .. Len(u) : \A i \in k .. Len(u) : Version(u, i) <= Version(u, n)
  <2>1. m + k - 1 \in 1 .. Len(t)
    BY <1>4
  <2>2. PICK n \in m + k - 1 .. Len(t) :
               \A i \in m + k - 1 .. Len(t) : Version(t, i) <= Version(t, n)
    BY <2>1 DEF HasNewest
  <2>3. /\ n - m + 1 \in k .. Len(u) /\ m + (n - m + 1) - 1 = n
        /\ \A i \in k .. Len(u) : i \in 1 .. Len(u) /\ m + i - 1 \in m + k - 1 .. Len(t)
    BY ONLY <1>5, <2>1, <2>2, k \in 1 .. Len(u), n \in m + k - 1 .. Len(t)
  <2> QED
    BY <1>3, <2>2, <2>3
<1> QED
  BY <1>2, <1>6, <1>7, <1>8 DEF HasNewest, u

-----------------------------------------------------------------------------
(***************************************************************************)
(* The requests.  One that began while nobody else wrote, and met nobody   *)
(* since, has a version above all, until its row is the newest.            *)
(***************************************************************************)
Request == [pc : {"commit", "live", "tell", "apply", "announce", "close"},
            value : Values \cup {None}, version : Nat, alone : BOOLEAN]

ConfigTyped ==
  /\ rows \in Seq(Row) /\ HasNewest(rows)
  /\ form \in [Forms -> Request \cup {Idle}]
  /\ mixed \in BOOLEAN
  /\ \A f \in Forms : Busy(f) /\ form[f].pc # "tell" => form[f].value \in Values

Alone(f) == Busy(f) /\ form[f].alone
HalfDone(f) == Busy(f) /\ form[f].pc \in {"live", "announce", "close"}

AloneInv(f) ==
  /\ \A g \in Forms : Busy(g) => g = f
  /\ form[f].pc \in {"commit", "apply", "announce", "close"} => Above(rows, form[f].version)
  /\ form[f].pc \in {"announce", "close"} => live = form[f].value
  /\ form[f].pc = "live" => LastIs(rows, form[f].value)

ConfigInv ==
  /\ ConfigTyped
  /\ \A f \in Forms : Alone(f) => AloneInv(f)
  /\ ~ mixed => LastIs(rows, live) \/ \E f \in Forms : HalfDone(f)

LEMMA ConfigBegins == ConfigInit => ConfigInv
<1> SUFFICES ASSUME ConfigInit PROVE ConfigInv
  OBVIOUS
<1>1. rows \in Seq(Row) /\ HasNewest(rows)
  BY EmptySeq DEF ConfigInit, HasNewest
<1> QED
  BY <1>1 DEF ConfigInit, ConfigInv, ConfigTyped, Alone, Busy

LEMMA RequestRecord ==
  ASSUME ConfigInv, NEW f \in Forms
  PROVE  /\ Busy(f) <=> form[f] \in Request
         /\ form[f] \in Request \cup {Idle}
<1>1. form[f] \in Request \cup {Idle}
  BY DEF ConfigInv, ConfigTyped
<1>2. Idle \notin Request
  BY DEF Idle, Request
<1> QED
  BY <1>1, <1>2 DEF Busy

\* What was settled stays so when rows and value do and nobody gets half-way.
LEMMA SettledStays ==
  ASSUME ConfigInv, UNCHANGED <<rows, live>>, mixed' = mixed,
         \A f \in Forms : HalfDone(f) => HalfDone(f)'
  PROVE  ~ mixed' => LastIs(rows', live') \/ \E f \in Forms : HalfDone(f)'
BY DEF ConfigInv

LEMMA SpoiltForms ==
  ASSUME ConfigInv
  PROVE  /\ Spoilt \in [Forms -> Request \cup {Idle}]
         /\ \A f \in Forms :
              /\ Busy(f) <=> Spoilt[f] # Idle
              /\ ~ Busy(f) => Spoilt[f] = form[f]
              /\ Busy(f) => /\ Spoilt[f].pc = form[f].pc /\ Spoilt[f].value = form[f].value
                            /\ ~ Spoilt[f].alone
<1>1. ASSUME NEW f \in Forms
      PROVE  /\ Spoilt[f] \in Request \cup {Idle}
             /\ Busy(f) <=> Spoilt[f] # Idle
             /\ ~ Busy(f) => Spoilt[f] = form[f]
             /\ Busy(f) => /\ Spoilt[f].pc = form[f].pc /\ Spoilt[f].value = form[f].value
                           /\ ~ Spoilt[f].alone
  <2>1. CASE Busy(f)
    <3>1. form[f] \in Request /\ Spoilt[f] = [form[f] EXCEPT !.alone = FALSE]
      BY <2>1, RequestRecord DEF Spoilt
    <3>2. /\ Spoilt[f] \in Request /\ Spoilt[f].pc = form[f].pc
          /\ Spoilt[f].value = form[f].value /\ Spoilt[f].alone = FALSE
      BY <3>1 DEF Request
    <3>3. Idle \notin Request
      BY DEF Idle, Request
    <3> QED
      BY <2>1, <3>2, <3>3
  <2>2. CASE ~ Busy(f)
    BY <2>2 DEF Spoilt, Busy
  <2> QED
    BY <2>1, <2>2
<1>2. Spoilt \in [Forms -> Request \cup {Idle}]
  BY <1>1 DEF Spoilt
<1> QED
  BY <1>1, <1>2

LEMMA BeginKeeps ==
  ASSUME ConfigInv, NEW f \in Forms, NEW pc \in {"commit", "apply"}, NEW v \in Values,
         Begin(f, pc, v, NextVersion), UNCHANGED <<rows, live, mixed>>
  PROVE  ConfigInv'
<1> DEFINE new == [pc |-> pc, value |-> v, version |-> NextVersion, alone |-> Quiet]
<1>1. ~ Busy(f) /\ form' = [Spoilt EXCEPT ![f] = new]
  BY DEF Begin
<1>2. NextVersion \in Nat /\ Above(rows, NextVersion)
  BY NewestAbove DEF ConfigInv, ConfigTyped, NextVersion
<1>3. Quiet \in BOOLEAN
  BY DEF Quiet
<1>4. new \in Request /\ new # Idle
  BY <1>2, <1>3 DEF Request, Idle
<1>5. /\ form' \in [Forms -> Request \cup {Idle}] /\ form'[f] = new
      /\ \A g \in Forms : g # f => form'[g] = Spoilt[g]
  BY <1>1, <1>4, SpoiltForms
<1> HIDE DEF new
<1>6. /\ Busy(f)' /\ \A g \in Forms : g # f => (Busy(g)' <=> Busy(g))
      /\ \A g \in Forms : g # f => ~ Alone(g)'
      /\ \A g \in Forms : HalfDone(g) => HalfDone(g)'
      /\ \A g \in Forms : g # f /\ Busy(g) =>
           form'[g].pc = form[g].pc /\ form'[g].value = form[g].value
  BY <1>1, <1>4, <1>5, SpoiltForms DEF Busy, Alone, HalfDone
<1>7. form'[f].pc = pc /\ form'[f].value = v /\ form'[f].version = NextVersion
      /\ form'[f].alone = Quiet
  BY <1>5 DEF new
<1>8. ConfigTyped'
  BY <1>5, <1>6, <1>7 DEF ConfigInv, ConfigTyped
<1>9. Alone(f)' => AloneInv(f)'
  BY <1>2, <1>6, <1>7 DEF Alone, AloneInv, Quiet
<1>10. ~ mixed' => LastIs(rows', live') \/ \E g \in Forms : HalfDone(g)'
  BY <1>6, SettledStays
<1> QED
  BY <1>6, <1>8, <1>9, <1>10 DEF ConfigInv

\* A write without a row.
LEMMA SpoiltKeeps ==
  ASSUME ConfigInv, UNCHANGED rows, mixed' = TRUE,
         form' = Spoilt \/ \E f \in Forms, v \in Values \cup {None} :
           form' = [Spoilt EXCEPT ![f] = [pc |-> "tell", value |-> v, version |-> 0, alone |-> FALSE]]
  PROVE  ConfigInv'
<1>1. CASE form' = Spoilt
  <2>1. /\ form' \in [Forms -> Request \cup {Idle}] /\ \A g \in Forms : ~ Alone(g)'
        /\ \A g \in Forms : Busy(g)' => /\ Busy(g) /\ form'[g].pc = form[g].pc
                                        /\ form'[g].value = form[g].value
    BY <1>1, SpoiltForms DEF Busy, Alone
  <2> QED
    BY <2>1 DEF ConfigInv, ConfigTyped
<1>2. ASSUME NEW f \in Forms, NEW v \in Values \cup {None},
             form' = [Spoilt EXCEPT ![f] = [pc |-> "tell", value |-> v, version |-> 0, alone |-> FALSE]]
      PROVE  ConfigInv'
  <2> DEFINE new == [pc |-> "tell", value |-> v, version |-> 0, alone |-> FALSE]
  <2>1. new \in Request
    BY DEF Request
  <2>2. /\ form' \in [Forms -> Request \cup {Idle}] /\ form'[f] = new
        /\ \A g \in Forms : g # f => form'[g] = Spoilt[g]
    BY <1>2, <2>1, SpoiltForms
  <2>3. form'[f].pc = "tell" /\ ~ form'[f].alone
    BY <2>2
  <2>4. /\ \A g \in Forms : ~ Alone(g)'
        /\ \A g \in Forms : g # f /\ Busy(g)' => /\ Busy(g) /\ form'[g].pc = form[g].pc
                                                 /\ form'[g].value = form[g].value
    BY <2>2, <2>3, SpoiltForms DEF Busy, Alone
  <2> QED
    BY <2>2, <2>3, <2>4 DEF ConfigInv, ConfigTyped
<1> QED
  BY <1>1, <1>2

\* A request goes on.
LEMMA FormGoes ==
  ASSUME ConfigInv, NEW f \in Forms, Busy(f),
         NEW pc \in {"live", "tell", "announce", "close"}, Goes(f, pc)
  PROVE  /\ form' \in [Forms -> Request \cup {Idle}] /\ Busy(f)'
         /\ form'[f].pc = pc /\ form'[f].value = form[f].value
         /\ form'[f].version = form[f].version /\ form'[f].alone = form[f].alone
         /\ \A g \in Forms : g # f => form'[g] = form[g]
         /\ Alone(f)' <=> Alone(f)
         /\ \A g \in Forms : g # f => /\ Busy(g)' <=> Busy(g)
                                      /\ Alone(g)' <=> Alone(g)
                                      /\ HalfDone(g)' <=> HalfDone(g)
<1>1. form[f] \in Request /\ form \in [Forms -> Request \cup {Idle}]
  BY RequestRecord DEF ConfigInv, ConfigTyped
<1>2. form' = [form EXCEPT ![f] = [form[f] EXCEPT !.pc = pc]]
  BY <1>1 DEF Goes
<1>3. /\ [form[f] EXCEPT !.pc = pc] \in Request
      /\ [form[f] EXCEPT !.pc = pc].pc = pc
      /\ [form[f] EXCEPT !.pc = pc].value = form[f].value
      /\ [form[f] EXCEPT !.pc = pc].version = form[f].version
      /\ [form[f] EXCEPT !.pc = pc].alone = form[f].alone
  BY <1>1 DEF Request
<1>4. /\ form' \in [Forms -> Request \cup {Idle}] /\ form'[f] = [form[f] EXCEPT !.pc = pc]
      /\ \A g \in Forms : g # f => form'[g] = form[g]
  BY <1>1, <1>2, <1>3
<1>5. Busy(f)'
  BY <1>3, <1>4 DEF Busy, Idle, Request
<1> QED
  BY <1>3, <1>4, <1>5 DEF Busy, Alone, HalfDone

LEMMA FormEnds ==
  ASSUME ConfigInv, NEW f \in Forms, Ends(f)
  PROVE  /\ form' \in [Forms -> Request \cup {Idle}] /\ ~ Busy(f)' /\ ~ HalfDone(f)' /\ ~ Alone(f)'
         /\ \A g \in Forms : g # f => /\ form'[g] = form[g]
                                      /\ Busy(g)' <=> Busy(g)
                                      /\ Alone(g)' <=> Alone(g)
                                      /\ HalfDone(g)' <=> HalfDone(g)
<1>1. form \in [Forms -> Request \cup {Idle}]
  BY DEF ConfigInv, ConfigTyped
<1>2. /\ form' \in [Forms -> Request \cup {Idle}] /\ form'[f] = Idle
      /\ \A g \in Forms : g # f => form'[g] = form[g]
  BY <1>1 DEF Ends
<1> QED
  BY <1>2 DEF Busy, Alone, HalfDone

\* While a request is under way, nobody else is alone.
LEMMA NobodyElseAlone ==
  ASSUME ConfigInv, NEW f \in Forms, NEW g \in Forms, Busy(f), g # f
  PROVE  ~ Alone(g)
BY DEF ConfigInv, AloneInv

\* The row of a request is added.
LEMMA CommitKeeps ==
  ASSUME ConfigInv, NEW f \in Forms, Busy(f), form[f].pc \in {"commit", "close"},
         rows' = NewRow(f)
  PROVE  /\ rows' \in Seq(Row) /\ HasNewest(rows)'
         /\ Alone(f) => LastIs(rows', form[f].value)
<1> DEFINE r == [version |-> form[f].version, value |-> form[f].value]
<1>1. form[f] \in Request /\ form[f].value \in Values
  BY RequestRecord DEF ConfigInv, ConfigTyped
<1>2. r \in Row /\ r.version = form[f].version /\ r.value = form[f].value
  BY <1>1 DEF Row, Request
<1>3. rows \in Seq(Row) /\ HasNewest(rows) /\ rows' = Append(rows, r)
  BY DEF ConfigInv, ConfigTyped, NewRow
<1> HIDE DEF r
<1>4. /\ Append(rows, r) \in Seq(Row) /\ HasNewest(Append(rows, r))
      /\ Above(rows, r.version) => LastIs(Append(rows, r), r.value)
  BY <1>2, <1>3, RowAdded
<1>5. Alone(f) => Above(rows, form[f].version)
  BY DEF ConfigInv, AloneInv
<1>6. HasNewest(rows)' <=> HasNewest(Append(rows, r))
  BY <1>3 DEF HasNewest
<1> QED
  BY <1>2, <1>3, <1>4, <1>5, <1>6

LEMMA SaveCommitKeeps ==
  ASSUME ConfigInv, NEW f \in Forms, SaveCommit(f)
  PROVE  ConfigInv'
<1>1. /\ Busy(f) /\ form[f].pc = "commit" /\ rows' = NewRow(f) /\ Goes(f, "live")
      /\ UNCHANGED <<live, mixed>>
  BY DEF SaveCommit, At
<1>2. rows' \in Seq(Row) /\ HasNewest(rows)' /\ (Alone(f) => LastIs(rows', form[f].value))
  BY <1>1, CommitKeeps
<1>3. /\ form' \in [Forms -> Request \cup {Idle}] /\ Busy(f)' /\ (Alone(f)' <=> Alone(f))
      /\ form'[f].pc = "live" /\ form'[f].value = form[f].value
      /\ \A g \in Forms : g # f => /\ form'[g] = form[g] /\ (Busy(g)' <=> Busy(g))
                                   /\ Alone(g)' <=> Alone(g)
  BY <1>1, FormGoes
<1>4. ConfigTyped'
  BY <1>1, <1>2, <1>3 DEF ConfigInv, ConfigTyped
<1>5. HalfDone(f)'
  BY <1>3 DEF HalfDone
<1>6. Alone(f)' => AloneInv(f)'
  BY <1>1, <1>2, <1>3 DEF ConfigInv, AloneInv
<1>7. \A g \in Forms : g # f => ~ Alone(g)'
  BY <1>1, <1>3, NobodyElseAlone
<1> QED
  BY <1>4, <1>5, <1>6, <1>7 DEF ConfigInv

LEMMA SaveLiveKeeps ==
  ASSUME ConfigInv, NEW f \in Forms, SaveLive(f)
  PROVE  ConfigInv'
<1>1. /\ Busy(f) /\ form[f].pc = "live" /\ Goes(f, "tell")
      /\ live' = form[f].value /\ mixed' = ~ form[f].alone /\ UNCHANGED rows
  BY DEF SaveLive, At
<1>2. /\ form' \in [Forms -> Request \cup {Idle}] /\ Busy(f)' /\ (Alone(f)' <=> Alone(f))
      /\ form'[f].pc = "tell"
      /\ \A g \in Forms : g # f => /\ form'[g] = form[g] /\ (Busy(g)' <=> Busy(g))
                                   /\ Alone(g)' <=> Alone(g)
  BY <1>1, FormGoes
<1>3. ConfigTyped'
  <2>1. form[f].alone \in BOOLEAN
    BY <1>1, RequestRecord DEF Request
  <2>2. mixed' \in BOOLEAN
    BY <1>1, <2>1
  <2>3. rows' \in Seq(Row) /\ HasNewest(rows)'
    BY <1>1 DEF ConfigInv, ConfigTyped, HasNewest
  <2>4. \A g \in Forms : Busy(g)' /\ form'[g].pc # "tell" => form'[g].value \in Values
    BY <1>2 DEF ConfigInv, ConfigTyped
  <2> QED
    BY <1>2, <2>2, <2>3, <2>4 DEF ConfigTyped
<1>4. ~ mixed' => LastIs(rows', live')
  BY <1>1 DEF ConfigInv, AloneInv, Alone
<1>5. Alone(f)' => AloneInv(f)'
  BY <1>1, <1>2 DEF ConfigInv, AloneInv
<1>6. \A g \in Forms : g # f => ~ Alone(g)'
  BY <1>1, <1>2, NobodyElseAlone
<1> QED
  BY <1>3, <1>4, <1>5, <1>6 DEF ConfigInv

LEMMA ApplyLiveKeeps ==
  ASSUME ConfigInv, NEW f \in Forms, ApplyLive(f) \/ Announce(f)
  PROVE  ConfigInv'
<1>1. PICK pc \in {"announce", "close"} :
        /\ Busy(f) /\ form[f].pc \in {"apply", "announce"} /\ Goes(f, pc)
        /\ UNCHANGED <<rows, mixed>>
        /\ live' = form[f].value \/ (live' = live /\ form[f].pc = "announce")
  BY DEF ApplyLive, Announce, At
<1>2. /\ form' \in [Forms -> Request \cup {Idle}] /\ Busy(f)' /\ (Alone(f)' <=> Alone(f))
      /\ form'[f].pc = pc /\ form'[f].value = form[f].value
      /\ form'[f].version = form[f].version
      /\ \A g \in Forms : g # f => /\ form'[g] = form[g] /\ (Busy(g)' <=> Busy(g))
                                   /\ Alone(g)' <=> Alone(g)
  BY <1>1, FormGoes
<1>3. ConfigTyped'
  <2>1. rows' \in Seq(Row) /\ HasNewest(rows)' /\ mixed' \in BOOLEAN
    BY <1>1 DEF ConfigInv, ConfigTyped, HasNewest
  <2>2. \A g \in Forms : Busy(g)' /\ form'[g].pc # "tell" => form'[g].value \in Values
    BY <1>1, <1>2 DEF ConfigInv, ConfigTyped
  <2> QED
    BY <1>2, <2>1, <2>2 DEF ConfigTyped
<1>4. HalfDone(f)'
  BY <1>2 DEF HalfDone
<1>5. Alone(f)' => AloneInv(f)'
  <2> SUFFICES ASSUME Alone(f)' PROVE AloneInv(f)'
    OBVIOUS
  <2>1. AloneInv(f)
    BY <1>2 DEF ConfigInv
  <2>2. Above(rows, form[f].version) /\ live' = form[f].value
    BY <1>1, <2>1 DEF AloneInv
  <2>3. Above(rows, form[f].version)'
    BY <1>1, <1>2, <2>2 DEF Above, Version
  <2> QED
    BY <1>2, <2>1, <2>2, <2>3 DEF AloneInv
<1>6. \A g \in Forms : g # f => ~ Alone(g)'
  BY <1>1, <1>2, NobodyElseAlone
<1> QED
  BY <1>3, <1>4, <1>5, <1>6 DEF ConfigInv

LEMMA ApplyCommitKeeps ==
  ASSUME ConfigInv, NEW f \in Forms, ApplyCommit(f)
  PROVE  ConfigInv'
<1>1. /\ Busy(f) /\ form[f].pc = "close" /\ rows' = NewRow(f) /\ Ends(f)
      /\ UNCHANGED live /\ mixed' = ~ form[f].alone
  BY DEF ApplyCommit, At
<1>2. rows' \in Seq(Row) /\ HasNewest(rows)' /\ (Alone(f) => LastIs(rows', form[f].value))
  BY <1>1, CommitKeeps
<1>3. /\ form' \in [Forms -> Request \cup {Idle}] /\ ~ Busy(f)' /\ ~ Alone(f)'
      /\ \A g \in Forms : g # f => /\ form'[g] = form[g] /\ (Busy(g)' <=> Busy(g))
                                   /\ Alone(g)' <=> Alone(g)
  BY <1>1, FormEnds
<1>4. ConfigTyped'
  <2>1. form[f].alone \in BOOLEAN
    BY <1>1, RequestRecord DEF Request
  <2>2. \A g \in Forms : Busy(g)' /\ form'[g].pc # "tell" => form'[g].value \in Values
    BY <1>3 DEF ConfigInv, ConfigTyped
  <2> QED
    BY <1>1, <1>2, <1>3, <2>1, <2>2 DEF ConfigTyped
<1>5. ~ mixed' => LastIs(rows', live')
  BY <1>1, <1>2 DEF ConfigInv, AloneInv, Alone
<1>6. \A g \in Forms : ~ Alone(g)'
  BY <1>1, <1>3, NobodyElseAlone
<1> QED
  BY <1>4, <1>5, <1>6 DEF ConfigInv

\* The message is out, or a call failed.
LEMMA EndKeeps ==
  ASSUME ConfigInv, NEW f \in Forms, Tell(f) \/ RequestFails(f)
  PROVE  ConfigInv'
<1>1. /\ Busy(f) /\ Ends(f) /\ UNCHANGED <<rows, live>>
      /\ mixed' \in BOOLEAN /\ (~ mixed' => ~ mixed /\ ~ HalfDone(f))
  BY DEF Tell, At, RequestFails, HalfDone, ConfigInv, ConfigTyped
<1>2. /\ form' \in [Forms -> Request \cup {Idle}] /\ ~ Busy(f)' /\ ~ Alone(f)'
      /\ \A g \in Forms : g # f => /\ form'[g] = form[g] /\ (Busy(g)' <=> Busy(g))
                                   /\ (Alone(g)' <=> Alone(g)) /\ (HalfDone(g)' <=> HalfDone(g))
  BY <1>1, FormEnds
<1>3. ConfigTyped'
  <2>1. rows' \in Seq(Row) /\ HasNewest(rows)'
    BY <1>1 DEF ConfigInv, ConfigTyped, HasNewest
  <2>2. \A g \in Forms : Busy(g)' /\ form'[g].pc # "tell" => form'[g].value \in Values
    BY <1>2 DEF ConfigInv, ConfigTyped
  <2> QED
    BY <1>1, <1>2, <2>1, <2>2 DEF ConfigTyped
<1>4. \A g \in Forms : ~ Alone(g)'
  BY <1>1, <1>2, NobodyElseAlone
<1>5. ~ mixed' => LastIs(rows', live') \/ \E g \in Forms : HalfDone(g)'
  BY <1>1, <1>2 DEF ConfigInv
<1> QED
  BY <1>3, <1>4, <1>5 DEF ConfigInv

LEMMA SweepKeeps ==
  ASSUME ConfigInv, SweepVersions
  PROVE  ConfigInv'
<1> DEFINE m == Len(rows) - Keep + 1
<1>1. /\ UNCHANGED <<live, form, mixed>> /\ Len(rows) > Keep
      /\ rows' = SubSeq(rows, m, Len(rows))
  BY DEF SweepVersions
<1>2. rows \in Seq(Row) /\ HasNewest(rows) /\ Len(rows) \in Nat /\ Keep \in Nat /\ Keep # 0
  BY RowFacts, ConfigAssumption DEF ConfigInv, ConfigTyped
<1>3. m \in 1 .. Len(rows)
  BY <1>1, <1>2
<1> HIDE DEF m
<1>4. /\ SubSeq(rows, m, Len(rows)) \in Seq(Row) /\ HasNewest(SubSeq(rows, m, Len(rows)))
      /\ \A v : Above(rows, v) => Above(SubSeq(rows, m, Len(rows)), v)
      /\ \A v : LastIs(rows, v) => LastIs(SubSeq(rows, m, Len(rows)), v)
  BY <1>2, <1>3, OldestSwept
<1>5. /\ rows' \in Seq(Row) /\ HasNewest(rows')
      /\ \A v : Above(rows, v) => Above(rows', v)
      /\ \A v : LastIs(rows, v) => LastIs(rows', v)
  BY <1>1, <1>4
<1>6. ConfigTyped'
  BY <1>1, <1>5 DEF ConfigInv, ConfigTyped, Busy
<1>7. ASSUME NEW f \in Forms, Alone(f)' PROVE AloneInv(f)'
  <2>1. AloneInv(f)
    BY <1>1, <1>7 DEF ConfigInv, Alone, Busy
  <2> QED
    BY <1>1, <1>5, <2>1 DEF AloneInv, Busy
<1>8. ~ mixed' => LastIs(rows', live') \/ \E f \in Forms : HalfDone(f)'
  BY <1>1, <1>5 DEF ConfigInv, HalfDone, Busy
<1> QED
  BY <1>6, <1>7, <1>8 DEF ConfigInv

LEMMA ElsewhereKeeps ==
  ASSUME ConfigInv, UNCHANGED <<rows, live, form, mixed>>
  PROVE  ConfigInv'
BY DEF ConfigInv, ConfigTyped, HasNewest, Above, LastIs, LastOnTop, Version, Alone, AloneInv,
       HalfDone, Busy

LEMMA ConfigStep == ConfigInv /\ [ConfigNext]_vars => ConfigInv'
<1> SUFFICES ASSUME ConfigInv, [ConfigNext]_vars PROVE ConfigInv'
  OBVIOUS
<1>1. CASE \E f \in Forms, v \in Values : SaveBegin(f, v)
  BY <1>1, BeginKeeps DEF SaveBegin
<1>2. CASE \E f \in Forms : ApplyBegin(f)
  BY <1>2, BeginKeeps, ConfigAssumption DEF ApplyBegin
<1>3. CASE \E f \in Forms, v \in Values \cup {None} : Overwrite(f, v)
  BY <1>3, SpoiltKeeps DEF Overwrite
<1>4. CASE \E f \in Forms : RequestStep(f) \/ RequestFails(f)
  BY <1>4, SaveCommitKeeps, SaveLiveKeeps, ApplyLiveKeeps, ApplyCommitKeeps, EndKeeps
  DEF RequestStep
<1>5. CASE (\E v \in Values : ResetEquity(v)) \/ Backfill
  BY <1>5, SpoiltKeeps DEF ResetEquity, Backfill
<1>6. CASE \/ RejectTweak \/ CountClosure \/ AskForTweak \/ ProposeTweak \/ NoTweak
           \/ Disconnect \/ WatcherDies \/ Restart \/ UNCHANGED vars
  BY <1>6, ElsewhereKeeps
  DEF RejectTweak, CountClosure, AskForTweak, ProposeTweak, NoTweak, Disconnect, WatcherDies,
      Restart, vars
<1>7. CASE Load \/ Subscribe \/ Receive \/ Reconnect
  BY <1>7, ElsewhereKeeps DEF Load, Subscribe, Receive, Reconnect
<1>8. CASE SweepVersions
  BY <1>8, SweepKeeps
<1> QED
  BY <1>1, <1>2, <1>3, <1>4, <1>5, <1>6, <1>7, <1>8 DEF ConfigNext, RiskManagerStep

\* The newest version the configuration page shows is live, when no two writes met and
\* none had no row or broke off half-way (dashboard/routes/risk_config.py:58).
THEOREM LatestIsLive == ConfigInit /\ [][ConfigNext]_vars => []LiveIsLatest
<1>1. ConfigInv => LiveIsLatest
  <2> SUFFICES ASSUME ConfigInv, Quiet, ~ mixed, NEW i \in DOMAIN rows, rows[i].version = Newest
               PROVE  rows[i].value = live
    BY DEF LiveIsLatest
  <2>1. LastIs(rows, live) /\ rows \in Seq(Row)
    BY DEF ConfigInv, ConfigTyped, Quiet, HalfDone
  <2> QED
    BY <2>1, NewestIsLast
<1> QED
  BY ConfigBegins, ConfigStep, <1>1, PTL

\* What the newest row does not rest on: the hash, the risk manager and its copy, the
\* reviewer, and the bounds.
ConfigRest ==
  /\ live \in Values \cup {None} /\ copy \in Values \cup {None}
  /\ rm \in {"setup", "seed", "gap", "wait", "read", "fill", "deaf"}
  /\ closures \in 0 .. TuneEvery - 1 /\ tuner \in {"rest", "asking"}
  /\ tweak \in {"none", "pending", "applied", "rejected"}
  /\ inbox \in Nat /\ nwrites \in 0 .. MaxWrites /\ nfaults \in 0 .. MaxFaults

LEMMA ConfigRestStep == ConfigInv /\ ConfigRest /\ [ConfigNext]_vars => ConfigRest'
<1> SUFFICES ASSUME ConfigInv, ConfigRest, [ConfigNext]_vars PROVE ConfigRest'
  OBVIOUS
<1>1. /\ Default \in Values /\ TuneEvery \in Nat \ {0}
      /\ MaxWrites \in Nat /\ MaxFaults \in Nat
  BY ConfigAssumption
<1>2. Fault => nfaults' \in 0 .. MaxFaults
  BY <1>1 DEF Fault, ConfigRest
<1>3. nwrites < MaxWrites /\ nwrites' = nwrites + 1 => nwrites' \in 0 .. MaxWrites
  BY <1>1 DEF ConfigRest
<1>4. Told => inbox' \in Nat
  BY DEF Told, ConfigRest
<1>5. ASSUME NEW f \in Forms,
             \/ \E v \in Values : SaveBegin(f, v)
             \/ \E v \in Values \cup {None} : Overwrite(f, v)
             \/ ApplyBegin(f)
      PROVE  ConfigRest'
  BY <1>3, <1>5 DEF SaveBegin, Overwrite, ApplyBegin, Begin, tuning, manager, ConfigRest
<1>6. ASSUME NEW f \in Forms, SaveLive(f) \/ ApplyLive(f)
      PROVE  ConfigRest'
  <2>1. form[f].value \in Values \cup {None}
    BY <1>6, RequestRecord DEF SaveLive, ApplyLive, At, Request
  <2> QED
    BY <1>6, <2>1 DEF SaveLive, ApplyLive, tuning, manager, ConfigRest
<1>7. ASSUME NEW f \in Forms, SaveCommit(f) \/ Tell(f) \/ Announce(f) \/ ApplyCommit(f)
      PROVE  ConfigRest'
  BY <1>4, <1>7 DEF SaveCommit, Tell, Announce, ApplyCommit, tuning, manager, ConfigRest
<1>8. ASSUME NEW f \in Forms, RequestFails(f)
      PROVE  ConfigRest'
  BY <1>2, <1>8 DEF RequestFails, tuning, manager, ConfigRest
<1>9. CASE \E v \in Values : ResetEquity(v)
  BY <1>1, <1>3, <1>9 DEF ResetEquity, manager, ConfigRest
<1>10. CASE RejectTweak \/ CountClosure \/ AskForTweak \/ ProposeTweak \/ NoTweak
  BY <1>1, <1>10
  DEF RejectTweak, CountClosure, AskForTweak, ProposeTweak, NoTweak, manager, ConfigRest
<1>11. CASE RiskManagerStep
  BY <1>1, <1>11
  DEF RiskManagerStep, Load, Loaded, Backfill, Subscribe, Receive, Reconnect, tuning, manager,
      ConfigRest
<1>12. CASE Disconnect \/ WatcherDies \/ Restart \/ SweepVersions \/ UNCHANGED vars
  BY <1>2, <1>12 DEF Disconnect, WatcherDies, Restart, SweepVersions, vars, tuning, manager, ConfigRest
<1> QED
  BY <1>5, <1>6, <1>7, <1>8, <1>9, <1>10, <1>11, <1>12 DEF ConfigNext, RequestStep

LinkedTyped == linked \in BOOLEAN

LEMMA LinkedStep == LinkedTyped /\ [ConfigNext]_vars => LinkedTyped'
<1> SUFFICES ASSUME LinkedTyped, [ConfigNext]_vars PROVE LinkedTyped'
  OBVIOUS
<1>1. CASE \/ UNCHANGED linked
           \/ linked' = TRUE
           \/ linked' = FALSE
  BY <1>1, Zenon DEF LinkedTyped
<1>2. UNCHANGED linked \/ linked' = TRUE \/ linked' = FALSE
  BY DEF ConfigNext, SaveBegin, Begin, Overwrite, ApplyBegin, RequestStep, SaveCommit, SaveLive,
         Tell, ApplyLive, Announce, ApplyCommit, RequestFails, ResetEquity, RejectTweak,
         CountClosure, AskForTweak, ProposeTweak, NoTweak, RiskManagerStep, Load, Backfill,
         Subscribe, Receive, Reconnect, Disconnect, WatcherDies, Restart, SweepVersions,
         manager, vars
<1> QED
  BY <1>1, <1>2

\* The hash and the risk manager's copy hold values of the key, rows have versions, and
\* the reviewer's counter stays below the number of closures it waits for
\* (agents/reviewer.py, tuning_every_n_closures).
THEOREM ConfigTypeCorrect == ConfigInit /\ [][ConfigNext]_vars => []ConfigTypeOK
<1>1. ConfigInit => ConfigRest
  BY ConfigAssumption DEF ConfigInit, ConfigRest
<1>2. ConfigInit => LinkedTyped
  BY Zenon DEF ConfigInit, LinkedTyped
<1>3. ConfigInv /\ ConfigRest /\ LinkedTyped => ConfigTypeOK
  <2> SUFFICES ASSUME ConfigInv, ConfigRest, LinkedTyped PROVE ConfigTypeOK
    OBVIOUS
  <2>1. \A f \in Forms :
          Busy(f) => /\ form[f].value \in Values \cup {None} /\ form[f].version \in Nat
                     /\ form[f].alone \in BOOLEAN
                     /\ form[f].pc \in {"commit", "live", "tell", "apply", "announce", "close"}
    BY RequestRecord DEF Request
  <2> QED
    BY <2>1 DEF ConfigInv, ConfigTyped, Row, ConfigRest, LinkedTyped, ConfigTypeOK
<1> QED
  BY ConfigBegins, ConfigStep, ConfigRestStep, LinkedStep, <1>1, <1>2, <1>3, PTL

-----------------------------------------------------------------------------
(***************************************************************************)
(* The sysop's fixes.  A fix the loop ran, or is about to run, keeps its   *)
(* fingerprint among those of the hour.                                    *)
(***************************************************************************)
Fixer == [pc : {"begin", "run", "close"}, print : Prints, fix : Fixes]

SysopTyped ==
  /\ fixer \in [Fixers -> Fixer \cup {Resting}]
  /\ autos \in [Prints -> Nat]
  /\ row \in [Prints -> FindingRow]
  /\ sweep \in [at : 1 .. 9, todo : SUBSET Finding]

\* The loop's fix has not run yet.
Pending == Fixing(Loop) /\ fixer[Loop].pc \in {"begin", "run"}

\* A fix the loop ran keeps its fingerprint among those of the hour, and one it is about
\* to run is there as well, and the first.
OneEach ==
  /\ \A p \in Prints : autos[p] <= 1 /\ (p \notin lately => autos[p] = 0)
  /\ Pending => fixer[Loop].print \in lately /\ autos[fixer[Loop].print] = 0

SysopInv == SysopTyped /\ OneEach

LEMMA SysopBegins == SysopInit => SysopInv
<1> SUFFICES ASSUME SysopInit PROVE SysopInv
  OBVIOUS
<1>1. SysopTyped
  BY DEF SysopInit, SysopTyped, FindingRow
<1>2. ~ Pending
  BY DEF SysopInit, Pending, Fixing, Fixers
<1> QED
  BY <1>1, <1>2 DEF SysopInv, OneEach, SysopInit

\* Resting is no record of a fix.
LEMMA FixerRecord ==
  ASSUME SysopTyped, NEW w \in Fixers
  PROVE  Fixing(w) <=> fixer[w] \in Fixer
<1>1. Resting \notin Fixer
  <2>1. Resting.pc = "rest"
    BY DEF Resting
  <2>2. \A r \in Fixer : r.pc # "rest"
    BY DEF Fixer
  <2> QED
    BY <2>1, <2>2
<1> HIDE DEF Resting
<1> QED
  BY <1>1 DEF SysopTyped, Fixing

LEMMA Reports ==
  ASSUME NEW n \in 1 .. 9
  PROVE  Detectors[n] \subseteq Finding
<1> DEFINE F == Finding
<1>1. /\ StaleAgents \subseteq F /\ NewsSilent \subseteq F /\ VenueBlock \subseteq F
      /\ OpenRouter402 \subseteq F /\ NoProposals \subseteq F /\ RepeatedErrors \subseteq F
      /\ SupervisorCrashloop \subseteq F /\ SignalToProposalGap \subseteq F
      /\ AllFreeExhausted \subseteq F
  BY DEF StaleAgents, NewsSilent, VenueBlock, OpenRouter402, NoProposals, RepeatedErrors,
         SupervisorCrashloop, SignalToProposalGap, AllFreeExhausted, Report, Finding, Prints,
         Fixes
<1>2. /\ Detectors[1] = StaleAgents /\ Detectors[2] = NewsSilent /\ Detectors[3] = VenueBlock
      /\ Detectors[4] = OpenRouter402 /\ Detectors[5] = NoProposals
      /\ Detectors[6] = RepeatedErrors /\ Detectors[7] = SupervisorCrashloop
      /\ Detectors[8] = SignalToProposalGap /\ Detectors[9] = AllFreeExhausted
  BY DEF Detectors
<1>3. n = 1 \/ n = 2 \/ n = 3 \/ n = 4 \/ n = 5 \/ n = 6 \/ n = 7 \/ n = 8 \/ n = 9
  OBVIOUS
<1> HIDE DEF F
<1>4. Detectors[n] \subseteq F
  BY <1>1, <1>2, <1>3
<1> QED
  BY <1>4 DEF F

\* The loop looks, people and troubles come and go: nothing that counts changes.
Around ==
  \/ \E x \in Troubles : GoesWrong(x) \/ GoesRight(x)
  \/ \E m \in {"free", "auto", "paid"} : ChooseMode(m)
  \/ \E flag \in {"on", "halted"} : FlagSource(flag)
  \/ Detect \/ DetectorFails
  \/ \E f \in sweep.todo : Ignore(f) \/ UpsertFails(f)

LEMMA AroundKeeps ==
  ASSUME SysopInv, Around \/ UNCHANGED sysopVars
  PROVE  SysopInv'
<1>1. UNCHANGED <<fixer, autos, row, lately>>
  BY DEF Around, GoesWrong, GoesRight, ChooseMode, FlagSource, Detect, DetectorFails, Ignore,
         UpsertFails, sysopVars, SysopFault
<1>2. sweep \in [at : 1 .. 9, todo : SUBSET Finding]
  BY DEF SysopInv, SysopTyped
<1>3. sweep' \in [at : 1 .. 9, todo : SUBSET Finding]
  <2>1. Len(Detectors) = 9
    BY DEF Detectors
  <2>2. Following \in 1 .. 9
    BY <1>2, <2>1 DEF Following
  <2>3. CASE Detect
    BY <1>2, <2>2, <2>3, Reports DEF Detect
  <2>4. CASE DetectorFails
    <3>1. sweep' = [sweep EXCEPT !.at = Following]
      BY <2>4 DEF DetectorFails
    <3> QED
      BY <1>2, <2>2, <3>1
  <2>5. CASE \E f \in sweep.todo : Ignore(f) \/ UpsertFails(f)
    <3>1. PICK f \in sweep.todo : sweep' = [sweep EXCEPT !.todo = @ \ {f}]
      BY <2>5 DEF Ignore, UpsertFails, Filed
    <3> QED
      BY <1>2, <3>1
  <2>6. CASE UNCHANGED sweep
    BY <1>2, <2>6
  <2> QED
    BY <2>3, <2>4, <2>5, <2>6
       DEF Around, GoesWrong, GoesRight, ChooseMode, FlagSource, sysopVars
<1>4. Pending' <=> Pending
  BY <1>1 DEF Pending, Fixing
<1> QED
  BY <1>1, <1>3, <1>4 DEF SysopInv, SysopTyped, OneEach

LEMMA FiledKeeps ==
  ASSUME SysopInv, NEW f \in sweep.todo, Filed(f)
  PROVE  /\ sweep' \in [at : 1 .. 9, todo : SUBSET Finding]
         /\ f.print \in Prints /\ f.fix \in Fixes \cup {NoFix}
<1>1. sweep \in [at : 1 .. 9, todo : SUBSET Finding]
  BY DEF SysopInv, SysopTyped
<1>2. sweep' = [sweep EXCEPT !.todo = @ \ {f}]
  BY DEF Filed
<1>3. f \in Finding
  BY <1>1
<1> QED
  BY <1>1, <1>2, <1>3 DEF Finding

LEMMA RefreshKeeps ==
  ASSUME SysopInv, NEW f \in sweep.todo, Refresh(f)
  PROVE  SysopInv'
<1>1. UNCHANGED <<fixer, autos>> /\ lately \subseteq lately'
  BY DEF Refresh
<1>2. Filed(f)
  BY DEF Refresh
<1>3. row' \in [Prints -> FindingRow]
  <2>1. row' = [row EXCEPT ![f.print].fix = f.fix]
    BY DEF Refresh
  <2>2. row \in [Prints -> FindingRow] /\ f.print \in Prints /\ f.fix \in Fixes \cup {NoFix}
    BY <1>2, FiledKeeps DEF SysopInv, SysopTyped
  <2> QED
    BY <2>1, <2>2 DEF FindingRow
<1>4. Pending' <=> Pending
  BY <1>1 DEF Pending, Fixing
<1> QED
  BY <1>1, <1>2, <1>3, <1>4, FiledKeeps DEF SysopInv, SysopTyped, OneEach

LEMMA AddRowKeeps ==
  ASSUME SysopInv, NEW f \in sweep.todo, AddRow(f)
  PROVE  SysopInv'
<1>1. Filed(f) /\ autos' = autos /\ lately' = lately \cup {f.print} /\ f.print \notin lately
  BY DEF AddRow, HandledLately
<1>2. f.print \in Prints /\ f.fix \in Fixes \cup {NoFix}
      /\ sweep' \in [at : 1 .. 9, todo : SUBSET Finding]
  BY <1>1, FiledKeeps
<1>3. row' \in [Prints -> FindingRow]
  <2>1. row' = [row EXCEPT ![f.print] = [state |-> "new", fix |-> f.fix]]
    BY DEF AddRow
  <2>2. [state |-> "new", fix |-> f.fix] \in FindingRow
    BY <1>2 DEF FindingRow
  <2> QED
    BY <2>1, <2>2 DEF SysopInv, SysopTyped
<1>4. autos[f.print] = 0
  BY <1>1, <1>2 DEF SysopInv, OneEach
<1>5. ~ Fixing(Loop)
  BY DEF AddRow
<1>6. CASE f.fix \in AutoApplySafe
  <2> DEFINE r == [pc |-> "begin", print |-> f.print, fix |-> f.fix]
  <2>1. fixer' = [fixer EXCEPT ![Loop] = r]
    BY <1>6 DEF AddRow
  <2>2. r \in Fixer /\ r.print = f.print
    BY <1>2, <1>6 DEF Fixer, AutoApplySafe, Fixes
  <2> HIDE DEF r
  <2>3. fixer' \in [Fixers -> Fixer \cup {Resting}] /\ fixer'[Loop].print = f.print
    BY <2>1, <2>2 DEF SysopInv, SysopTyped, Fixers
  <2> QED
    BY <1>1, <1>2, <1>3, <1>4, <2>3 DEF SysopInv, SysopTyped, OneEach
<1>7. CASE f.fix \notin AutoApplySafe
  <2>1. fixer' = fixer
    BY <1>7 DEF AddRow
  <2>2. ~ Pending'
    BY <1>5, <2>1 DEF Pending, Fixing
  <2> QED
    BY <1>1, <1>2, <1>3, <2>1, <2>2 DEF SysopInv, SysopTyped, OneEach
<1> QED
  BY <1>6, <1>7

\* The step of a request leaves the loop's fix alone.
LEMMA LoopsOwn ==
  ASSUME NEW w \in Fixers, w # Loop, SysopTyped, NEW r, fixer' = [fixer EXCEPT ![w] = r]
  PROVE  Pending' = Pending /\ fixer'[Loop] = fixer[Loop]
BY DEF Pending, Fixing, SysopTyped, Fixers

LEMMA ClickedKeeps ==
  ASSUME SysopInv, NEW c \in Clicks, NEW p \in Prints, Clicked(c, p)
  PROVE  SysopInv'
<1> DEFINE r == [pc |-> "run", print |-> p, fix |-> row[p].fix]
<1>1. UNCHANGED <<row, lately, sweep, autos>> /\ fixer' = [fixer EXCEPT ![c] = r]
  BY DEF Clicked
<1>2. c \in Fixers /\ c # Loop
  BY SysopAssumption DEF Fixers
<1>3. r \in Fixer
  <2>1. row[p].fix \in Fixes
    BY DEF Clicked, SysopInv, SysopTyped, FindingRow
  <2> QED
    BY <2>1 DEF Fixer
<1> HIDE DEF r
<1>4. fixer' \in [Fixers -> Fixer \cup {Resting}]
  BY <1>1, <1>2, <1>3 DEF SysopInv, SysopTyped
<1>5. Pending' = Pending /\ fixer'[Loop] = fixer[Loop]
  BY <1>1, <1>2, LoopsOwn DEF SysopInv
<1> QED
  BY <1>1, <1>4, <1>5 DEF SysopInv, SysopTyped, OneEach

LEMMA FixBeginKeeps ==
  ASSUME SysopInv, NEW w \in Fixers, FixBegin(w)
  PROVE  SysopInv'
<1>1. UNCHANGED <<row, lately, sweep, autos>>
  BY DEF FixBegin
<1>2. fixer[w] \in Fixer /\ fixer[w].pc = "begin"
  BY FixerRecord DEF FixBegin, FixAt, SysopInv
<1> DEFINE r == IF Open(fixer[w].print) THEN [fixer[w] EXCEPT !.pc = "run"] ELSE Resting
<1>3. fixer' = [fixer EXCEPT ![w] = r]
  BY DEF FixBegin
<1>4. r \in Fixer \cup {Resting} /\ (r # Resting => r.print = fixer[w].print)
  BY <1>2 DEF Fixer
<1> HIDE DEF r
<1>5. fixer' \in [Fixers -> Fixer \cup {Resting}] /\ fixer'[w] = r
  BY <1>3, <1>4 DEF SysopInv, SysopTyped
<1>6. CASE w = Loop
  <2>1. Pending
    BY <1>2, <1>6 DEF Pending, FixBegin, FixAt
  <2>2. Pending' => fixer'[Loop].print = fixer[Loop].print
    BY <1>4, <1>5, <1>6 DEF Pending, Fixing
  <2> QED
    BY <1>1, <1>5, <2>1, <2>2 DEF SysopInv, SysopTyped, OneEach
<1>7. CASE w # Loop
  <2>1. Pending' = Pending /\ fixer'[Loop] = fixer[Loop]
    BY <1>3, <1>7, LoopsOwn DEF SysopInv
  <2> QED
    BY <1>1, <1>5, <2>1 DEF SysopInv, SysopTyped, OneEach
<1> QED
  BY <1>6, <1>7

LEMMA FixRunKeeps ==
  ASSUME SysopInv, NEW w \in Fixers, FixRun(w)
  PROVE  SysopInv'
<1>1. UNCHANGED <<row, lately, sweep>>
  BY DEF FixRun
<1>2. fixer[w] \in Fixer /\ fixer[w].pc = "run"
  BY FixerRecord DEF FixRun, FixAt, SysopInv
<1> DEFINE r == [fixer[w] EXCEPT !.pc = "close"]
<1>3. fixer' = [fixer EXCEPT ![w] = r]
  BY DEF FixRun
<1>4. r \in Fixer /\ r.pc = "close"
  BY <1>2 DEF Fixer
<1> HIDE DEF r
<1>5. fixer' \in [Fixers -> Fixer \cup {Resting}] /\ fixer'[w] = r
  BY <1>3, <1>4 DEF SysopInv, SysopTyped
<1>6. CASE w = Loop
  <2>1. Pending
    BY <1>2, <1>6 DEF Pending, FixRun, FixAt
  <2>2. ~ Pending'
    BY <1>4, <1>5, <1>6 DEF Pending
  <2>3. autos' = [autos EXCEPT ![fixer[w].print] = @ + 1]
    BY <1>6 DEF FixRun
  <2>4. fixer[w].print \in Prints /\ fixer[w].print \in lately /\ autos[fixer[w].print] = 0
    BY <1>2, <1>6, <2>1 DEF SysopInv, OneEach, Fixer
  <2>5. autos' \in [Prints -> Nat]
        /\ \A p \in Prints : autos'[p] = IF p = fixer[w].print THEN 1 ELSE autos[p]
    BY <2>3, <2>4 DEF SysopInv, SysopTyped
  <2> QED
    BY <1>1, <1>5, <2>2, <2>4, <2>5 DEF SysopInv, SysopTyped, OneEach
<1>7. CASE w # Loop
  <2>1. autos' = autos
    BY <1>7 DEF FixRun
  <2>2. Pending' = Pending /\ fixer'[Loop] = fixer[Loop]
    BY <1>3, <1>7, LoopsOwn DEF SysopInv
  <2> QED
    BY <1>1, <1>5, <2>1, <2>2 DEF SysopInv, SysopTyped, OneEach
<1> QED
  BY <1>6, <1>7

\* A fix that ends, well or not.
LEMMA FixEndKeeps ==
  ASSUME SysopInv, NEW w \in Fixers, FixClose(w) \/ FixFails(w)
  PROVE  SysopInv'
<1>1. UNCHANGED <<sweep, autos>> /\ lately \subseteq lately'
  BY DEF FixClose, FixFails, Settle
<1>2. fixer[w] \in Fixer
  BY FixerRecord DEF FixClose, FixAt, FixFails, SysopInv
<1>3. fixer' = [fixer EXCEPT ![w] = Resting]
  BY DEF FixClose, FixFails
<1>4. fixer' \in [Fixers -> Fixer \cup {Resting}] /\ fixer'[w] = Resting
  BY <1>3 DEF SysopInv, SysopTyped
<1>5. row' \in [Prints -> FindingRow]
  BY <1>2 DEF FixClose, FixFails, Settle, SysopInv, SysopTyped, FindingRow, Fixer
<1>6. CASE w = Loop
  <2>1. ~ Pending'
    BY <1>4, <1>6 DEF Pending, Fixing
  <2> QED
    BY <1>1, <1>4, <1>5, <2>1 DEF SysopInv, SysopTyped, OneEach
<1>7. CASE w # Loop
  <2>1. Pending' = Pending /\ fixer'[Loop] = fixer[Loop]
    BY <1>3, <1>7, LoopsOwn DEF SysopInv
  <2> QED
    BY <1>1, <1>4, <1>5, <2>1 DEF SysopInv, SysopTyped, OneEach
<1> QED
  BY <1>6, <1>7

LEMMA PeopleKeep ==
  ASSUME SysopInv, NEW p \in Prints, MarkState(p) \/ HourPasses(p)
  PROVE  SysopInv'
<1>1. UNCHANGED <<sweep, fixer>>
  BY DEF MarkState, HourPasses
<1>2. Pending' = Pending
  BY <1>1 DEF Pending, Fixing
<1>3. CASE MarkState(p)
  <2>1. row' \in [Prints -> FindingRow]
    BY <1>3 DEF MarkState, Settle, SysopInv, SysopTyped, FindingRow
  <2>2. autos' = autos /\ lately \subseteq lately'
    BY <1>3 DEF MarkState, Settle
  <2> QED
    BY <1>1, <1>2, <2>1, <2>2 DEF SysopInv, SysopTyped, OneEach
<1>4. CASE HourPasses(p)
  <2>1. row' = row /\ lately' = lately \ {p} /\ autos' = [autos EXCEPT ![p] = 0]
    BY <1>4 DEF HourPasses
  <2>2. autos' \in [Prints -> Nat] /\ \A q \in Prints : autos'[q] = IF q = p THEN 0 ELSE autos[q]
    BY <2>1 DEF SysopInv, SysopTyped
  <2>3. Pending => fixer[Loop].print # p
    BY <1>4 DEF HourPasses, Pending, Fixers
  <2>4. Pending => fixer[Loop].print \in Prints
    BY FixerRecord DEF Pending, SysopInv, Fixer, Fixers
  <2> QED
    BY <1>1, <1>2, <2>1, <2>2, <2>3, <2>4 DEF SysopInv, SysopTyped, OneEach
<1> QED
  BY <1>3, <1>4

LEMMA SysopStep == SysopInv /\ [SysopNext]_sysopVars => SysopInv'
<1> SUFFICES ASSUME SysopInv, [SysopNext]_sysopVars PROVE SysopInv'
  OBVIOUS
<1>1. CASE Around \/ UNCHANGED sysopVars
  BY <1>1, AroundKeeps
<1>2. CASE \E f \in sweep.todo : Refresh(f) \/ AddRow(f)
  BY <1>2, RefreshKeeps, AddRowKeeps
<1>3. CASE \E w \in Fixers : FixStep(w) \/ FixFails(w)
  BY <1>3, FixBeginKeeps, FixRunKeeps, FixEndKeeps DEF FixStep
<1>4. CASE \E p \in Prints : MarkState(p) \/ HourPasses(p) \/ \E c \in Clicks : Clicked(c, p)
  BY <1>4, PeopleKeep, ClickedKeeps
<1> QED
  BY <1>1, <1>2, <1>3, <1>4 DEF SysopNext, LoopStep, Around, Fixers

\* The loop runs the fix of a finding once within the hour at most, whatever fails, is
\* dismissed or is applied beside it, for any number of requests and failures.
THEOREM OncePerHour == SysopSpec => []AutoOncePerHour
<1>1. SysopInv => AutoOncePerHour
  BY DEF SysopInv, OneEach, AutoOncePerHour
<1> QED
  BY SysopBegins, SysopStep, <1>1, PTL DEF SysopSpec

\* What the loop's fixes do not rest on: the troubles, the settings and the bounds.
SysopRest ==
  /\ trouble \subseteq Troubles
  /\ mode \in {"free", "auto", "paid"} /\ source \in {"on", "halted"}
  /\ lately \subseteq Prints
  /\ nsysop \in 0 .. MaxSysopFaults

LEMMA RestStep == SysopInv /\ SysopRest /\ [SysopNext]_sysopVars => SysopRest'
<1> SUFFICES ASSUME SysopInv, SysopRest, [SysopNext]_sysopVars PROVE SysopRest'
  OBVIOUS
<1>1. SysopFault => nsysop' \in 0 .. MaxSysopFaults
  BY SysopAssumption DEF SysopFault, SysopRest
<1>2. CASE Around \/ UNCHANGED sysopVars
  BY <1>1, <1>2 DEF Around, GoesWrong, GoesRight, ChooseMode, FlagSource, Detect,
                    DetectorFails, Ignore, UpsertFails, sysopVars, SysopRest
<1>3. ASSUME NEW f \in sweep.todo, Refresh(f) \/ AddRow(f)
      PROVE  SysopRest'
  <2>1. f.print \in Prints
    BY DEF SysopInv, SysopTyped, Finding
  <2>2. /\ UNCHANGED <<trouble, mode, source, nsysop>>
        /\ lately' = lately \cup {f.print}
    BY <1>3 DEF Refresh, AddRow
  <2> QED
    BY <2>1, <2>2 DEF SysopRest
<1>4. ASSUME NEW w \in Fixers, FixBegin(w) \/ FixRun(w)
      PROVE  SysopRest'
  BY <1>4 DEF FixBegin, FixRun, ResumeSource, ClearVenueBlock, SetLlmModeAuto, SysopRest
<1>5. ASSUME NEW w \in Fixers, FixClose(w) \/ FixFails(w)
      PROVE  SysopRest'
  <2>1. fixer[w] \in Fixer
    BY <1>5, FixerRecord DEF FixClose, FixAt, FixFails, SysopInv
  <2>2. fixer[w].print \in Prints
    BY <2>1 DEF Fixer
  <2> QED
    BY <1>1, <1>5, <2>2 DEF FixClose, FixFails, Settle, SysopRest
<1>6. ASSUME NEW p \in Prints, MarkState(p) \/ HourPasses(p) \/ \E c \in Clicks : Clicked(c, p)
      PROVE  SysopRest'
  BY <1>6 DEF MarkState, HourPasses, Clicked, Settle, SysopRest
<1> QED
  BY <1>2, <1>3, <1>4, <1>5, <1>6 DEF SysopNext, LoopStep, FixStep, Around, Fixers

\* Findings keep the fingerprints and fixes the detectors know, and a fix under way is
\* a registered one, never none (agents/sysop.py:694, FIX_REGISTRY).
THEOREM SysopTypeCorrect == SysopSpec => []SysopTypeOK
<1>1. SysopInit => SysopRest
  BY SysopAssumption DEF SysopInit, SysopRest
<1>2. SysopInv /\ SysopRest => SysopTypeOK
  <2> SUFFICES ASSUME SysopInv, SysopRest PROVE SysopTypeOK
    OBVIOUS
  <2>1. \A w \in Fixers : Fixing(w) => fixer[w].print \in Prints /\ fixer[w].fix \in Fixes
    BY FixerRecord DEF SysopInv, Fixer
  <2> QED
    BY <2>1 DEF SysopInv, SysopTyped, SysopRest, SysopTypeOK
<1> QED
  BY SysopBegins, SysopStep, RestStep, <1>1, <1>2, PTL DEF SysopSpec

-----------------------------------------------------------------------------
(***************************************************************************)
(* The graph: what the janitor, the ingestion and the dedup pass keep to.  *)
(***************************************************************************)
Sweeping == {"impact", "members", "edges", "node"}

\* What each place of the janitor keeps.
JanitorOK ==
  \/ janitor = Rest
  \/ janitor \in [pc : {"events"}, kept : SUBSET Events, deleted : Nat]
  \/ janitor \in [pc : Sweeping, kept : SUBSET Events, deleted : Nat, event : Events,
                  had : SUBSET Edges]
  \/ janitor \in [pc : {"pass"}, keys : SUBSET Edges, complete : BOOLEAN]
  \/ janitor \in [pc : {"write"}, edge : Edges, orphan : BOOLEAN, keys : SUBSET Edges,
                  complete : BOOLEAN]

\* An ingestion is at one edge at a time, and its event is a recent one; the janitor's
\* is not.
OneAtATime == \A j, k \in adding : j = k
FreshIngest == \A k \in todo \cup adding : dated[Src[k]] = "recent"
AgedSweep == janitor.pc \in Sweeping => dated[janitor.event] \in {"aged", "ancient"}
Apart == OneAtATime /\ FreshIngest /\ AgedSweep

\* What the sets have, or would have but for the next step or an error.
Covered == index \cup adding \cup skipped

ReadyCovers == ready => edges \subseteq Covered

\* A pass that is still complete has seen, or has before it, what the sets do not cover.
PassCovers ==
  (janitor.pc \in {"pass", "write"} /\ janitor.complete) => edges \subseteq Covered \cup janitor.keys

\* Once the janitor has read the set of an event, it deletes what the set had before the
\* set itself goes.
SweepCovers ==
  ready => /\ janitor.pc = "edges"
                => edges \cap EdgesOf(janitor.event) \subseteq janitor.had \cup skipped
           /\ janitor.pc = "node" => edges \cap EdgesOf(janitor.event) \subseteq skipped

SetsCover == ReadyCovers /\ PassCovers /\ SweepCovers

\* The steps by whom they are of.
Writers ==
  \/ \E e \in Events : Ingest(e) \/ Measure(e) \/ GrowOlder(e) \/ \E d \in Dates : Seed(e, d)
  \/ \E k \in Edges : SetEdge(k) \/ AddToIndex(k)
  \/ IngestFails
Deduper ==
  \/ \E k \in Edges : RewriteRead(k)
  \/ StartDedup \/ RewriteSet \/ RewriteDelete \/ RewriteFails \/ EndDedup \/ DedupStops
  \/ ResetDedup
SweepStep ==
  \/ StartSweep \/ ReadImpact \/ ReadMembers \/ DeleteEdges \/ DeleteNode \/ SweepFails
  \/ \E e \in Events : SweepEvent(e)
PassStep ==
  \/ StartPass \/ WriteBatch \/ EndPass \/ BatchFails \/ CommandFails \/ JanitorStops
  \/ \E k \in Edges : CheckOrphan(k)

LEMMA GraphSteps ==
  ASSUME [GraphNext]_graphVars
  PROVE  Writers \/ Deduper \/ SweepStep \/ PassStep \/ UNCHANGED graphVars
BY DEF GraphNext, JanitorStep, Writers, Deduper, SweepStep, PassStep

LEMMA GraphFaultCounts ==
  ASSUME GraphFault, graphFaults \in 0 .. MaxGraphFaults
  PROVE  graphFaults' \in 0 .. MaxGraphFaults
BY GraphAssumption DEF GraphFault

LEMMA JanitorFields ==
  ASSUME JanitorOK
  PROVE  /\ janitor.pc = "rest" => janitor = Rest
         /\ janitor.pc = "events" => janitor \in [pc : {"events"}, kept : SUBSET Events, deleted : Nat]
         /\ janitor.pc \in Sweeping
              => janitor \in [pc : Sweeping, kept : SUBSET Events, deleted : Nat, event : Events,
                              had : SUBSET Edges]
         /\ janitor.pc = "pass" => janitor \in [pc : {"pass"}, keys : SUBSET Edges, complete : BOOLEAN]
         /\ janitor.pc = "write"
              => janitor \in [pc : {"write"}, edge : Edges, orphan : BOOLEAN, keys : SUBSET Edges,
                              complete : BOOLEAN]
BY DEF JanitorOK, Rest, Sweeping

\* The tables, and the janitor by its record.
Tables ==
  /\ nodes \subseteq Events /\ impact \subseteq nodes
  /\ dated \in [Events -> Dates \cup {"unseen"}]
  /\ edges \subseteq Edges /\ index \subseteq Edges /\ todo \subseteq Edges
  /\ adding \subseteq Edges /\ skipped \subseteq Edges
  /\ ready \in BOOLEAN /\ graphFaults \in 0 .. MaxGraphFaults
  /\ dedup \in [says : BOOLEAN, pc : {"none", "scan", "set", "delete"}, edges : SUBSET Edges]
GraphTyped == Tables /\ JanitorOK

LEMMA GraphTypedIs ==
  ASSUME GraphTyped
  PROVE  GraphTypeOK
<1>1. janitor.pc \in {"rest", "events", "impact", "members", "edges", "node", "pass", "write"}
  BY DEF GraphTyped, JanitorOK, Rest, Sweeping
<1> QED
  BY <1>1 DEF GraphTyped, Tables, GraphTypeOK

LEMMA GraphTypes ==
  ASSUME GraphTyped, [GraphNext]_graphVars
  PROVE  GraphTyped'
<1> USE GraphAssumption
<1>1. CASE Writers
  <2>1. JanitorOK'
    BY <1>1 DEF Writers, Ingest, Measure, GrowOlder, Seed, SetEdge, AddToIndex, IngestFails,
       GraphTyped, JanitorOK
  <2>2. Tables'
    BY <1>1, GraphFaultCounts DEF GraphTyped, Tables, Writers, Ingest, Measure, GrowOlder, Seed,
       SetEdge, AddToIndex, IngestFails, EdgesOf, Dates
  <2> QED
    BY <2>1, <2>2 DEF GraphTyped
<1>2. CASE Deduper
  <2>1. JanitorOK'
    BY <1>2 DEF Deduper, RewriteRead, StartDedup, RewriteSet, RewriteDelete, RewriteFails, EndDedup,
       DedupStops, ResetDedup, GraphTyped, JanitorOK
  <2>2. Moved \subseteq Edges
    BY DEF Moved, GraphTyped, Tables
  <2>3. Tables'
    <3>1. CASE StartDedup \/ EndDedup \/ ResetDedup \/ \E k \in Edges : RewriteRead(k)
      <4>1. UNCHANGED <<nodes, dated, impact, edges, index, ready, todo, adding, graphFaults, skipped>>
        BY <3>1 DEF StartDedup, EndDedup, ResetDedup, RewriteRead
      <4>2. dedup' \in [says : BOOLEAN, pc : {"none", "scan", "set", "delete"}, edges : SUBSET Edges]
        <5>1. CASE StartDedup
          BY <5>1 DEF StartDedup
        <5>2. CASE EndDedup
          BY <5>2 DEF EndDedup
        <5>3. CASE ResetDedup
          BY <5>3 DEF ResetDedup, GraphTyped, Tables
        <5>4. CASE \E k \in Edges : RewriteRead(k)
          <6>1. PICK k \in Edges : Dedup("set", {k})
            BY <5>4 DEF RewriteRead
          <6> QED
            BY <6>1 DEF Dedup, GraphTyped, Tables
        <5> QED
          BY <3>1, <5>1, <5>2, <5>3, <5>4
      <4> QED
        BY <4>1, <4>2 DEF GraphTyped, Tables
    <3>2. CASE RewriteSet
      BY <3>2, <2>2 DEF GraphTyped, Tables, RewriteSet, Dedup
    <3>3. CASE RewriteDelete
      BY <3>3 DEF GraphTyped, Tables, RewriteDelete, Dedup
    <3>4. CASE RewriteFails \/ DedupStops
      BY <3>4, GraphFaultCounts DEF GraphTyped, Tables, RewriteFails, DedupStops, Dedup
    <3> QED
      BY <1>2, <3>1, <3>2, <3>3, <3>4 DEF Deduper
  <2> QED
    BY <2>1, <2>3 DEF GraphTyped
<1>3. CASE SweepStep
  <2>1. Tables'
    <3>1. CASE SweepFails
      BY <3>1, GraphFaultCounts DEF GraphTyped, Tables, SweepFails
    <3>2. CASE DeleteNode
      BY <3>2 DEF GraphTyped, Tables, DeleteNode
    <3> QED
      BY <1>3, <3>1, <3>2 DEF GraphTyped, Tables, SweepStep, StartSweep, ReadImpact, ReadMembers,
         DeleteEdges, SweepEvent
  <2>2. JanitorOK'
    <3>1. CASE StartSweep
      BY <3>1 DEF StartSweep, JanitorOK
    <3>2. CASE \E e \in Events : SweepEvent(e)
      BY <3>2, JanitorFields DEF SweepEvent, JanitorOK, Sweeping, GraphTyped
    <3>3. CASE ReadImpact \/ ReadMembers \/ DeleteEdges \/ DeleteNode \/ SweepFails
      <4>1. janitor \in [pc : Sweeping, kept : SUBSET Events, deleted : Nat, event : Events,
                         had : SUBSET Edges]
        BY <3>3, JanitorFields DEF ReadImpact, ReadMembers, DeleteEdges, DeleteNode, SweepFails,
           Sweeping, GraphTyped
      <4>2. CASE ReadImpact
        BY <4>1, <4>2 DEF ReadImpact, JanitorGoes, JanitorOK, Sweeping
      <4>3. CASE ReadMembers
        <5>1. index \cap EdgesOf(janitor.event) \subseteq Edges
          BY DEF EdgesOf
        <5> QED
          BY <4>1, <4>3, <5>1 DEF ReadMembers, JanitorOK, Sweeping
      <4>4. CASE DeleteEdges
        BY <4>1, <4>4 DEF DeleteEdges, JanitorGoes, JanitorOK, Sweeping
      <4>5. CASE DeleteNode
        BY <4>1, <4>5 DEF DeleteNode, JanitorOK
      <4>6. CASE SweepFails
        BY <4>1, <4>6 DEF SweepFails, JanitorOK
      <4> QED
        BY <3>3, <4>2, <4>3, <4>4, <4>5, <4>6
    <3> QED
      BY <1>3, <3>1, <3>2, <3>3 DEF SweepStep
  <2> QED
    BY <2>1, <2>2 DEF GraphTyped
<1>4. CASE PassStep
  <2>1. CASE StartPass
    <3>1. Tables'
      BY <2>1, GraphFaultCounts DEF StartPass, GraphTyped, Tables
    <3>2. JanitorOK'
      <4>1. PICK keys \in SUBSET edges :
              janitor' = [pc |-> "pass", keys |-> keys, complete |-> Cardinality(keys) < ScanCap]
        BY <2>1 DEF StartPass
      <4> QED
        BY <4>1 DEF JanitorOK, GraphTyped, Tables
    <3> QED
      BY <3>1, <3>2 DEF GraphTyped
  <2>2. CASE EndPass
    <3>1. janitor.complete \in BOOLEAN
      BY <2>2, JanitorFields DEF EndPass, GraphTyped
    <3> QED
      BY <2>2, <3>1 DEF EndPass, GraphTyped, Tables, JanitorOK
  <2>3. CASE JanitorStops
    BY <2>3, GraphFaultCounts DEF JanitorStops, GraphTyped, Tables, JanitorOK
  <2>4. CASE \E k \in Edges : CheckOrphan(k)
    <3>1. janitor \in [pc : {"pass"}, keys : SUBSET Edges, complete : BOOLEAN]
      BY <2>4, JanitorFields DEF CheckOrphan, InPass, GraphTyped
    <3> QED
      BY <2>4, <3>1 DEF CheckOrphan, GraphTyped, Tables, JanitorOK
  <2>5. CASE WriteBatch \/ BatchFails \/ CommandFails
    <3>1. janitor \in [pc : {"write"}, edge : Edges, orphan : BOOLEAN, keys : SUBSET Edges,
                       complete : BOOLEAN]
      BY <2>5, JanitorFields DEF WriteBatch, BatchFails, CommandFails, GraphTyped
    <3>2. JanitorOK'
      <4>1. \E complete \in BOOLEAN : Passed(janitor.edge, complete)
        BY <2>5, <3>1 DEF WriteBatch, BatchFails, CommandFails
      <4> QED
        BY <3>1, <4>1 DEF Passed, JanitorOK
    <3>3. CASE WriteBatch
      <4>1. /\ edges' \subseteq Edges /\ index' \subseteq Edges /\ skipped' \subseteq Edges
            /\ UNCHANGED <<nodes, dated, impact, ready, todo, adding, graphFaults, dedup>>
        BY <3>1, <3>3 DEF WriteBatch, GraphTyped, Tables
      <4> QED
        BY <3>2, <4>1 DEF GraphTyped, Tables
    <3>4. CASE BatchFails \/ CommandFails
      <4>1. /\ skipped' \subseteq Edges /\ graphFaults' \in 0 .. MaxGraphFaults
            /\ UNCHANGED <<nodes, dated, impact, edges, index, ready, todo, adding, dedup>>
        BY <3>1, <3>4, GraphFaultCounts DEF BatchFails, CommandFails, GraphTyped, Tables
      <4> QED
        BY <3>2, <4>1 DEF GraphTyped, Tables
    <3> QED
      BY <2>5, <3>3, <3>4
  <2> QED
    BY <1>4, <2>1, <2>2, <2>3, <2>4, <2>5 DEF PassStep
<1>5. CASE UNCHANGED graphVars
  BY <1>5 DEF graphVars, GraphTyped, Tables, JanitorOK
<1> QED
  BY <1>1, <1>2, <1>3, <1>4, <1>5, GraphSteps

LEMMA GraphStarts ==
  ASSUME GraphInit
  PROVE  GraphTyped
<1>1. JanitorOK
  BY DEF GraphInit, JanitorOK
<1>2. dated \in [Events -> Dates \cup {"unseen"}]
  BY DEF GraphInit, Dates
<1>3. \A k \in edges : k \in Edges /\ Src[k] \in Events
  BY GraphAssumption DEF GraphInit
<1>4. nodes \subseteq Events /\ edges \subseteq Edges
  BY <1>3 DEF GraphInit
<1>5. dedup \in [says : BOOLEAN, pc : {"none", "scan", "set", "delete"}, edges : SUBSET Edges]
  BY DEF GraphInit
<1>6. graphFaults \in 0 .. MaxGraphFaults
  BY GraphAssumption DEF GraphInit
<1> QED
  BY <1>1, <1>2, <1>4, <1>5, <1>6 DEF GraphInit, GraphTyped, Tables

\* Every variable of the graph and its writers keeps its type, the janitor's record the
\* fields of its place.
THEOREM GraphTypeCorrect == GraphSpec => []GraphTypeOK
<1>1. GraphTyped /\ [GraphNext]_graphVars => GraphTyped'
  BY GraphTypes
<1> QED
  BY <1>1, GraphStarts, GraphTypedIs, PTL DEF GraphSpec

-----------------------------------------------------------------------------
(***************************************************************************)
(* IndexComplete.                                                          *)
(***************************************************************************)
\* One ingestion at a time, of a recent event; the sweep is at an older one.
LEMMA IngestKeeps ==
  ASSUME GraphTyped, GraphTyped', Apart, [GraphNext]_graphVars
  PROVE  Apart'
<1>1. CASE Writers
  <2>1. UNCHANGED janitor
    BY <1>1 DEF Writers, Ingest, Measure, GrowOlder, Seed, SetEdge, AddToIndex, IngestFails
  <2>2. ASSUME NEW e \in Events, Ingest(e)
        PROVE  Apart'
    <3>1. dated[e] = "unseen" /\ dated' = [dated EXCEPT ![e] = "recent"]
      BY <2>2 DEF Ingest
    <3>2. AgedSweep'
      BY <2>1, <3>1, JanitorFields DEF Apart, AgedSweep, GraphTyped, Tables
    <3>3. FreshIngest' /\ OneAtATime'
      BY <2>2, <3>1 DEF Ingest, EdgesOf, Apart, FreshIngest, OneAtATime, GraphTyped, Tables
    <3> QED
      BY <3>2, <3>3 DEF Apart
  <2>3. ASSUME NEW e \in Events, NEW d \in Dates, Seed(e, d)
        PROVE  Apart'
    <3>1. /\ dated[e] = "unseen" /\ dated' = [dated EXCEPT ![e] = d]
          /\ UNCHANGED <<todo, adding>>
      BY <2>3 DEF Seed
    <3>2. AgedSweep'
      BY <2>1, <3>1, JanitorFields DEF Apart, AgedSweep, GraphTyped, Tables
    <3>3. FreshIngest' /\ OneAtATime'
      BY <3>1 DEF Apart, FreshIngest, OneAtATime, GraphTyped, Tables
    <3> QED
      BY <3>2, <3>3 DEF Apart
  <2>4. ASSUME NEW e \in Events, GrowOlder(e)
        PROVE  Apart'
    <3>1. /\ dated[e] \in {"recent", "aged"}
          /\ dated' = [dated EXCEPT ![e] = IF @ = "recent" THEN "aged" ELSE "ancient"]
          /\ \A k \in todo \cup adding : Src[k] # e
          /\ UNCHANGED <<todo, adding>>
      BY <2>4 DEF GrowOlder, EdgesOf, GraphTyped, Tables
    <3>2. AgedSweep'
      BY <2>1, <3>1, JanitorFields DEF Apart, AgedSweep, GraphTyped, Tables
    <3>3. FreshIngest' /\ OneAtATime'
      BY <3>1 DEF Apart, FreshIngest, OneAtATime, GraphTyped, Tables
    <3> QED
      BY <3>2, <3>3 DEF Apart
  <2>5. CASE \/ \E e \in Events : Measure(e)
             \/ \E k \in Edges : SetEdge(k) \/ AddToIndex(k)
             \/ IngestFails
    <3>1. dated' = dated /\ todo' \subseteq todo
      BY <2>5 DEF Measure, SetEdge, AddToIndex, IngestFails
    <3>2. adding' \in {adding, {}} \/ \E k \in todo : adding' = {k}
      BY <2>5 DEF Measure, SetEdge, AddToIndex, IngestFails
    <3> QED
      BY <2>1, <3>1, <3>2 DEF Apart, OneAtATime, FreshIngest, AgedSweep
  <2> QED
    BY <1>1, <2>2, <2>3, <2>4, <2>5 DEF Writers
<1>2. CASE Deduper
  BY <1>2 DEF Deduper, RewriteRead, StartDedup, RewriteSet, RewriteDelete, RewriteFails, EndDedup,
     DedupStops, ResetDedup, Apart, OneAtATime, FreshIngest, AgedSweep
<1>3. CASE SweepStep \/ PassStep
  <2>1. UNCHANGED <<dated, todo, adding>>
    BY <1>3 DEF SweepStep, PassStep, StartSweep, SweepEvent, ReadImpact, ReadMembers, DeleteEdges,
       DeleteNode, SweepFails, StartPass, WriteBatch, EndPass, BatchFails, CommandFails,
       JanitorStops, CheckOrphan
  <2>2. AgedSweep'
    <3>1. CASE \E e \in Events : SweepEvent(e)
      BY <3>1 DEF SweepEvent, AgedSweep
    <3>2. CASE ReadImpact \/ ReadMembers \/ DeleteEdges
      <4>1. janitor.pc \in Sweeping
        BY <3>2 DEF ReadImpact, ReadMembers, DeleteEdges, Sweeping
      <4>2. janitor \in [pc : Sweeping, kept : SUBSET Events, deleted : Nat, event : Events,
                         had : SUBSET Edges]
        BY <4>1, JanitorFields DEF GraphTyped
      <4>3. janitor'.pc \in Sweeping => janitor'.event = janitor.event
        <5>1. CASE ReadImpact
          BY <4>2, <5>1 DEF ReadImpact, JanitorGoes, Sweeping
        <5>2. CASE ReadMembers \/ DeleteEdges
          BY <4>2, <5>2 DEF ReadMembers, DeleteEdges, JanitorGoes
        <5> QED
          BY <3>2, <5>1, <5>2
      <4> QED
        BY <2>1, <4>1, <4>3 DEF Apart, AgedSweep
    <3>3. CASE StartSweep \/ DeleteNode \/ SweepFails \/ PassStep
      <4>1. janitor'.pc \notin Sweeping
        BY <3>3 DEF StartSweep, DeleteNode, SweepFails, PassStep, StartPass, WriteBatch, EndPass,
           BatchFails, CommandFails, JanitorStops, CheckOrphan, Passed, Rest, Sweeping
      <4> QED
        BY <4>1 DEF AgedSweep
    <3> QED
      BY <1>3, <3>1, <3>2, <3>3 DEF SweepStep
  <2> QED
    BY <2>1, <2>2 DEF Apart, OneAtATime, FreshIngest
<1>4. CASE UNCHANGED graphVars
  BY <1>4 DEF graphVars, Apart, OneAtATime, FreshIngest, AgedSweep
<1> QED
  BY <1>1, <1>2, <1>3, <1>4, GraphSteps

\* Writers leave what they write among what is covered, and stay away from the event
\* that the sweep is at.
LEMMA WritersCover ==
  ASSUME GraphTyped, Apart, SetsCover, Writers
  PROVE  SetsCover'
<1>1. UNCHANGED <<janitor, ready>>
  BY DEF Writers, Ingest, Measure, GrowOlder, Seed, SetEdge, AddToIndex, IngestFails
<1>2. ASSUME NEW k \in todo \cup adding, janitor.pc \in Sweeping
      PROVE  k \notin EdgesOf(janitor.event)
  BY <1>2 DEF Apart, FreshIngest, AgedSweep, EdgesOf
<1>3. CASE \E e \in Events : Ingest(e) \/ Measure(e) \/ GrowOlder(e) \/ \E d \in Dates : Seed(e, d)
  <2>1. UNCHANGED <<edges, index, adding, skipped>>
    BY <1>3 DEF Ingest, Measure, GrowOlder, Seed
  <2> QED
    BY <1>1, <2>1 DEF SetsCover, ReadyCovers, PassCovers, SweepCovers, Covered
<1>4. ASSUME NEW k \in Edges, SetEdge(k)
      PROVE  SetsCover'
  <2>1. /\ k \in todo /\ adding = {} /\ edges' = edges \cup {k} /\ adding' = {k}
        /\ UNCHANGED <<index, skipped>>
    BY <1>4 DEF SetEdge
  <2>2. Covered' = Covered \cup {k}
    BY <2>1 DEF Covered
  <2>3. SweepCovers'
    BY <1>1, <1>2, <2>1 DEF SetsCover, SweepCovers, Sweeping
  <2> QED
    BY <1>1, <2>1, <2>2, <2>3 DEF SetsCover, ReadyCovers, PassCovers
<1>5. ASSUME NEW k \in Edges, AddToIndex(k)
      PROVE  SetsCover'
  <2>1. /\ adding = {k} /\ index' = index \cup {k} /\ adding' = {} /\ skipped' = skipped \ {k}
        /\ UNCHANGED edges
    BY <1>5 DEF AddToIndex, Apart, OneAtATime
  <2>2. Covered' = Covered
    BY <2>1 DEF Covered
  <2>3. SweepCovers'
    BY <1>1, <1>2, <2>1 DEF SetsCover, SweepCovers, Sweeping
  <2> QED
    BY <1>1, <2>1, <2>2, <2>3 DEF SetsCover, ReadyCovers, PassCovers
<1>6. CASE IngestFails
  <2>1. skipped' = skipped \cup adding /\ adding' = {} /\ UNCHANGED <<edges, index>>
    BY <1>6 DEF IngestFails
  <2>2. Covered' = Covered
    BY <2>1 DEF Covered
  <2> QED
    BY <1>1, <2>1, <2>2 DEF SetsCover, ReadyCovers, PassCovers, SweepCovers
<1> QED
  BY <1>3, <1>4, <1>5, <1>6 DEF Writers

LEMMA DedupCovers ==
  ASSUME SetsCover, Deduper
  PROVE  SetsCover'
<1>1. UNCHANGED <<janitor, ready, index, adding>>
  BY DEF Deduper, RewriteRead, StartDedup, RewriteSet, RewriteDelete, RewriteFails, EndDedup,
     DedupStops, ResetDedup
<1>2. \E new \in {Moved, {}} : edges' \subseteq edges \cup new /\ skipped' = skipped \cup new
  BY DEF Deduper, RewriteRead, StartDedup, RewriteSet, RewriteDelete, RewriteFails, EndDedup,
     DedupStops, ResetDedup
<1>3. Covered \subseteq Covered' /\ edges' \subseteq edges \cup skipped' /\ skipped \subseteq skipped'
  BY <1>1, <1>2 DEF Covered
<1>4. skipped' \subseteq Covered'
  BY DEF Covered
<1> QED
  BY <1>1, <1>3, <1>4 DEF SetsCover, ReadyCovers, PassCovers, SweepCovers

\* The sweep deletes the documents of what it takes out of the index.
LEMMA SweepKeepsCover ==
  ASSUME GraphTyped, Apart, SetsCover, SweepStep
  PROVE  SetsCover'
<1>1. UNCHANGED <<ready, adding, skipped>>
  BY DEF SweepStep, StartSweep, SweepEvent, ReadImpact, ReadMembers, DeleteEdges, DeleteNode,
     SweepFails
<1>2. CASE StartSweep \/ SweepFails \/ \E e \in Events : SweepEvent(e)
  <2>1. janitor'.pc \in {"events", "impact"} /\ UNCHANGED <<edges, index>>
    BY <1>2 DEF StartSweep, SweepFails, SweepEvent
  <2> QED
    BY <1>1, <2>1 DEF SetsCover, ReadyCovers, PassCovers, SweepCovers, Covered
<1>3. CASE ReadImpact \/ ReadMembers \/ DeleteEdges \/ DeleteNode
  <2>1. janitor \in [pc : Sweeping, kept : SUBSET Events, deleted : Nat, event : Events,
                     had : SUBSET Edges]
    BY <1>3, JanitorFields DEF ReadImpact, ReadMembers, DeleteEdges, DeleteNode, Sweeping, GraphTyped
  <2>2. adding \cap EdgesOf(janitor.event) = {}
    BY <2>1 DEF Apart, FreshIngest, AgedSweep, EdgesOf
  <2>3. CASE ReadImpact
    <3>1. janitor'.pc \in {"events", "members"} /\ UNCHANGED <<edges, index>>
      BY <2>1, <2>3 DEF ReadImpact, JanitorGoes
    <3> QED
      BY <1>1, <3>1 DEF SetsCover, ReadyCovers, PassCovers, SweepCovers, Covered
  <2>4. CASE ReadMembers
    <3>1. /\ janitor'.pc = "edges" /\ janitor'.event = janitor.event
          /\ janitor'.had = index \cap EdgesOf(janitor.event) /\ UNCHANGED <<edges, index>>
      BY <2>1, <2>4 DEF ReadMembers
    <3>2. Covered' = Covered
      BY <1>1, <3>1 DEF Covered
    <3> QED
      BY <1>1, <2>2, <3>1, <3>2 DEF SetsCover, ReadyCovers, PassCovers, SweepCovers, Covered
  <2>5. CASE DeleteEdges
    <3>1. /\ janitor.pc = "edges" /\ janitor'.pc = "node" /\ janitor'.event = janitor.event
          /\ edges' = edges \ janitor.had /\ UNCHANGED index
      BY <2>1, <2>5 DEF DeleteEdges, JanitorGoes
    <3>2. Covered' = Covered
      BY <1>1, <3>1 DEF Covered
    <3> QED
      BY <1>1, <3>1, <3>2 DEF SetsCover, ReadyCovers, PassCovers, SweepCovers
  <2>6. CASE DeleteNode
    <3>1. /\ janitor.pc = "node" /\ janitor'.pc = "events"
          /\ index' = index \ EdgesOf(janitor.event) /\ UNCHANGED edges
      BY <2>6 DEF DeleteNode
    <3>2. Covered \subseteq Covered' \cup EdgesOf(janitor.event) /\ skipped \subseteq Covered'
      BY <1>1, <3>1 DEF Covered
    <3> QED
      BY <1>1, <3>1, <3>2 DEF SetsCover, ReadyCovers, PassCovers, SweepCovers
  <2> QED
    BY <1>3, <2>3, <2>4, <2>5, <2>6
<1> QED
  BY <1>2, <1>3 DEF SweepStep

\* A pass either sees an edge into its set, or deletes it, or is no longer complete.
LEMMA PassKeepsCover ==
  ASSUME GraphTyped, SetsCover, PassStep
  PROVE  SetsCover'
<1>1. UNCHANGED adding /\ janitor'.pc \notin {"edges", "node"}
  BY DEF PassStep, StartPass, WriteBatch, EndPass, BatchFails, CommandFails, JanitorStops,
     CheckOrphan, Passed, Rest
<1>2. CASE StartPass
  <2>1. PICK keys \in SUBSET edges :
          /\ Cardinality(keys) = ScanCap \/ (keys = edges /\ Cardinality(edges) < ScanCap)
          /\ janitor' = [pc |-> "pass", keys |-> keys, complete |-> Cardinality(keys) < ScanCap]
    BY <1>2 DEF StartPass
  <2>2. janitor'.complete => edges \subseteq janitor'.keys
    <3>1. ~ (ScanCap < ScanCap)
      BY GraphAssumption
    <3>2. janitor'.keys = keys /\ janitor'.complete = (Cardinality(keys) < ScanCap)
      BY <2>1
    <3>3. CASE Cardinality(keys) = ScanCap
      BY <3>1, <3>2, <3>3
    <3>4. CASE keys = edges
      BY <3>2, <3>4
    <3> QED
      BY <2>1, <3>3, <3>4
  <2> QED
    BY <1>1, <1>2, <2>2 DEF StartPass, SetsCover, ReadyCovers, PassCovers, SweepCovers, Covered
<1>3. CASE EndPass
  <2>1. /\ janitor.pc = "pass" /\ janitor.keys = {} /\ janitor'.pc = "rest"
        /\ ready' = (ready \/ janitor.complete) /\ UNCHANGED <<edges, index, skipped>>
    BY <1>3 DEF EndPass, Rest
  <2> QED
    BY <1>1, <2>1 DEF SetsCover, ReadyCovers, PassCovers, SweepCovers, Covered
<1>4. CASE JanitorStops
  BY <1>1, <1>4 DEF JanitorStops, Rest, SetsCover, ReadyCovers, PassCovers, SweepCovers, Covered
<1>5. CASE \E k \in Edges : CheckOrphan(k)
  BY <1>1, <1>5 DEF CheckOrphan, InPass, SetsCover, ReadyCovers, PassCovers, SweepCovers, Covered
<1>6. CASE WriteBatch \/ BatchFails \/ CommandFails
  <2>1. janitor.pc = "write" /\ janitor'.pc = "pass" /\ janitor'.keys = janitor.keys \ {janitor.edge}
        /\ ready' = ready
    BY <1>6 DEF WriteBatch, BatchFails, CommandFails, Passed
  <2>2. CASE WriteBatch
    <3>1. janitor'.complete = janitor.complete
      BY <2>2 DEF WriteBatch, Passed
    <3>2. CASE janitor.orphan
      <4>1. edges' = edges \ {janitor.edge} /\ Covered \subseteq Covered' \cup {janitor.edge}
        BY <1>1, <2>2, <3>2 DEF WriteBatch, Covered
      <4> QED
        BY <1>1, <2>1, <3>1, <4>1 DEF SetsCover, ReadyCovers, PassCovers, SweepCovers
    <3>3. CASE ~ janitor.orphan
      <4>1. edges' = edges /\ Covered' = Covered \cup {janitor.edge}
        BY <1>1, <2>2, <3>3 DEF WriteBatch, Covered
      <4> QED
        BY <1>1, <2>1, <3>1, <4>1 DEF SetsCover, ReadyCovers, PassCovers, SweepCovers
    <3> QED
      BY <3>2, <3>3
  <2>3. CASE BatchFails
    <3>1. janitor'.complete = FALSE /\ UNCHANGED <<edges, index, skipped>>
      BY <2>3 DEF BatchFails, Passed
    <3> QED
      BY <1>1, <2>1, <3>1 DEF SetsCover, ReadyCovers, PassCovers, SweepCovers, Covered
  <2>4. CASE CommandFails
    <3>1. /\ janitor'.complete = janitor.complete /\ UNCHANGED <<edges, index>>
          /\ skipped \subseteq skipped' /\ janitor.edge \in index \cup skipped'
      BY <2>4 DEF CommandFails, Passed
    <3>2. Covered \subseteq Covered' /\ janitor.edge \in Covered'
      BY <1>1, <3>1 DEF Covered
    <3> QED
      BY <1>1, <2>1, <3>1, <3>2 DEF SetsCover, ReadyCovers, PassCovers, SweepCovers
  <2> QED
    BY <1>6, <2>2, <2>3, <2>4
<1> QED
  BY <1>2, <1>3, <1>4, <1>5, <1>6 DEF PassStep

\* Once the index counts as complete a reader of the sets finds every edge, but for one
\* whose SADD is the next step or failed, or which the dedup pass wrote past the index.
THEOREM IndexCompleteAlways == GraphSpec => []IndexComplete
<1> DEFINE Inv == GraphTyped /\ Apart /\ SetsCover
<1>1. GraphInit => Inv
  <2>1. GraphInit => Apart /\ SetsCover
    BY DEF GraphInit, Rest, Apart, OneAtATime, FreshIngest, AgedSweep, Sweeping, SetsCover,
       ReadyCovers, PassCovers, SweepCovers
  <2> QED
    BY <2>1, GraphStarts
<1>2. Inv /\ [GraphNext]_graphVars => Inv'
  <2> SUFFICES ASSUME Inv, [GraphNext]_graphVars
               PROVE  Inv'
    OBVIOUS
  <2>1. GraphTyped' /\ Apart'
    BY GraphTypes, IngestKeeps
  <2>2. CASE UNCHANGED graphVars
    BY <2>1, <2>2 DEF graphVars, SetsCover, ReadyCovers, PassCovers, SweepCovers, Covered
  <2> QED
    BY <2>1, <2>2, GraphSteps, WritersCover, DedupCovers, SweepKeepsCover, PassKeepsCover
<1>3. Inv => IndexComplete
  BY DEF SetsCover, ReadyCovers, Covered, IndexComplete, Neighbors, EdgesOf
<1> QED
  BY <1>1, <1>2, <1>3, PTL DEF GraphSpec

=============================================================================
