--------------------------- MODULE HistoryProofs ---------------------------
(***************************************************************************)
(* What a vehicle shows expires, the history rebuilt from rows agrees with *)
(* the candidates kept live beside them, and the drives and charges read   *)
(* from rows keep apart, for any samples, any rows, any order of their     *)
(* times and any clock.                                                    *)
(***************************************************************************)
EXTENDS Reconstruction, Segments, SequenceTheorems, WellFoundedInduction, TLAPS

Row == {Telemetry(offer, recorded, observed) :
          offer \in Offer, recorded \in 1..MaxClock, observed \in 1..MaxClock}
Measured == UNION {{Observed(r, o) : o \in r.observations} : r \in Row}
Speeds   == UNION {{FixSpeed(r, v) : v \in r.position} : r \in Row}
Fixes    == UNION {{Fix(r, v) : v \in r.position} : r \in Row}
Period   == [source : {offer.source : offer \in Offer} \union Linked,
             started : 1..MaxClock, last : 1..MaxClock, window : Nat]

(* The types of all a reading is made of.                                  *)
KeptTypeOK ==
  /\ clock \in 1..MaxClock
  /\ reports \in Seq(Row)
  /\ metricCand \in SUBSET (Measured \union Speeds)
  /\ fixCand \in SUBSET Fixes
  /\ periods \in Seq(Period)

(* Nothing was observed, and no source met, later than now.                *)
PastInv ==
  /\ \A i \in DOMAIN reports : reports[i].observed <= clock
  /\ \A i \in DOMAIN periods : periods[i].started <= clock /\ periods[i].last <= clock

(* A candidate is what some row says, every row is told by a candidate as  *)
(* new, and of one source, channel and key there is one time.              *)
FromRows(S, known) == \A c \in S : SpeedOfFix(c) \/ \E x \in known : x.cand = c
Covers(S, known) == \A x \in known : \E c \in S : SameCandidate(x.cand, c) /\ c.at >= x.cand.at
OneTime(S) == \A c, d \in S : SameCandidate(c, d) => c.at = d.at
NewestInv ==
  /\ FromRows(metricCand, MetricRows) /\ Covers(metricCand, MetricRows) /\ OneTime(metricCand)
  /\ FromRows(fixCand, FixRows) /\ Covers(fixCand, FixRows) /\ OneTime(fixCand)

KeptInv == KeptTypeOK /\ PastInv /\ NewestInv

-----------------------------------------------------------------------------
(* Bounded sets of numbers have a greatest element.                        *)
LEMMA LeastNumber ==
  ASSUME NEW T \in SUBSET Nat, T # {}
  PROVE  \E m \in T : \A n \in T : m <= n
<1>1. PICK m \in T : \A n \in T : ~(<<n, m>> \in OpToRel(<, Nat))
  BY NatLessThanWellFounded, WFMin
<1>2. \A n \in T : ~(n < m)
  BY <1>1 DEF OpToRel
<1> QED
  BY <1>2

LEMMA GreatestNumber ==
  ASSUME NEW T \in SUBSET Nat, T # {}, NEW bound \in Nat, \A n \in T : n <= bound
  PROVE  \E m \in T : \A n \in T : n <= m
<1> DEFINE D == {bound - n : n \in T}
<1>1. D \in SUBSET Nat
  OBVIOUS
<1>2. D # {}
  OBVIOUS
<1>3. PICK d \in D : \A n \in D : d <= n
  BY <1>1, <1>2, LeastNumber
<1>4. PICK m \in T : d = bound - m
  BY <1>3
<1>5. \A n \in T : bound - m <= bound - n
  BY <1>3, <1>4
<1> QED
  BY <1>5

(* Every candidate of a vehicle is measured, by a channel with a rank.     *)
Timed(C) == \A c \in C : c.method = "direct" /\ c.at \in 1..MaxClock

LEMMA BestIsOne ==
  ASSUME NEW C, C # {}, Timed(C)
  PROVE  Best(C) \in C /\ \A d \in C : Outranks(Best(C), d)
<1> DEFINE ranks == {ChannelRank(c) : c \in C}
<1>1. \A c \in C : ChannelRank(c) \in Nat /\ ChannelRank(c) <= 5
  BY DEF ChannelRank
<1>2. ranks \in SUBSET Nat /\ ranks # {} /\ \A n \in ranks : n <= 5
  BY <1>1
<1>3. PICK rank \in ranks : \A n \in ranks : n <= rank
  <2> HIDE DEF ranks
  <2> QED
    BY <1>2, GreatestNumber
<1> DEFINE front == {c \in C : ChannelRank(c) = rank}
           times == {c.at : c \in front}
<1>4. times \in SUBSET Nat /\ times # {} /\ MaxClock \in Nat /\ \A n \in times : n <= MaxClock
  BY <1>3, ReportAssumption DEF Timed
<1>5. PICK latest \in times : \A n \in times : n <= latest
  <2> HIDE DEF times
  <2> QED
    BY <1>4, GreatestNumber
<1>6. PICK c \in front : c.at = latest
  BY <1>5
<1>7. ASSUME NEW d \in C
      PROVE  Outranks(c, d)
  <2>1. ChannelRank(d) <= ChannelRank(c) /\ ChannelRank(d) \in Nat /\ ChannelRank(c) \in Nat
    BY <1>1, <1>3, <1>6
  <2>2. ChannelRank(d) = ChannelRank(c) => d.at <= c.at /\ d.at \in Nat /\ c.at \in Nat
    BY <1>5, <1>6 DEF Timed
  <2> HIDE DEF front
  <2>3. c.method = "direct" /\ d.method = "direct"
    BY <1>6 DEF Timed, front
  <2> QED
    BY <2>1, <2>2, <2>3 DEF Outranks
<1> QED
  BY <1>6, <1>7 DEF Best

-----------------------------------------------------------------------------
(* _choose gives usable evidence of its key, and stale evidence only when  *)
(* no usable evidence of a retained metric is fresh.                       *)
LEMMA ChosenIsEvidence ==
  ASSUME NEW C, Timed(C), NEW key, NEW now, NEW c \in Chosen(key, C, now)
  PROVE  /\ c \in C /\ c.key = key /\ c.value # NoValue
         /\ \/ Fresh(c, now)
            \/ Retained(key) /\ \A d \in C : d.key = key /\ d.value # NoValue => ~Fresh(d, now)
<1> DEFINE usable == {d \in C : d.key = key /\ d.value # NoValue}
           fresh  == {d \in usable : Fresh(d, now)}
           road   == {d \in fresh : key = "vehicle.speed" /\ d.channel \in {"can", "obd"}}
           front  == IF road # {} THEN road ELSE fresh
<1>1. Timed(usable) /\ Timed(front)
  BY DEF Timed
<1>2. CASE fresh # {}
  <2>1. front # {} /\ front \subseteq fresh
    BY <1>2
  <2>2. c = Best(front)
    BY <1>2 DEF Chosen
  <2>3. c \in front
    <3> HIDE DEF front
    <3> QED
      BY <1>1, <2>1, <2>2, BestIsOne
  <2> QED
    BY <2>1, <2>3
<1>3. CASE fresh = {}
  <2>1. usable # {} /\ Retained(key) /\ c = Best(usable)
    BY <1>3 DEF Chosen
  <2>2. c \in usable
    <3> HIDE DEF usable
    <3> QED
      BY <1>1, <2>1, BestIsOne
  <2> QED
    BY <1>3, <2>1, <2>2
<1> QED
  BY <1>2, <1>3

-----------------------------------------------------------------------------
Evidence(r, C, now) ==
  \E c \in C : c.source = r.source /\ c.at = r.at /\ Fresh(c, now) /\ c.value # NoValue
    /\ c.key \in {r.key} \union (IF r.method = "derived" THEN {"battery.power", "charging.power"} ELSE {})
Supported(r, C, now) == (r.fresh <=> Evidence(r, C, now)) /\ (r.key \in SafetySensitive => r.fresh)

(* What is shown of a chosen candidate is its own, and fresh when it is.   *)
LEMMA PlainIsSupported ==
  ASSUME NEW C, Timed(C), NEW key, NEW now, NEW c \in Chosen(key, C, now), NEW r, r = Shown(c, Fresh(c, now))
  PROVE  /\ Supported(r, C, now)
         /\ r.key = key /\ r.method = "direct" /\ r.value = c.value /\ r.fresh = Fresh(c, now)
<1>1. /\ c \in C /\ c.key = key /\ c.value # NoValue
      /\ \/ Fresh(c, now)
         \/ Retained(key) /\ \A d \in C : d.key = key /\ d.value # NoValue => ~Fresh(d, now)
  BY ChosenIsEvidence
<1>2. r.key = key /\ r.value = c.value /\ r.at = c.at /\ r.source = c.source /\ r.method = c.method
  BY <1>1 DEF Shown
<1>3. r.fresh = Fresh(c, now)
  BY DEF Shown
<1>4. r.method = "direct"
  BY <1>1, <1>2 DEF Timed
<1>5. CASE Fresh(c, now)
  <2>1. r.fresh
    BY <1>3, <1>5
  <2>2. Evidence(r, C, now)
    BY <1>1, <1>2, <1>5 DEF Evidence
  <2> QED
    BY <2>1, <2>2, <1>2, <1>4, <1>1, <1>5 DEF Supported
<1>6. CASE ~Fresh(c, now)
  <2>1. ~Evidence(r, C, now)
    BY <1>1, <1>2, <1>4, <1>6 DEF Evidence
  <2>2. ~r.fresh
    BY <1>3, <1>6
  <2>3. r.key \notin SafetySensitive
    BY <1>1, <1>2, <1>6 DEF Retained
  <2> QED
    BY <2>1, <2>2, <2>3, <1>2, <1>3, <1>4 DEF Supported
<1> QED
  BY <1>2, <1>3, <1>4, <1>5, <1>6

(* A derived reading is shown of fresh evidence of a power.                *)
LEMMA DerivedIsSupported ==
  ASSUME NEW C, Timed(C), NEW source \in {"battery.power", "charging.power"}, NEW now,
         NEW c \in Chosen(source, C, now), NEW key, NEW value, NEW r, r = Derived(c, key, value)
  PROVE  Supported(r, C, now) /\ r.fresh /\ r.key = key /\ r.value = value /\ r.method = "derived"
<1>1. source \in SafetySensitive
  BY DEF SafetySensitive
<1>2. c \in C /\ c.key = source /\ c.value # NoValue /\ Fresh(c, now)
  BY <1>1, ChosenIsEvidence DEF Retained
<1>3. /\ r.key = key /\ r.value = value /\ r.at = c.at /\ r.source = c.source
      /\ r.method = "derived" /\ r.fresh = TRUE
  BY DEF Derived, Shown
<1>4. Evidence(r, C, now)
  BY <1>2, <1>3 DEF Evidence
<1> QED
  BY <1>3, <1>4 DEF Supported

LEMMA ReadingsAreSupported ==
  ASSUME NEW C, Timed(C), NEW now, NEW r \in resolve_readings(C, now)
  PROVE  /\ Supported(r, C, now)
         /\ r.key = "charging.power" /\ r.method = "derived"
              => \E a \in resolve_readings(C, now) : a.key = "charging.active" /\ a.value = 1 /\ a.fresh
<1> DEFINE chosen(key) == Chosen(key, C, now)
           plain(S)    == {Shown(c, Fresh(c, now)) : c \in S}
           keys        == {c.key : c \in C} \ {"charging.active", "charging.power"}
           explicit    == {c \in chosen("charging.active") : Fresh(c, now)}
           power       == chosen("charging.power")
           battery     == chosen("battery.power")
           origin      == IF power # {} THEN power ELSE battery
           inferred    == IF \/ \E c \in power : c.value >= Floor
                             \/ \E c \in battery : c.value <= -Floor
                          THEN 1 ELSE 0
           active      == IF explicit # {} THEN plain(explicit)
                          ELSE {Derived(c, "charging.active", inferred) : c \in {o \in origin : Fresh(o, now)}}
           rate        == IF power # {} THEN plain(power)
                          ELSE {Derived(c, "charging.power", -c.value) :
                                  c \in {b \in battery : b.value < 0 /\ \E a \in active : a.value = 1}}
<1>1. resolve_readings(C, now) = plain(UNION {chosen(key) : key \in keys}) \union active \union rate
  BY DEF resolve_readings
<1>2. ASSUME NEW a \in active
      PROVE  Supported(a, C, now) /\ a.key = "charging.active" /\ a.fresh
  <2>1. CASE explicit # {}
    <3>1. PICK c \in explicit : a = Shown(c, Fresh(c, now))
      BY <2>1
    <3>2. c \in Chosen("charging.active", C, now)
      OBVIOUS
    <3>6. Fresh(c, now)
      OBVIOUS
    <3> HIDE DEF explicit
    <3>3. Supported(a, C, now) /\ a.key = "charging.active"
      BY <3>1, <3>2, PlainIsSupported
    <3>4. a.fresh = Fresh(c, now)
      BY <3>1 DEF Shown
    <3>5. a.fresh
      BY <3>6, <3>4
    <3> QED
      BY <3>3, <3>5
  <2>2. CASE explicit = {}
    <3>1. PICK c \in origin : a = Derived(c, "charging.active", inferred)
      BY <2>2
    <3>2. \E source \in {"battery.power", "charging.power"} : c \in Chosen(source, C, now)
      OBVIOUS
    <3> HIDE DEF inferred
    <3> QED
      BY <3>1, <3>2, DerivedIsSupported
  <2> QED
    BY <2>1, <2>2
<1>3. ASSUME NEW b \in rate
      PROVE  Supported(b, C, now) /\ (b.method = "derived" => \E a \in active : a.value = 1)
  <2>1. CASE power # {}
    <3>1. PICK c \in power : b = Shown(c, Fresh(c, now))
      BY <2>1
    <3>2. Supported(b, C, now) /\ b.method = "direct"
      BY <3>1, PlainIsSupported
    <3> QED
      BY <3>2
  <2>2. CASE power = {}
    <3>1. PICK c \in battery : b = Derived(c, "charging.power", -c.value) /\ \E a \in active : a.value = 1
      BY <2>2
    <3>2. Supported(b, C, now)
      BY <3>1, DerivedIsSupported
    <3> QED
      BY <3>1, <3>2
  <2> QED
    BY <2>1, <2>2
<1>4. CASE r \in plain(UNION {chosen(key) : key \in keys})
  <2>1. PICK key \in keys : \E c \in Chosen(key, C, now) : r = Shown(c, Fresh(c, now))
    BY <1>4
  <2>2. Supported(r, C, now) /\ r.method = "direct"
    BY <2>1, PlainIsSupported
  <2> QED
    BY <2>2
<1>5. CASE r \in active
  BY <1>2, <1>5
<1>6. CASE r \in rate
  <2> HIDE DEF rate, active
  <2>1. Supported(r, C, now)
    BY <1>3, <1>6
  <2>3. r.method = "derived" => \E a \in active : a.value = 1
    BY <1>3, <1>6
  <2>2. \A a \in active : a \in resolve_readings(C, now)
    BY <1>1
  <2> QED
    BY <2>1, <2>2, <2>3, <1>2
<1> HIDE DEF active, rate, plain
<1> QED
  BY <1>1, <1>4, <1>5, <1>6

-----------------------------------------------------------------------------
(* Only a later observation replaces the one kept: of old and new          *)
(* observations the newest time of each candidate stays, once.             *)
LEMMA AdvanceKeepsNewest ==
  ASSUME NEW S, NEW N, \A c \in S \union N : c.at \in Nat, OneTime(S), OneTime(N)
  PROVE  /\ Advance(S, N) \subseteq S \union N
         /\ OneTime(Advance(S, N))
         /\ \A c \in S \union N : \E d \in Advance(S, N) : SameCandidate(c, d) /\ d.at >= c.at
<1>1. Advance(S, N) \subseteq S \union N
  BY DEF Advance
<1>2. ASSUME NEW c \in Advance(S, N), NEW d \in Advance(S, N), SameCandidate(c, d)
      PROVE  c.at = d.at
  <2>1. SameCandidate(d, c)
    BY <1>2 DEF SameCandidate
  <2>2. CASE c \in S /\ d \in S
    BY <1>2, <2>2 DEF OneTime
  <2>3. CASE c \in N /\ d \in N
    BY <1>2, <2>3 DEF OneTime
  <2>4. CASE c \in S /\ d \in N \ S
    BY <1>2, <2>1, <2>4 DEF Advance, OneTime
  <2>5. CASE c \in N \ S /\ d \in S
    BY <1>2, <2>1, <2>5 DEF Advance, OneTime
  <2> QED
    BY <1>1, <2>2, <2>3, <2>4, <2>5
<1>3. ASSUME NEW c \in S
      PROVE  \E d \in Advance(S, N) : SameCandidate(c, d) /\ d.at >= c.at
  <2>1. CASE ~\E n \in N : SameCandidate(n, c) /\ n.at > c.at
    BY <2>1 DEF Advance, SameCandidate
  <2>2. ASSUME NEW n \in N, SameCandidate(n, c), n.at > c.at
        PROVE  \E d \in Advance(S, N) : SameCandidate(c, d) /\ d.at >= c.at
    <3>1. ASSUME NEW d \in S, SameCandidate(n, d)
          PROVE  ~(d.at >= n.at)
      <4>1. SameCandidate(c, d)
        BY <2>2, <3>1 DEF SameCandidate
      <4>2. d.at = c.at
        BY <4>1 DEF OneTime
      <4> QED
        BY <2>2, <4>2
    <3>2. n \in Advance(S, N)
      BY <3>1 DEF Advance
    <3>3. SameCandidate(c, n) /\ n.at >= c.at
      BY <2>2 DEF SameCandidate
    <3> QED
      BY <3>2, <3>3
  <2> QED
    BY <2>1, <2>2
<1>4. ASSUME NEW c \in N
      PROVE  \E d \in Advance(S, N) : SameCandidate(c, d) /\ d.at >= c.at
  <2>1. CASE ~\E d \in S : SameCandidate(c, d) /\ d.at >= c.at
    BY <2>1 DEF Advance, SameCandidate
  <2>2. ASSUME NEW d \in S, SameCandidate(c, d), d.at >= c.at
        PROVE  \E e \in Advance(S, N) : SameCandidate(c, e) /\ e.at >= c.at
    <3>1. ASSUME NEW n \in N, SameCandidate(n, d)
          PROVE  ~(n.at > d.at)
      <4>1. SameCandidate(n, c)
        BY <2>2, <3>1 DEF SameCandidate
      <4>2. n.at = c.at
        BY <4>1 DEF OneTime
      <4> QED
        BY <2>2, <4>2
    <3> QED
      BY <2>2, <3>1 DEF Advance
  <2> QED
    BY <2>1, <2>2
<1> QED
  BY <1>1, <1>2, <1>3, <1>4 DEF OneTime

(* What an observation is said of does not depend on its source's contact. *)
Said == Measured \union Speeds \union Fixes

LEMMA SaidIs ==
  ASSUME NEW c \in Said
  PROVE  /\ c.at \in 1..MaxClock /\ c.method = "direct"
         /\ c = [key |-> c.key, value |-> c.value, at |-> c.at, source |-> c.source, channel |-> c.channel,
                 method |-> c.method, interval |-> c.interval, event |-> c.event,
                 contact |-> c.contact, window |-> c.window]
<1>1. PICK r \in Row : \E o : c = Observed(r, o)
  BY DEF Said, Measured, Speeds, Fixes, Fix, FixSpeed
<1>2. r.observed \in 1..MaxClock
  BY DEF Row, Telemetry
<1> QED
  BY <1>1, <1>2 DEF Observed

LEMMA ContactAside ==
  ASSUME NEW c \in Said, NEW by
  PROVE  /\ InContact(c, by).source = c.source /\ InContact(c, by).key = c.key
         /\ InContact(c, by).channel = c.channel /\ InContact(c, by).at = c.at
         /\ InContact(c, by).method = c.method
<1>1. PICK key, value, at, source, channel, method, interval, event, contact, window :
        c = [key |-> key, value |-> value, at |-> at, source |-> source, channel |-> channel,
             method |-> method, interval |-> interval, event |-> event, contact |-> contact, window |-> window]
  BY SaidIs
<1> QED
  BY <1>1 DEF InContact

LEMMA LargerIsNatural ==
  ASSUME NEW a \in Nat, NEW b \in Nat
  PROVE  Max({a, b}) \in Nat
<1>1. \E x \in {a, b} : \A y \in {a, b} : x >= y
  <2>1. CASE a >= b
    BY <2>1
  <2>2. CASE b >= a
    BY <2>2
  <2> QED
    BY <2>1, <2>2
<1> QED
  BY <1>1 DEF Max

LEMMA SmallerIsFirst ==
  ASSUME NEW a \in Nat, NEW b \in Nat, a <= b
  PROVE  Min({a, b}) = a
<1>1. \A x \in {a, b} : (\A y \in {a, b} : x <= y) => x = a
  OBVIOUS
<1>2. \A y \in {a, b} : a <= y
  OBVIOUS
<1> QED
  BY <1>1, <1>2 DEF Min

-----------------------------------------------------------------------------
Sources == {offer.source : offer \in Offer} \union Linked

(* A contact extends the last period of its source or opens the next.      *)
LEMMA ContactKeeps ==
  ASSUME KeptTypeOK, PastInv, NEW source \in Sources, NEW window \in Nat,
         touch_source_contact(source, clock, window), UNCHANGED clock
  PROVE  /\ periods' \in Seq(Period)
         /\ \A i \in DOMAIN periods' : periods'[i].started <= clock' /\ periods'[i].last <= clock'
<1>1. PICK latest, now : latest = LatestPeriod(source, MaxClock) /\ now = clock
  OBVIOUS
<1>2. now \in 1..MaxClock /\ periods \in Seq(Period)
  BY <1>1 DEF KeptTypeOK
<1> DEFINE opened == [source |-> source, started |-> now, last |-> now, window |-> window]
<1>3. opened \in Period
  BY <1>2 DEF Period, Sources
<1>4. CASE periods' = periods
  BY <1>4, <1>2 DEF PastInv
<1>5. CASE periods' = Append(periods, opened)
  <2>1. periods' \in Seq(Period)
    BY <1>2, <1>3, <1>5
  <2>2. DOMAIN periods' = 1..(Len(periods) + 1)
    BY <1>2, <1>3, <1>5
  <2>3. \A i \in DOMAIN periods' : (i \in DOMAIN periods /\ periods'[i] = periods[i]) \/ periods'[i] = opened
    BY <1>2, <1>3, <1>5, <2>2
  <2>4. opened.started = now /\ opened.last = now
    OBVIOUS
  <2> QED
    BY <1>1, <1>2, <2>1, <2>3, <2>4 DEF PastInv
<1>6. CASE periods' = [periods EXCEPT ![latest].last = now, ![latest].window = window]
  <2>1. DOMAIN periods' = DOMAIN periods
    BY <1>6
  <2>2. ASSUME NEW i \in DOMAIN periods
        PROVE  periods'[i] \in Period /\ periods'[i].started <= now /\ periods'[i].last <= now
    <3>1. periods[i] \in Period /\ periods[i].started <= now /\ periods[i].last <= now
      BY <1>1, <1>2 DEF PastInv
    <3>2. CASE i = latest
      <4>1. periods'[i] = [periods[i] EXCEPT !.last = now, !.window = window]
        BY <1>6, <3>2
      <4>2. PICK p \in Period : p = periods[i] /\ p.started <= now
        BY <3>1
      <4>3. periods'[i] = [source |-> p.source, started |-> p.started, last |-> now, window |-> window]
        BY <4>1, <4>2 DEF Period
      <4> QED
        BY <1>2, <4>2, <4>3 DEF Period
    <3>3. CASE i # latest
      <4>1. periods'[i] = periods[i]
        BY <1>6, <3>3
      <4> QED
        BY <3>1, <4>1
    <3> QED
      BY <3>2, <3>3
  <2>3. periods' \in Seq(Period)
    <3>1. DOMAIN periods = 1..Len(periods) /\ Len(periods) \in Nat
      BY <1>2
    <3>2. periods' = [i \in 1..Len(periods) |-> periods'[i]]
      BY <1>6, <3>1
    <3> QED
      BY <2>2, <3>1, <3>2
  <2> QED
    BY <1>1, <2>1, <2>2, <2>3
<1> QED
  BY <1>1, <1>4, <1>5, <1>6 DEF touch_source_contact

-----------------------------------------------------------------------------
LEMMA RowsOfAppend ==
  ASSUME KeptTypeOK, NEW r \in Row, reports' = Append(reports, r)
  PROVE  \E n : /\ MetricRows' = MetricRows \union {[row |-> n, cand |-> Observed(r, o)] : o \in r.observations}
                /\ FixRows' = FixRows \union {[row |-> n, cand |-> Fix(r, v)] : v \in r.position}
<1>1. PICK n \in Nat : n = Len(reports) + 1
  BY DEF KeptTypeOK
<1>2. /\ DOMAIN reports' = DOMAIN reports \union {n}
      /\ \A i \in DOMAIN reports : reports'[i] = reports[i]
      /\ reports'[n] = r /\ n \notin DOMAIN reports
  BY <1>1 DEF KeptTypeOK
<1>3. MetricRows' = MetricRows \union {[row |-> n, cand |-> Observed(r, o)] : o \in r.observations}
  BY <1>2 DEF MetricRows, Stored
<1>4. FixRows' = FixRows \union {[row |-> n, cand |-> Fix(r, v)] : v \in r.position}
  BY <1>2 DEF FixRows, Stored
<1> QED
  BY <1>3, <1>4

LEMMA RowsAreSaid ==
  ASSUME KeptTypeOK
  PROVE  /\ \A x \in MetricRows : x.cand \in Measured /\ x.row \in Nat
         /\ \A x \in FixRows : x.cand \in Fixes /\ x.row \in Nat
<1>1. \A i \in DOMAIN reports : reports[i] \in Row /\ i \in Nat
  BY DEF KeptTypeOK
<1> QED
  BY <1>1 DEF MetricRows, FixRows, Stored, Measured, Fixes

LEMMA KeptInit == ReconstructionInit => KeptInv
<1> SUFFICES ASSUME ReconstructionInit
             PROVE  KeptInv
  OBVIOUS
<1>1. KeptTypeOK
  BY ReportAssumption DEF ReconstructionInit, KeptTypeOK
<1>2. PastInv
  BY DEF ReconstructionInit, PastInv
<1>3. MetricRows = {} /\ FixRows = {}
  BY DEF ReconstructionInit, MetricRows, FixRows, Stored
<1>4. NewestInv
  BY <1>3 DEF ReconstructionInit, NewestInv, FromRows, Covers, OneTime
<1> QED
  BY <1>1, <1>2, <1>4 DEF KeptInv

(* One sample more, in whichever order of time: candidates, rows and       *)
(* contacts go on together.                                                *)
LEMMA IngestKeeps ==
  ASSUME KeptInv, NEW offer \in Offer, NEW observed \in 1..clock, NEW recorded \in {observed, clock},
         Ingest_sample(offer, recorded, observed)
  PROVE  KeptInv'
<1> USE DEF KeptInv
<1>1. clock \in 1..MaxClock /\ MaxClock \in Nat /\ LivenessFloor \in Nat /\ offer.interval \in Nat
  BY ReportAssumption DEF KeptTypeOK
<1>2. PICK r : r = Telemetry(offer, recorded, observed)
  OBVIOUS
<1>3. r \in Row /\ r.observed = observed /\ observed <= clock /\ observed \in 1..MaxClock
      /\ r.source = offer.source /\ r.interval = offer.interval
  <2>1. recorded \in 1..MaxClock /\ observed \in 1..MaxClock /\ observed <= clock
    BY <1>1
  <2>2. r \in Row
    BY <2>1, <1>2 DEF Row
  <2> QED
    BY <2>1, <2>2, <1>2 DEF Telemetry
<1> DEFINE N == {Observed(r, o) : o \in r.observations}
           P == {FixSpeed(r, v) : v \in r.position}
           F == {Fix(r, v) : v \in r.position}
<1>4. N \subseteq Measured /\ P \subseteq Speeds /\ F \subseteq Fixes
  BY <1>3 DEF Measured, Speeds, Fixes
<1>5. /\ reports' = Append(reports, r)
      /\ metricCand' = Advance(Advance(metricCand, N), P)
      /\ fixCand' = Advance(fixCand, F)
      /\ touch_source_contact(r.source, clock, Max({r.interval, LivenessFloor}))
      /\ UNCHANGED clock
  BY <1>2 DEF Ingest_sample
<1>6. OneTime(N) /\ OneTime(P) /\ OneTime(F) /\ \A c \in P : SpeedOfFix(c)
  BY <1>3 DEF OneTime, Observed, FixSpeed, Fix, SpeedOfFix
<1>7. PICK n : /\ MetricRows' = MetricRows \union {[row |-> n, cand |-> Observed(r, o)] : o \in r.observations}
               /\ FixRows' = FixRows \union {[row |-> n, cand |-> Fix(r, v)] : v \in r.position}
  BY <1>3, <1>5, RowsOfAppend
<1>8. PICK cands, fixes, metricRows, fixRows :
        cands = metricCand /\ fixes = fixCand /\ metricRows = MetricRows /\ fixRows = FixRows
  OBVIOUS
<1> DEFINE toldN == {[row |-> n, cand |-> Observed(r, o)] : o \in r.observations}
           toldF == {[row |-> n, cand |-> Fix(r, v)] : v \in r.position}
<1>9. (\A c \in N : \E x \in toldN : x.cand = c) /\ (\A c \in F : \E x \in toldF : x.cand = c)
  <2>1. \A o \in r.observations : \E x \in toldN : x.cand = Observed(r, o)
    <3>1. \A o \in r.observations : [row |-> n, cand |-> Observed(r, o)] \in toldN
      OBVIOUS
    <3> HIDE DEF toldN
    <3> QED
      BY <3>1
  <2>2. \A v \in r.position : \E x \in toldF : x.cand = Fix(r, v)
    <3>1. \A v \in r.position : [row |-> n, cand |-> Fix(r, v)] \in toldF
      OBVIOUS
    <3> HIDE DEF toldF
    <3> QED
      BY <3>1
  <2> HIDE DEF toldN, toldF
  <2> QED
    BY <2>1, <2>2
<1>10. (\A x \in toldN : x.cand \in N) /\ (\A x \in toldF : x.cand \in F)
  OBVIOUS
<1>11. MetricRows' = metricRows \union toldN /\ FixRows' = fixRows \union toldF
  BY <1>7, <1>8
<1>12. /\ cands \subseteq Measured \union Speeds /\ fixes \subseteq Fixes
       /\ \A x \in metricRows : x.cand \in Said
       /\ \A x \in fixRows : x.cand \in Said
  BY <1>8, RowsAreSaid DEF KeptTypeOK, Said
<1>13. /\ FromRows(cands, metricRows) /\ Covers(cands, metricRows) /\ OneTime(cands)
       /\ FromRows(fixes, fixRows) /\ Covers(fixes, fixRows) /\ OneTime(fixes)
  BY <1>8 DEF NewestInv
<1>14. \A c \in Said : c.at \in Nat
  BY <1>1, SaidIs
<1>15. N \subseteq Said /\ P \subseteq Said /\ F \subseteq Said /\ cands \subseteq Said /\ fixes \subseteq Said
  BY <1>4, <1>12 DEF Said
<1> HIDE DEF N, P, F, toldN, toldF
<1> DEFINE M == Advance(cands, N)
           L == Advance(M, P)
           X == Advance(fixes, F)
<1>16. /\ M \subseteq cands \union N /\ OneTime(M)
       /\ \A c \in cands \union N : \E d \in M : SameCandidate(c, d) /\ d.at >= c.at
  BY <1>6, <1>13, <1>14, <1>15, AdvanceKeepsNewest
<1> HIDE DEF M
<1>17. /\ L \subseteq M \union P /\ OneTime(L)
       /\ \A c \in M \union P : \E d \in L : SameCandidate(c, d) /\ d.at >= c.at
  BY <1>6, <1>14, <1>15, <1>16, AdvanceKeepsNewest
<1>18. /\ X \subseteq fixes \union F /\ OneTime(X)
       /\ \A c \in fixes \union F : \E d \in X : SameCandidate(c, d) /\ d.at >= c.at
  BY <1>6, <1>13, <1>14, <1>15, AdvanceKeepsNewest
<1> HIDE DEF L, X
<1>19. metricCand' = L /\ fixCand' = X
  BY <1>5, <1>8 DEF L, M, X
<1>20. KeptTypeOK' /\ PastInv'
  <2>1. r.source \in Sources
    BY <1>3 DEF Sources
  <2>2. PICK window : window = Max({r.interval, LivenessFloor})
    OBVIOUS
  <2>3. window \in Nat
    BY <1>1, <1>3, <2>2, LargerIsNatural
  <2>4. /\ periods' \in Seq(Period)
        /\ \A i \in DOMAIN periods' : periods'[i].started <= clock' /\ periods'[i].last <= clock'
    BY <1>5, <2>1, <2>2, <2>3, ContactKeeps
  <2>5. reports' \in Seq(Row)
    BY <1>3, <1>5 DEF KeptTypeOK
  <2>6. \A i \in DOMAIN reports' : reports'[i].observed <= clock'
    <3>1. \A i \in DOMAIN reports' : reports'[i] = r \/ (i \in DOMAIN reports /\ reports'[i] = reports[i])
      BY <1>3, <1>5 DEF KeptTypeOK
    <3> QED
      BY <1>3, <1>5, <3>1 DEF PastInv
  <2>7. metricCand' \subseteq Measured \union Speeds /\ fixCand' \subseteq Fixes
    BY <1>4, <1>12, <1>16, <1>17, <1>18, <1>19
  <2> QED
    BY <1>5, <2>4, <2>5, <2>6, <2>7 DEF KeptTypeOK, PastInv
<1>21. FromRows(L, metricRows \union toldN) /\ FromRows(X, fixRows \union toldF)
  BY <1>6, <1>9, <1>13, <1>16, <1>17, <1>18 DEF FromRows
<1>22. Covers(L, metricRows \union toldN)
  <2>1. SUFFICES ASSUME NEW x \in metricRows \union toldN
                 PROVE  \E d \in L : SameCandidate(x.cand, d) /\ d.at >= x.cand.at
    BY DEF Covers
  <2>2. PICK c \in cands \union N : SameCandidate(x.cand, c) /\ c.at >= x.cand.at
    <3>1. CASE x \in metricRows
      BY <1>13, <3>1 DEF Covers
    <3>2. CASE x \in toldN
      BY <1>10, <1>14, <1>15, <3>2 DEF SameCandidate
    <3> QED
      BY <3>1, <3>2
  <2>3. PICK d \in M : SameCandidate(c, d) /\ d.at >= c.at
    BY <1>16
  <2>4. PICK e \in L : SameCandidate(d, e) /\ e.at >= d.at
    BY <1>17
  <2>5. x.cand.at \in Nat /\ c.at \in Nat /\ d.at \in Nat /\ e.at \in Nat
    BY <1>10, <1>12, <1>14, <1>15, <1>16, <1>17
  <2>6. e.at >= x.cand.at
    BY <2>2, <2>3, <2>4, <2>5
  <2>7. SameCandidate(x.cand, e)
    BY <2>2, <2>3, <2>4 DEF SameCandidate
  <2> QED
    BY <2>6, <2>7
<1>23. Covers(X, fixRows \union toldF)
  <2>1. SUFFICES ASSUME NEW x \in fixRows \union toldF
                 PROVE  \E d \in X : SameCandidate(x.cand, d) /\ d.at >= x.cand.at
    BY DEF Covers
  <2>2. PICK c \in fixes \union F : SameCandidate(x.cand, c) /\ c.at >= x.cand.at
    <3>1. CASE x \in fixRows
      BY <1>13, <3>1 DEF Covers
    <3>2. CASE x \in toldF
      BY <1>10, <1>14, <1>15, <3>2 DEF SameCandidate
    <3> QED
      BY <3>1, <3>2
  <2>3. PICK d \in X : SameCandidate(c, d) /\ d.at >= c.at
    BY <1>18
  <2>4. x.cand.at \in Nat /\ c.at \in Nat /\ d.at \in Nat
    BY <1>10, <1>12, <1>14, <1>15, <1>18
  <2>5. d.at >= x.cand.at
    BY <2>2, <2>3, <2>4
  <2>6. SameCandidate(x.cand, d)
    BY <2>2, <2>3 DEF SameCandidate
  <2> QED
    BY <2>5, <2>6
<1>24. NewestInv'
  BY <1>11, <1>17, <1>18, <1>19, <1>21, <1>22, <1>23 DEF NewestInv
<1> QED
  BY <1>20, <1>24

LEMMA SameRows == UNCHANGED reports => MetricRows' = MetricRows /\ FixRows' = FixRows
  BY DEF MetricRows, FixRows, Stored

LEMMA KeptStep == KeptInv /\ [LiveNext \/ TableNext]_reconstructionVars => KeptInv'
<1> SUFFICES ASSUME KeptInv, [LiveNext \/ TableNext]_reconstructionVars
             PROVE  KeptInv'
  OBVIOUS
<1> USE DEF KeptInv
<1>1. CASE Report
  BY <1>1, IngestKeeps DEF Report
<1>2. ASSUME NEW source \in Linked, Status_contact(source)
      PROVE  KeptInv'
  <2>1. /\ UNCHANGED <<clock, reports, metricCand, fixCand>>
        /\ touch_source_contact(source, clock, LivenessFloor)
    BY <1>2 DEF Status_contact
  <2>2. /\ periods' \in Seq(Period)
        /\ \A i \in DOMAIN periods' : periods'[i].started <= clock' /\ periods'[i].last <= clock'
    <3>1. source \in Sources /\ LivenessFloor \in Nat
      BY ReportAssumption DEF Sources
    <3> QED
      BY <2>1, <3>1, ContactKeeps
  <2>3. KeptTypeOK' /\ PastInv'
    BY <2>1, <2>2 DEF KeptTypeOK, PastInv
  <2>4. NewestInv'
    BY <2>1, SameRows DEF NewestInv
  <2> QED
    BY <2>3, <2>4
<1>3. CASE Clear_telemetry
  <2>1. MetricRows' = {} /\ FixRows' = {}
    BY <1>3 DEF Clear_telemetry, MetricRows, FixRows, Stored
  <2>2. KeptTypeOK'
    BY <1>3 DEF Clear_telemetry, KeptTypeOK
  <2>3. PastInv'
    BY <1>3 DEF Clear_telemetry, PastInv
  <2>4. NewestInv'
    BY <1>3, <2>1 DEF Clear_telemetry, NewestInv, FromRows, Covers, OneTime
  <2> QED
    BY <2>2, <2>3, <2>4
<1>4. CASE Tick
  <2>1. UNCHANGED <<reports, metricCand, fixCand, periods>> /\ clock' = clock + 1 /\ clock' \in 1..MaxClock
    BY <1>4, ReportAssumption DEF Tick, KeptTypeOK
  <2>2. KeptTypeOK'
    BY <2>1 DEF KeptTypeOK
  <2>3. PastInv'
    <3>1. clock \in Nat /\ \A i \in DOMAIN reports : reports[i].observed \in Nat
      <4>1. \A r \in Row : r.observed \in Nat
        BY ReportAssumption DEF Row, Telemetry
      <4> QED
        BY <4>1, ReportAssumption DEF KeptTypeOK
    <3>2. \A i \in DOMAIN periods : periods[i].started \in Nat /\ periods[i].last \in Nat
      <4>1. \A p \in Period : p.started \in Nat /\ p.last \in Nat
        BY ReportAssumption DEF Period
      <4> QED
        BY <4>1 DEF KeptTypeOK
    <3> QED
      BY <2>1, <3>1, <3>2 DEF PastInv
  <2>4. NewestInv'
    BY <2>1, SameRows DEF NewestInv
  <2> QED
    BY <2>2, <2>3, <2>4
<1>5. ASSUME UNCHANGED <<clock, reports, metricCand, fixCand, periods>>
      PROVE  KeptInv'
  <2>1. KeptTypeOK' /\ PastInv'
    BY <1>5 DEF KeptTypeOK, PastInv
  <2>2. NewestInv'
    BY <1>5, SameRows DEF NewestInv
  <2> QED
    BY <2>1, <2>2
<1>6. CASE LiveNext
  BY <1>1, <1>2, <1>3, <1>4, <1>6 DEF LiveNext
<1>7. CASE TableNext
  BY <1>1, <1>4, <1>5, <1>7 DEF TableNext, history_table
<1>8. CASE UNCHANGED reconstructionVars
  BY <1>5, <1>8 DEF reconstructionVars
<1> QED
  BY <1>6, <1>7, <1>8

LEMMA KeptHolds == ReconstructionSpec => []KeptInv
  BY KeptInit, KeptStep, PTL DEF ReconstructionSpec

-----------------------------------------------------------------------------
(* Rows and candidates that cover each other have the same newest          *)
(* observation wherever there is one of that time.                         *)
LEMMA NewestAgree ==
  ASSUME NEW S, NEW known, NEW by \in Nat, FromRows(S, known), Covers(S, known), OneTime(S),
         \A x \in known : x.cand.at \in Nat /\ x.cand.at <= by /\ x.row \in Nat,
         NEW c, ~SpeedOfFix(c), NewestOnce(c, known)
  PROVE  c \in S <=> c \in LatestRows(known, by)
<1> DEFINE Later(x, y) == \/ x.cand.at > y.cand.at
                          \/ x.cand.at = y.cand.at /\ x.row > y.row
<1>1. c \in LatestRows(known, by)
        <=> \E x \in known : x.cand = c /\ ~\E z \in known : SameCandidate(x.cand, z.cand) /\ Later(z, x)
  <2>1. {x \in known : x.cand.at <= by} = known
    OBVIOUS
  <2> QED
    BY <2>1 DEF LatestRows
<1>2. PICK once \in known : {y \in known : SameCandidate(y.cand, c) /\ y.cand.at = c.at} = {once}
  BY DEF NewestOnce
<1>3. \A y \in known : SameCandidate(y.cand, c) /\ y.cand.at = c.at => y = once
  BY <1>2
<1>4. ASSUME c \in S
      PROVE  c \in LatestRows(known, by)
  <2>1. PICK x \in known : x.cand = c
    BY <1>4 DEF FromRows
  <2>2. ASSUME NEW z \in known, SameCandidate(x.cand, z.cand), Later(z, x)
        PROVE  FALSE
    <3>1. PICK d \in S : SameCandidate(z.cand, d) /\ d.at >= z.cand.at
      BY DEF Covers
    <3>2. SameCandidate(c, d) /\ SameCandidate(z.cand, c)
      BY <2>1, <2>2, <3>1 DEF SameCandidate
    <3>3. c.at = d.at
      BY <1>4, <3>2 DEF OneTime
    <3>4. z.cand.at = c.at /\ z.row > x.row
      BY <2>1, <2>2, <3>1, <3>3
    <3>5. z = once /\ x = once
      BY <1>3, <2>1, <3>2, <3>4 DEF SameCandidate
    <3> QED
      BY <3>4, <3>5
  <2> QED
    BY <1>1, <2>1, <2>2
<1>5. ASSUME c \in LatestRows(known, by)
      PROVE  c \in S
  <2>1. PICK x \in known : x.cand = c /\ ~\E z \in known : SameCandidate(x.cand, z.cand) /\ Later(z, x)
    BY <1>1, <1>5
  <2>2. PICK d \in S : SameCandidate(c, d) /\ d.at >= c.at
    BY <2>1 DEF Covers
  <2>3. ~SpeedOfFix(d)
    BY <2>2 DEF SameCandidate, SpeedOfFix
  <2>4. PICK y \in known : y.cand = d
    BY <2>3 DEF FromRows
  <2>5. d.at = c.at
    BY <2>1, <2>2, <2>4
  <2>6. y = once /\ x = once
    BY <1>3, <2>1, <2>2, <2>4, <2>5 DEF SameCandidate
  <2> QED
    BY <2>1, <2>4, <2>6
<1> QED
  BY <1>4, <1>5

(* A source's last contact is the same as of now and as of any later time. *)
LEMMA SameContact ==
  ASSUME KeptTypeOK, PastInv, NEW c \in Said
  PROVE  InContact(c, clock) = InContact(c, MaxClock)
<1> DEFINE mine(by) == {i \in DOMAIN periods : periods[i].source = c.source /\ periods[i].started <= by}
           First(S) == CHOOSE i \in S : \A j \in S :
                         \/ periods[j].started < periods[i].started
                         \/ periods[j].started = periods[i].started /\ j <= i
<1>1. \A p \in Period : p.started \in 1..MaxClock /\ p.last \in 1..MaxClock
  BY DEF Period
<1>2. \A i \in DOMAIN periods : /\ periods[i].started \in 1..MaxClock /\ periods[i].started <= clock
                                /\ periods[i].last \in 1..MaxClock /\ periods[i].last <= clock
                                /\ i \in Nat /\ i <= Len(periods)
  BY <1>1 DEF KeptTypeOK, PastInv
<1>3. clock \in Nat /\ MaxClock \in Nat /\ clock <= MaxClock /\ Len(periods) \in Nat
  BY ReportAssumption DEF KeptTypeOK
<1>4. mine(clock) = mine(MaxClock)
  BY <1>2, <1>3
<1>5. LatestPeriod(c.source, clock) = LatestPeriod(c.source, MaxClock)
  <2>1. /\ LatestPeriod(c.source, clock) = IF mine(clock) = {} THEN 0 ELSE First(mine(clock))
        /\ LatestPeriod(c.source, MaxClock) = IF mine(MaxClock) = {} THEN 0 ELSE First(mine(MaxClock))
    BY DEF LatestPeriod
  <2> HIDE DEF mine, First
  <2> QED
    BY <1>4, <2>1
<1>6. PICK latest : latest = LatestPeriod(c.source, clock)
  OBVIOUS
<1>7. latest = 0 \/ latest \in DOMAIN periods
  <2>1. CASE mine(clock) = {}
    BY <1>6, <2>1 DEF LatestPeriod
  <2>2. CASE mine(clock) # {}
    <3> DEFINE starts == {periods[i].started : i \in mine(clock)}
    <3>1. starts \in SUBSET Nat /\ starts # {} /\ \A n \in starts : n <= clock
      BY <1>2, <2>2
    <3>2. PICK start \in starts : \A n \in starts : n <= start
      <4> HIDE DEF starts
      <4> QED
        BY <1>3, <3>1, GreatestNumber
    <3> DEFINE front == {i \in mine(clock) : periods[i].started = start}
    <3>3. front \in SUBSET Nat /\ front # {} /\ \A n \in front : n <= Len(periods)
      BY <1>2, <3>2
    <3>4. PICK i \in front : \A n \in front : n <= i
      <4> HIDE DEF front
      <4> QED
        BY <1>3, <3>3, GreatestNumber
    <3>5. ASSUME NEW j \in mine(clock)
          PROVE  \/ periods[j].started < periods[i].started
                 \/ periods[j].started = periods[i].started /\ j <= i
      <4>1. periods[j].started \in Nat /\ start \in Nat /\ periods[j].started <= start
        BY <3>1, <3>2
      <4>2. periods[j].started = start => j <= i
        BY <3>4
      <4> QED
        BY <3>4, <4>1, <4>2
    <3>6. First(mine(clock)) \in mine(clock)
      <4>1. i \in mine(clock)
        BY <3>4
      <4> HIDE DEF mine
      <4> QED
        BY <3>5, <4>1
    <3>7. latest = First(mine(clock))
      BY <1>6, <2>2 DEF LatestPeriod
    <3> QED
      BY <3>6, <3>7
  <2> QED
    BY <2>1, <2>2
<1>8. latest # 0 => Min({periods[latest].last, clock}) = Min({periods[latest].last, MaxClock})
  <2>1. SUFFICES ASSUME latest # 0
                 PROVE  Min({periods[latest].last, clock}) = Min({periods[latest].last, MaxClock})
    OBVIOUS
  <2>2. PICK last : last = periods[latest].last
    OBVIOUS
  <2>3. last \in Nat /\ last <= clock /\ last <= MaxClock
    BY <1>2, <1>3, <1>7, <2>1, <2>2
  <2>4. Min({last, clock}) = last /\ Min({last, MaxClock}) = last
    BY <1>3, <2>3, SmallerIsFirst
  <2> QED
    BY <2>2, <2>4
<1> QED
  BY <1>5, <1>6, <1>8 DEF InContact

(* Told of candidates and of rows, with the contact of their source, the   *)
(* same newest observations.                                               *)
LEMMA SidesAgree ==
  ASSUME KeptTypeOK, PastInv, NEW S \in SUBSET Said, NEW known, \A x \in known : x.cand \in Said /\ x.row \in Nat,
         \A x \in known : x.cand.at <= clock,
         FromRows(S, known), Covers(S, known), OneTime(S),
         NEW L, L = LatestRows(known, clock)
  PROVE  {c \in {InContact(d, clock) : d \in L} : NewestOnce(c, known) /\ ~SpeedOfFix(c)}
           = {c \in {InContact(d, MaxClock) : d \in S} : NewestOnce(c, known) /\ ~SpeedOfFix(c)}
<1>1. L \subseteq Said
  BY DEF LatestRows
<1>2. clock \in Nat /\ \A x \in known : x.cand.at \in Nat
  BY ReportAssumption, SaidIs DEF KeptTypeOK
<1>3. ASSUME NEW d \in Said, NewestOnce(d, known), ~SpeedOfFix(d)
      PROVE  d \in S <=> d \in L
  BY <1>2, <1>3, NewestAgree
<1>4. ASSUME NEW d \in Said, NEW c, c = InContact(d, MaxClock)
      PROVE  (NewestOnce(c, known) <=> NewestOnce(d, known)) /\ (SpeedOfFix(c) <=> SpeedOfFix(d))
  <2>1. c.source = d.source /\ c.key = d.key /\ c.channel = d.channel /\ c.at = d.at
    BY <1>4, ContactAside
  <2>2. \A y \in known : SameCandidate(y.cand, c) <=> SameCandidate(y.cand, d)
    BY <2>1 DEF SameCandidate
  <2>3. {y \in known : SameCandidate(y.cand, c) /\ y.cand.at = c.at}
          = {y \in known : SameCandidate(y.cand, d) /\ y.cand.at = d.at}
    BY <2>1, <2>2
  <2> QED
    BY <2>1, <2>3 DEF NewestOnce, SpeedOfFix
<1>5. \A d \in Said : InContact(d, clock) = InContact(d, MaxClock)
  BY SameContact
<1>6. ASSUME NEW d \in Said, NEW c, c = InContact(d, MaxClock), NewestOnce(c, known), ~SpeedOfFix(c)
      PROVE  d \in S <=> d \in L
  BY <1>3, <1>4, <1>6
<1> QED
  BY <1>1, <1>5, <1>6

-----------------------------------------------------------------------------
(* What a vehicle shows of a safety-sensitive metric is fresh, and a       *)
(* reading is fresh exactly when usable evidence for it is, whatever has   *)
(* been reported in whichever order (_choose and resolve_readings).        *)
THEOREM ReadingsExpire == ReconstructionSpec => []ExpiresToUnknown
<1>1. KeptInv => ExpiresToUnknown
  <2> SUFFICES ASSUME KeptInv
               PROVE  ExpiresToUnknown
    OBVIOUS
  <2>1. PICK C, now : C = LiveMetrics /\ now = clock
    OBVIOUS
  <2>2. Timed(C)
    <3>1. metricCand \subseteq Said
      BY DEF KeptInv, KeptTypeOK, Said
    <3>2. \A c \in metricCand : InContact(c, MaxClock).at \in 1..MaxClock /\ InContact(c, MaxClock).method = "direct"
      BY <3>1, ContactAside, SaidIs
    <3> QED
      BY <2>1, <3>2 DEF LiveMetrics, Timed
  <2>3. LiveReadings = resolve_readings(C, now)
    BY <2>1 DEF LiveReadings
  <2>4. ASSUME NEW r \in LiveReadings
        PROVE  /\ r.fresh <=> \E c \in LiveMetrics :
                                c.source = r.source /\ c.at = r.at /\ Fresh(c, clock) /\ c.value # NoValue
                                /\ c.key \in {r.key} \union
                                     (IF r.method = "derived" THEN {"battery.power", "charging.power"} ELSE {})
               /\ r.key \in SafetySensitive => r.fresh
               /\ r.key = "charging.power" /\ r.method = "derived"
                    => \E a \in LiveReadings : a.key = "charging.active" /\ a.value = 1 /\ a.fresh
    <3>1. Supported(r, C, now)
      BY <2>2, <2>3, ReadingsAreSupported
    <3>2. r.key = "charging.power" /\ r.method = "derived"
            => \E a \in LiveReadings : a.key = "charging.active" /\ a.value = 1 /\ a.fresh
      BY <2>2, <2>3, ReadingsAreSupported
    <3>3. Supported(r, LiveMetrics, clock)
      BY <2>1, <3>1
    <3> QED
      BY <3>2, <3>3 DEF Supported, Evidence
  <2> QED
    BY <2>4 DEF ExpiresToUnknown
<1> QED
  BY <1>1, KeptHolds, PTL

(* History asked for now and the live candidates hold the same newest      *)
(* observations, although one is ranked from rows and the other kept as    *)
(* samples arrive (_latest_metric_rows, _apply_metric_candidate).          *)
THEOREM HistoryAgrees == ReconstructionSpec => []HistoryAgreesWithLive
<1>1. KeptInv => HistoryAgreesWithLive
  <2> SUFFICES ASSUME KeptInv
               PROVE  HistoryAgreesWithLive
    OBVIOUS
  <2>1. /\ \A x \in MetricRows : x.cand \in Said /\ x.row \in Nat
        /\ \A x \in FixRows : x.cand \in Said /\ x.row \in Nat
    BY RowsAreSaid DEF KeptInv, Said
  <2>2. (\A x \in MetricRows : x.cand.at <= clock) /\ \A x \in FixRows : x.cand.at <= clock
    BY DEF KeptInv, PastInv, MetricRows, FixRows, Stored, Fix, Observed
  <2>3. metricCand \in SUBSET Said /\ fixCand \in SUBSET Said
    BY DEF KeptInv, KeptTypeOK, Said
  <2>4. KeptTypeOK /\ PastInv /\ NewestInv
    BY DEF KeptInv
  <2>5. PICK metrics, fixes : metrics = LatestRows(MetricRows, clock) /\ fixes = LatestRows(FixRows, clock)
    OBVIOUS
  <2>6. {c \in {InContact(d, clock) : d \in metrics} : NewestOnce(c, MetricRows) /\ ~SpeedOfFix(c)}
          = {c \in {InContact(d, MaxClock) : d \in metricCand} : NewestOnce(c, MetricRows) /\ ~SpeedOfFix(c)}
    BY <2>1, <2>2, <2>3, <2>4, <2>5, SidesAgree DEF NewestInv
  <2>7. {c \in {InContact(d, clock) : d \in fixes} : NewestOnce(c, FixRows) /\ ~SpeedOfFix(c)}
          = {c \in {InContact(d, MaxClock) : d \in fixCand} : NewestOnce(c, FixRows) /\ ~SpeedOfFix(c)}
    BY <2>1, <2>2, <2>3, <2>4, <2>5, SidesAgree DEF NewestInv
  <2> QED
    BY <2>5, <2>6, <2>7 DEF HistoryAgreesWithLive, candidate_state_at, LiveMetrics
<1> QED
  BY <1>1, KeptHolds, PTL

-----------------------------------------------------------------------------
(* Rows come in the order of their times.                                  *)
RowsInv ==
  /\ rows \in Seq(SegmentRow)
  /\ \A i, j \in DOMAIN rows : i <= j => rows[i].at <= rows[j].at

LEMMA RowsHold == SegmentsSpec => []RowsInv
<1>1. SegmentsInit => RowsInv
  BY DEF SegmentsInit, RowsInv
<1>2. ASSUME RowsInv, NEW kind \in RowKind, NEW gap \in Gap, Record_row(kind, gap)
      PROVE  RowsInv'
  <2>1. PICK n \in Nat : n = Len(rows)
    BY <1>2 DEF RowsInv
  <2>2. PICK start : start = IF n = 0 THEN 0 ELSE rows[n].at + gap
    OBVIOUS
  <2>3. PICK r : r = [kind EXCEPT !.at = start]
    OBVIOUS
  <2>4. \A i \in 1..n : rows[i] \in SegmentRow /\ rows[i].at \in Nat /\ rows[i].at <= start
    <3>1. \A i \in 1..n : rows[i] \in SegmentRow
      BY <1>2, <2>1 DEF RowsInv
    <3>2. \A i \in 1..n : rows[i].at \in Nat
      BY <3>1 DEF SegmentRow
    <3>3. \A i \in 1..n : rows[i].at <= rows[n].at
      BY <1>2, <2>1 DEF RowsInv
    <3>4. gap \in Nat
      BY RowAssumption
    <3> QED
      BY <2>1, <2>2, <3>1, <3>2, <3>3, <3>4
  <2>5. start \in Nat
    BY <2>1, <2>2, <2>4, RowAssumption
  <2>6. r \in SegmentRow /\ r.at = start
    BY <2>3, <2>5, RowAssumption DEF SegmentRow
  <2>7. rows' = Append(rows, r)
    BY <1>2, <2>1, <2>2, <2>3 DEF Record_row, RowsInv, Last
  <2>8. /\ rows' \in Seq(SegmentRow) /\ DOMAIN rows' = 1..(n + 1)
        /\ rows'[n + 1] = r /\ \A i \in 1..n : rows'[i] = rows[i]
    BY <1>2, <2>1, <2>6, <2>7 DEF RowsInv
  <2>9. ASSUME NEW i \in 1..(n + 1), NEW j \in 1..(n + 1), i <= j
        PROVE  rows'[i].at <= rows'[j].at
    <3>1. CASE j = n + 1 /\ i = n + 1
      BY <2>5, <2>6, <2>8, <3>1
    <3>2. CASE j = n + 1 /\ i \in 1..n
      BY <2>4, <2>6, <2>8, <3>2
    <3>3. CASE j \in 1..n /\ i \in 1..n
      BY <1>2, <2>1, <2>8, <2>9, <3>3 DEF RowsInv
    <3> QED
      BY <2>1, <2>9, <3>1, <3>2, <3>3
  <2> QED
    BY <2>8, <2>9 DEF RowsInv
<1>3. RowsInv /\ UNCHANGED rows => RowsInv'
  BY DEF RowsInv
<1>4. RowsInv /\ [SegmentsNext]_rows => RowsInv'
  BY <1>2, <1>3 DEF SegmentsNext
<1> QED
  BY <1>1, <1>4, PTL DEF SegmentsSpec

-----------------------------------------------------------------------------
(* The scans are defined on every list of rows.                            *)
NoDrives == [groups |-> <<>>, drive |-> Parked]
DriveScanTo(f, n) == f = [i \in 0..n |-> IF i = 0 THEN NoDrives ELSE GatherDrive(f[i - 1], i)]

LEMMA DriveScanIs ==
  ASSUME NEW n \in Nat, n = Len(rows)
  PROVE  /\ DriveScan[0] = NoDrives
         /\ \A i \in 1..n : DriveScan[i] = GatherDrive(DriveScan[i - 1], i)
<1> DEFINE T == {k \in Nat : ~\E f : DriveScanTo(f, k)}
<1>1. T = {}
  <2> SUFFICES ASSUME T # {}
               PROVE  FALSE
    OBVIOUS
  <2>1. PICK k \in T : \A l \in T : k <= l
    <3>1. T \in SUBSET Nat
      OBVIOUS
    <3> HIDE DEF T
    <3> QED
      BY <3>1, LeastNumber
  <2>2. CASE k = 0
    <3>1. DriveScanTo([i \in 0..0 |-> NoDrives], 0)
      BY DEF DriveScanTo
    <3> QED
      BY <2>2, <3>1
  <2>3. CASE k # 0
    <3>1. k - 1 \in Nat /\ k - 1 \notin T
      BY <2>1, <2>3
    <3>2. PICK f : DriveScanTo(f, k - 1)
      BY <3>1
    <3> DEFINE g == [i \in 0..k |-> IF i = k THEN GatherDrive(f[k - 1], k) ELSE f[i]]
    <3>3. \A i \in 0..(k - 1) : g[i] = f[i]
      BY <3>1
    <3>4. \A i \in 0..k : g[i] = IF i = 0 THEN NoDrives ELSE GatherDrive(g[i - 1], i)
      <4>1. g[k] = GatherDrive(g[k - 1], k)
        BY <3>1, <3>3
      <4>2. ASSUME NEW i \in 0..(k - 1)
            PROVE  g[i] = IF i = 0 THEN NoDrives ELSE GatherDrive(g[i - 1], i)
        <5>1. f[i] = IF i = 0 THEN NoDrives ELSE GatherDrive(f[i - 1], i)
          BY <3>1, <3>2 DEF DriveScanTo
        <5>2. i # 0 => g[i - 1] = f[i - 1]
          BY <3>1, <3>3
        <5> HIDE DEF g
        <5> QED
          BY <3>3, <5>1, <5>2
      <4> HIDE DEF g
      <4> QED
        BY <2>1, <2>3, <4>1, <4>2
    <3>5. DriveScanTo(g, k)
      <4>1. g = [i \in 0..k |-> g[i]]
        OBVIOUS
      <4> HIDE DEF g
      <4> QED
        BY <3>4, <4>1 DEF DriveScanTo
    <3> QED
      BY <2>1, <3>5
  <2> QED
    BY <2>2, <2>3
<1>2. PICK f : DriveScanTo(f, n)
  BY <1>1
<1>3. DriveScanTo(DriveScan, n)
  BY <1>2 DEF DriveScan, DriveScanTo, NoDrives
<1> QED
  BY <1>3 DEF DriveScanTo

-----------------------------------------------------------------------------
(* What the scan of drives knows after n rows: each group so far, the      *)
(* drive it gathers, and where any two readings in use with no parked one  *)
(* between them are kept.                                                  *)
Unbroken(i, j) == \A k \in i..j : DriveSignal(rows[k]) # 0
InUseWithin(i, j) == \E k \in i..j : DriveSignal(rows[k]) = 1
Span == [first : Nat, last : Nat]
DriveGroup(g) ==
  /\ 0 < g.first /\ g.first <= g.last /\ Unbroken(g.first, g.last - 1)
  /\ DriveSignal(rows[g.last]) = 0 => InUseWithin(g.first, g.last)
GroupsOK(gs, bound) ==
  /\ gs \in Seq(Span)
  /\ \A m \in DOMAIN gs : DriveGroup(gs[m]) /\ gs[m].last < bound
  /\ \A m \in DOMAIN gs : m > 1 => gs[m - 1].last < gs[m].first
Covered(gs, i, j) == \E m \in DOMAIN gs : gs[m].first <= i /\ j <= gs[m].last

CurrentOK(d, n) ==
  /\ d \in [first : 0..n, last : 0..n, bounded : BOOLEAN]
  /\ d.first = 0 => ~d.bounded
  /\ d.first # 0 => d.first <= d.last /\ Unbroken(d.first, n) /\ (d.bounded => InUseWithin(d.first, d.last))
OpenOK(d, n) ==
  \A i \in 1..n : DriveSignal(rows[i]) = 1 /\ Unbroken(i, n)
    => d.first # 0 /\ d.first <= i /\ i <= d.last /\ d.bounded
HeldOK(gs, d, n) ==
  \A i, j \in 1..n :
    i <= j /\ DriveSignal(rows[i]) = 1 /\ DriveSignal(rows[j]) = 1 /\ Unbroken(i, j)
      => Covered(gs, i, j) \/ (d.first # 0 /\ d.first <= i /\ j <= d.last)
DriveInv(acc, n) ==
  /\ GroupsOK(acc.groups, IF acc.drive.first = 0 THEN n + 1 ELSE acc.drive.first)
  /\ CurrentOK(acc.drive, n) /\ OpenOK(acc.drive, n) /\ HeldOK(acc.groups, acc.drive, n)

(* One group more, after those there are.                                  *)
LEMMA OneGroupMore ==
  ASSUME NEW gs, NEW bound \in Nat, GroupsOK(gs, bound), NEW g \in Span, DriveGroup(g), bound <= g.first,
         NEW next \in Nat, g.last < next
  PROVE  /\ GroupsOK(Append(gs, g), next)
         /\ \A i, j : Covered(gs, i, j) \/ (g.first <= i /\ j <= g.last) => Covered(Append(gs, g), i, j)
<1>1. PICK n \in Nat : n = Len(gs) /\ DOMAIN gs = 1..n
  BY DEF GroupsOK
<1>2. PICK hs : hs = Append(gs, g)
  OBVIOUS
<1>3. /\ hs \in Seq(Span) /\ DOMAIN hs = 1..(n + 1)
      /\ hs[n + 1] = g /\ \A m \in 1..n : hs[m] = gs[m]
  BY <1>1, <1>2 DEF GroupsOK
<1>4. \A m \in 1..n : gs[m].first \in Nat /\ gs[m].last \in Nat
  <2>1. \A m \in 1..n : gs[m] \in Span
    BY <1>1 DEF GroupsOK
  <2> QED
    BY <2>1 DEF Span
<1>5. g.first \in Nat /\ g.last \in Nat /\ g.first <= g.last
  BY DEF Span, DriveGroup
<1>6. \A m \in 1..n : DriveGroup(gs[m]) /\ gs[m].last < bound
  BY <1>1 DEF GroupsOK
<1>7. ASSUME NEW m \in DOMAIN hs
      PROVE  DriveGroup(hs[m]) /\ hs[m].last < next
  BY <1>3, <1>4, <1>5, <1>6
<1>8. ASSUME NEW m \in DOMAIN hs, m > 1
      PROVE  hs[m - 1].last < hs[m].first
  <2>1. CASE m = n + 1
    <3>1. m - 1 \in 1..n
      BY <1>1, <1>8, <2>1
    <3> QED
      BY <1>3, <1>4, <1>5, <1>6, <2>1, <3>1
  <2>2. CASE m # n + 1
    <3>1. m \in 1..n /\ m - 1 \in 1..n
      BY <1>1, <1>3, <1>8, <2>2
    <3> QED
      BY <1>1, <1>3, <1>8, <3>1 DEF GroupsOK
  <2> QED
    BY <2>1, <2>2
<1>9. ASSUME NEW i, NEW j, Covered(gs, i, j) \/ (g.first <= i /\ j <= g.last)
      PROVE  Covered(hs, i, j)
  <2>1. CASE Covered(gs, i, j)
    BY <1>1, <1>3, <2>1 DEF Covered
  <2>2. CASE g.first <= i /\ j <= g.last
    BY <1>1, <1>3, <2>2 DEF Covered
  <2> QED
    BY <1>9, <2>1, <2>2
<1> QED
  BY <1>2, <1>3, <1>7, <1>8, <1>9 DEF GroupsOK

LEMMA EndedIs ==
  ASSUME NEW T, NEW gs \in Seq(T), NEW d, NEW until, [first |-> d.first, last |-> until] \in T
  PROVE  gs \o Ended(d, until)
           = IF d.first = 0 THEN gs ELSE Append(gs, [first |-> d.first, last |-> until])
  BY DEF Ended
LEMMA NotEnded ==
  ASSUME NEW T, NEW gs \in Seq(T), NEW d, NEW until, d.first = 0
  PROVE  gs \o Ended(d, until) = gs
  BY DEF Ended

LEMMA GroupsLater ==
  ASSUME NEW gs, NEW b \in Nat, NEW c \in Nat, b <= c, GroupsOK(gs, b)
  PROVE  GroupsOK(gs, c)
<1>1. \A m \in DOMAIN gs : gs[m] \in Span
  BY DEF GroupsOK
<1>2. \A m \in DOMAIN gs : gs[m].last \in Nat
  BY <1>1 DEF Span
<1> QED
  BY <1>2 DEF GroupsOK

LEMMA DriveStarts == DriveInv(NoDrives, 0)
  BY DEF DriveInv, NoDrives, Parked, GroupsOK, CurrentOK, OpenOK, HeldOK, Span

(* Each row keeps it so.                                                   *)
LEMMA DriveGoesOn ==
  ASSUME NEW n \in Nat, NEW acc, DriveInv(acc, n)
  PROVE  DriveInv(GatherDrive(acc, n + 1), n + 1)
<1>1. PICK gs, d, k : gs = acc.groups /\ d = acc.drive /\ k = n + 1
  OBVIOUS
<1>2. /\ GroupsOK(gs, IF d.first = 0 THEN k ELSE d.first)
      /\ CurrentOK(d, n) /\ OpenOK(d, n) /\ HeldOK(gs, d, n)
  BY <1>1 DEF DriveInv
<1>3. /\ d.first \in 0..n /\ d.last \in 0..n /\ d.bounded \in BOOLEAN
      /\ d = [first |-> d.first, last |-> d.last, bounded |-> d.bounded]
  BY <1>2 DEF CurrentOK
<1>4. gs \in Seq(Span)
  BY <1>2 DEF GroupsOK
<1>5. k \in Nat /\ k > n /\ k # 0
  BY <1>1
<1>6. \A i \in 1..k, m \in 1..n : Unbroken(i, k) => Unbroken(i, m)
  BY <1>1 DEF Unbroken
<1>7. \A i \in 1..k : i # k => i \in 1..n
  BY <1>1
<1>8. PICK signal : signal = DriveSignal(rows[k])
  OBVIOUS
<1>9. \A i \in 1..k : Unbroken(i, k) => signal # 0
  BY <1>1, <1>8 DEF Unbroken
<1>10. \A i \in 1..k : Unbroken(i, n) /\ signal # 0 => Unbroken(i, k)
  BY <1>1, <1>8 DEF Unbroken
<1>11. d.first # 0 => d.first \in 1..n /\ d.last \in 1..n /\ [first |-> d.first, last |-> d.last] \in Span
  BY <1>2, <1>3 DEF CurrentOK, Span
<1>12. d.first # 0 => DriveGroup([first |-> d.first, last |-> d.last])
  <2>1. CASE d.first # 0
    <3>1. Unbroken(d.first, n) /\ d.first <= d.last
      BY <1>2, <2>1 DEF CurrentOK
    <3>2. Unbroken(d.first, d.last - 1) /\ DriveSignal(rows[d.last]) # 0
      BY <1>3, <3>1 DEF Unbroken
    <3> QED
      BY <1>11, <2>1, <3>1, <3>2 DEF DriveGroup
  <2> QED
    BY <2>1
<1>13. CASE signal = 0
  <2>1. PICK until : until = IF d.bounded THEN k ELSE d.last
    OBVIOUS
  <2>2. PICK hs : hs = gs \o Ended(d, until)
    OBVIOUS
  <2>3. GatherDrive(acc, k) = [groups |-> hs, drive |-> Parked]
    BY <1>1, <1>8, <1>13, <2>1, <2>2 DEF GatherDrive
  <2>4. \A i, j \in 1..k : i <= j /\ DriveSignal(rows[i]) = 1 /\ DriveSignal(rows[j]) = 1 => i \in 1..n /\ j \in 1..n
    <3>1. \A i \in 1..k : DriveSignal(rows[i]) = 1 => i \in 1..n
      <4>1. ASSUME NEW i \in 1..k, DriveSignal(rows[i]) = 1
            PROVE  i \in 1..n
        <5>1. signal # 1
          BY <1>13
        <5>2. i # k
          BY <1>8, <4>1, <5>1, Zenon
        <5> QED
          BY <1>7, <5>2
      <4> QED
        BY <4>1
    <3> QED
      BY <3>1, Zenon
  <2>5. GroupsOK(hs, k + 1) /\ HeldOK(hs, Parked, k)
    <3>1. CASE d.first = 0
      <4>1. hs = gs
        BY <1>4, <2>2, <3>1, NotEnded
      <4>2. GroupsOK(gs, k + 1)
        BY <1>2, <1>5, <3>1, GroupsLater
      <4>3. HeldOK(gs, Parked, k)
        BY <1>2, <2>4, <3>1 DEF HeldOK
      <4> QED
        BY <4>1, <4>2, <4>3
    <3>2. CASE d.first # 0
      <4>1. PICK g : g = [first |-> d.first, last |-> until]
        OBVIOUS
      <4>2. g \in Span /\ g.first = d.first /\ g.last = until /\ until < k + 1 /\ d.last <= until
        BY <1>5, <1>11, <2>1, <3>2, <4>1 DEF Span
      <4>3. DriveGroup(g)
        <5>1. CASE d.bounded
          <6>1. Unbroken(d.first, n) /\ InUseWithin(d.first, d.last) /\ d.first <= d.last
            BY <1>2, <3>2, <5>1 DEF CurrentOK
          <6>2. InUseWithin(d.first, k)
            BY <1>1, <1>11, <3>2, <6>1 DEF InUseWithin
          <6>3. k - 1 = n /\ d.first <= k /\ 0 < d.first
            BY <1>1, <1>11, <3>2
          <6> QED
            BY <2>1, <4>2, <5>1, <6>1, <6>2, <6>3 DEF DriveGroup
        <5>2. CASE ~d.bounded
          BY <1>12, <2>1, <3>2, <4>1, <5>2
        <5> QED
          BY <5>1, <5>2
      <4>4. hs = Append(gs, g)
        BY <1>4, <2>2, <3>2, <4>1, <4>2, EndedIs
      <4>5. /\ GroupsOK(Append(gs, g), k + 1)
            /\ \A i, j : Covered(gs, i, j) \/ (g.first <= i /\ j <= g.last) => Covered(Append(gs, g), i, j)
        <5>1. d.first \in Nat /\ GroupsOK(gs, d.first) /\ k + 1 \in Nat /\ d.first <= g.first
          BY <1>2, <1>5, <1>11, <3>2, <4>2
        <5> QED
          BY <4>2, <4>3, <5>1, OneGroupMore
      <4>6. HeldOK(hs, Parked, k)
        <5>1. \A i, j \in 1..k : d.first <= i /\ j <= d.last => g.first <= i /\ j <= g.last
          BY <1>5, <1>11, <2>1, <3>2, <4>2
        <5> QED
          BY <1>2, <2>4, <4>4, <4>5, <5>1 DEF HeldOK
      <4> QED
        BY <4>4, <4>5, <4>6
    <3> QED
      BY <3>1, <3>2
  <2>6. CurrentOK(Parked, k) /\ OpenOK(Parked, k) /\ Parked.first = 0
    BY <1>9, <1>5, <1>13 DEF CurrentOK, OpenOK, Parked
  <2> QED
    BY <1>1, <2>3, <2>5, <2>6 DEF DriveInv
<1>14. CASE signal # 0 /\ ~Active(k)
  <2>1. signal # 1
    BY <1>8, <1>14 DEF Active
  <2>2. GatherDrive(acc, k) = acc
    BY <1>8, <1>14 DEF GatherDrive
  <2>3. GroupsOK(gs, IF d.first = 0 THEN k + 1 ELSE d.first)
    BY <1>2, <1>5, GroupsLater
  <2>4. CurrentOK(d, k)
    <3>1. d.first # 0 => Unbroken(d.first, k)
      BY <1>1, <1>2, <1>10, <1>11, <1>14 DEF CurrentOK
    <3> QED
      BY <1>1, <1>2, <1>3, <3>1 DEF CurrentOK
  <2>5. OpenOK(d, k)
    BY <1>2, <1>6, <1>7, <1>8, <2>1 DEF OpenOK
  <2>6. HeldOK(gs, d, k)
    BY <1>2, <1>7, <1>8, <2>1 DEF HeldOK
  <2> QED
    BY <1>1, <2>2, <2>3, <2>4, <2>5, <2>6 DEF DriveInv
<1>15. CASE signal # 0 /\ Active(k) /\ ~Splits(d, k)
  <2>1. PICK e : e = [first   |-> IF d.first = 0 THEN k ELSE d.first,
                      last    |-> k,
                      bounded |-> d.bounded \/ signal = 1]
    OBVIOUS
  <2>2. GatherDrive(acc, k) = [groups |-> gs, drive |-> e]
    BY <1>1, <1>4, <1>8, <1>15, <2>1, ConcatEmptySeq DEF GatherDrive
  <2>3. /\ e.first \in 1..k /\ e.last = k /\ e.bounded = (d.bounded \/ signal = 1)
        /\ e.first = IF d.first = 0 THEN k ELSE d.first
        /\ e \in [first : 0..k, last : 0..k, bounded : BOOLEAN]
    BY <1>1, <1>3, <1>5, <2>1
  <2>4. GroupsOK(gs, e.first)
    BY <1>2, <2>3
  <2>5. Unbroken(e.first, k)
    <3>1. CASE d.first = 0
      BY <1>5, <1>8, <1>15, <2>3, <3>1 DEF Unbroken
    <3>2. CASE d.first # 0
      BY <1>2, <1>10, <1>15, <2>3, <3>2 DEF CurrentOK
    <3> QED
      BY <3>1, <3>2
  <2>6. e.bounded => InUseWithin(e.first, k)
    <3>1. CASE signal = 1
      <4>1. k \in e.first..k /\ DriveSignal(rows[k]) = 1
        BY <1>5, <1>8, <2>3, <3>1
      <4> QED
        BY <4>1 DEF InUseWithin
    <3>2. CASE d.bounded
      <4>1. d.first # 0 /\ InUseWithin(d.first, d.last)
        BY <1>2, <3>2 DEF CurrentOK
      <4> QED
        BY <1>1, <1>11, <2>3, <4>1 DEF InUseWithin
    <3> QED
      BY <2>3, <3>1, <3>2
  <2>7. CurrentOK(e, k)
    BY <2>3, <2>5, <2>6 DEF CurrentOK
  <2>8. OpenOK(e, k)
    <3>1. ASSUME NEW i \in 1..k, DriveSignal(rows[i]) = 1, Unbroken(i, k)
          PROVE  e.first <= i /\ i <= k /\ e.bounded
      <4>1. CASE i = k
        BY <1>8, <2>3, <3>1, <4>1
      <4>2. CASE i # k
        <5>1. i \in 1..n /\ Unbroken(i, n)
          BY <1>10, <1>7, <3>1, <4>2, <1>1 DEF Unbroken
        <5>2. d.first # 0 /\ d.first <= i /\ d.bounded
          BY <1>2, <3>1, <5>1 DEF OpenOK
        <5> QED
          BY <2>3, <5>2, <3>1
      <4> QED
        BY <4>1, <4>2
    <3> QED
      BY <2>3, <3>1 DEF OpenOK
  <2>9. HeldOK(gs, e, k)
    <3>1. ASSUME NEW i \in 1..k, NEW j \in 1..k, i <= j, DriveSignal(rows[i]) = 1, DriveSignal(rows[j]) = 1,
                 Unbroken(i, j)
          PROVE  Covered(gs, i, j) \/ (e.first <= i /\ j <= e.last)
      <4>1. CASE j = k
        <5>1. e.first <= i
          BY <2>8, <3>1, <4>1 DEF OpenOK
        <5> QED
          BY <2>3, <4>1, <5>1
      <4>2. CASE j # k
        <5>1. i \in 1..n /\ j \in 1..n
          BY <1>1, <3>1, <4>2
        <5>2. Covered(gs, i, j) \/ (d.first # 0 /\ d.first <= i /\ j <= d.last)
          BY <1>2, <3>1, <5>1 DEF HeldOK
        <5> QED
          BY <2>3, <5>2, <3>1
      <4> QED
        BY <4>1, <4>2
    <3> QED
      BY <2>3, <3>1 DEF HeldOK
  <2> QED
    BY <1>1, <2>2, <2>3, <2>4, <2>7, <2>8, <2>9 DEF DriveInv
<1>16. CASE signal # 0 /\ Active(k) /\ Splits(d, k)
  <2>1. PICK e : e = [first |-> k, last |-> k, bounded |-> d.bounded \/ signal = 1]
    OBVIOUS
  <2>2. PICK g : g = [first |-> d.first, last |-> d.last]
    OBVIOUS
  <2>3. d.first # 0 /\ ~d.bounded
    BY <1>16 DEF Splits
  <2>4. gs \o Ended(d, d.last) = Append(gs, g)
    BY <1>4, <1>11, <2>2, <2>3, EndedIs
  <2>5. PICK hs : hs = Append(gs, g)
    OBVIOUS
  <2>6. GatherDrive(acc, k) = [groups |-> hs, drive |-> e]
    BY <1>1, <1>8, <1>16, <2>1, <2>4, <2>5 DEF GatherDrive
  <2>7. e.first = k /\ e.last = k /\ e.bounded = (signal = 1) /\ e \in [first : 0..k, last : 0..k, bounded : BOOLEAN]
    BY <1>5, <2>1, <2>3
  <2>8. /\ GroupsOK(hs, k)
        /\ \A i, j : Covered(gs, i, j) \/ (d.first <= i /\ j <= d.last) => Covered(hs, i, j)
    <3>1. /\ g \in Span /\ DriveGroup(g) /\ g.first = d.first /\ g.last = d.last
          /\ d.first \in Nat /\ GroupsOK(gs, d.first) /\ d.first <= g.first /\ g.last < k
      BY <1>1, <1>2, <1>11, <1>12, <2>2, <2>3
    <3> QED
      BY <1>5, <2>5, <3>1, OneGroupMore
  <2>9. CurrentOK(e, k)
    BY <1>5, <1>8, <1>16, <2>7 DEF CurrentOK, Unbroken, InUseWithin
  <2>10. ASSUME NEW i \in 1..k, DriveSignal(rows[i]) = 1, Unbroken(i, k)
         PROVE  i = k
    <3>1. CASE i # k
      <4>1. i \in 1..n /\ Unbroken(i, n)
        BY <1>7, <2>10, <3>1, <1>1 DEF Unbroken
      <4> QED
        BY <1>2, <2>3, <2>10, <4>1 DEF OpenOK
    <3> QED
      BY <3>1
  <2>11. OpenOK(e, k)
    BY <1>5, <1>8, <2>7, <2>10 DEF OpenOK
  <2>12. HeldOK(hs, e, k)
    <3>1. ASSUME NEW i \in 1..k, NEW j \in 1..k, i <= j, DriveSignal(rows[i]) = 1, DriveSignal(rows[j]) = 1,
                 Unbroken(i, j)
          PROVE  Covered(hs, i, j) \/ (k <= i /\ j <= k)
      <4>1. CASE j = k
        BY <1>1, <2>10, <3>1, <4>1
      <4>2. CASE j # k
        <5>1. i \in 1..n /\ j \in 1..n
          BY <1>1, <3>1, <4>2
        <5>2. Covered(gs, i, j) \/ (d.first # 0 /\ d.first <= i /\ j <= d.last)
          BY <1>2, <3>1, <5>1 DEF HeldOK
        <5> QED
          BY <2>8, <5>2
      <4> QED
        BY <4>1, <4>2
    <3> QED
      BY <1>5, <2>7, <3>1 DEF HeldOK
  <2> QED
    BY <1>1, <1>5, <2>6, <2>7, <2>8, <2>9, <2>11, <2>12 DEF DriveInv
<1> QED
  BY <1>13, <1>14, <1>15, <1>16, <1>1

LEMMA DriveScanOK ==
  ASSUME NEW n \in Nat, n = Len(rows)
  PROVE  \A i \in 0..n : DriveInv(DriveScan[i], i)
<1> DEFINE T == {i \in 0..n : ~DriveInv(DriveScan[i], i)}
<1>1. ASSUME T # {}
      PROVE  FALSE
  <2>1. PICK i \in T : \A j \in T : i <= j
    <3>1. T \in SUBSET Nat
      OBVIOUS
    <3> HIDE DEF T
    <3> QED
      BY <1>1, <3>1, LeastNumber
  <2>2. i # 0
    BY <2>1, DriveScanIs, DriveStarts
  <2>3. i - 1 \in Nat /\ i \in 1..n /\ (i - 1) + 1 = i
    BY <2>2
  <2>4. i - 1 \notin T
    <3> HIDE DEF T
    <3> QED
      BY <2>1, <2>3
  <2>5. DriveInv(DriveScan[i - 1], i - 1)
    BY <2>3, <2>4
  <2>6. DriveInv(GatherDrive(DriveScan[i - 1], i), i)
    BY <2>3, <2>5, DriveGoesOn
  <2>7. DriveScan[i] = GatherDrive(DriveScan[i - 1], i)
    BY <2>3, DriveScanIs
  <2> QED
    BY <2>6, <2>7
<1> QED
  BY <1>1

(* So are the drives of all rows.                                          *)
LEMMA DriveGroupsOK ==
  ASSUME rows \in Seq(SegmentRow), NEW n \in Nat, n = Len(rows)
  PROVE  /\ GroupsOK(DriveGroups, n + 1)
         /\ \A i, j \in 1..n : i <= j /\ DriveSignal(rows[i]) = 1 /\ DriveSignal(rows[j]) = 1 /\ Unbroken(i, j)
              => Covered(DriveGroups, i, j)
<1>1. PICK gs, d : gs = DriveScan[n].groups /\ d = DriveScan[n].drive
  OBVIOUS
<1>2. GroupsOK(gs, IF d.first = 0 THEN n + 1 ELSE d.first) /\ CurrentOK(d, n) /\ HeldOK(gs, d, n)
  BY <1>1, DriveScanOK DEF DriveInv
<1>3. DriveGroups = gs \o Ended(d, d.last)
  BY <1>1 DEF DriveGroups
<1>4. gs \in Seq(Span)
  BY <1>2 DEF GroupsOK
<1>5. CASE d.first = 0
  <2>1. DriveGroups = gs
    BY <1>3, <1>4, <1>5, NotEnded
  <2> QED
    BY <1>2, <1>5, <2>1 DEF HeldOK
<1>6. CASE d.first # 0
  <2>1. PICK g : g = [first |-> d.first, last |-> d.last]
    OBVIOUS
  <2>2. /\ d.first \in 1..n /\ d.last \in 1..n /\ g \in Span /\ g.first = d.first /\ g.last = d.last
        /\ d.first <= d.last /\ Unbroken(d.first, n)
    BY <1>2, <1>6, <2>1 DEF CurrentOK, Span
  <2>3. Unbroken(d.first, d.last - 1) /\ DriveSignal(rows[d.last]) # 0
    BY <2>2 DEF Unbroken
  <2>4. DriveGroup(g)
    BY <2>2, <2>3 DEF DriveGroup
  <2>5. DriveGroups = Append(gs, g)
    BY <1>3, <1>4, <1>6, <2>1, <2>2, EndedIs
  <2>6. /\ GroupsOK(Append(gs, g), n + 1)
        /\ \A i, j : Covered(gs, i, j) \/ (g.first <= i /\ j <= g.last) => Covered(Append(gs, g), i, j)
    <3>1. d.first \in Nat /\ GroupsOK(gs, d.first) /\ n + 1 \in Nat /\ d.first <= g.first /\ g.last < n + 1
      BY <1>2, <1>6, <2>2
    <3> QED
      BY <2>2, <2>4, <3>1, OneGroupMore
  <2> QED
    BY <1>2, <2>2, <2>5, <2>6 DEF HeldOK
<1> QED
  BY <1>5, <1>6

THEOREM LifecycleHolds == SegmentsSpec => []DrivesFollowLifecycle
<1>1. RowsInv => DrivesFollowLifecycle
  <2> SUFFICES ASSUME RowsInv
               PROVE  DrivesFollowLifecycle
    OBVIOUS
  <2>1. PICK n \in Nat : n = Len(rows) /\ DOMAIN rows = 1..n
    BY DEF RowsInv
  <2>2. PICK gs : gs = DriveGroups
    OBVIOUS
  <2>3. /\ GroupsOK(gs, n + 1)
        /\ \A i, j \in 1..n : i <= j /\ DriveSignal(rows[i]) = 1 /\ DriveSignal(rows[j]) = 1 /\ Unbroken(i, j)
              => Covered(gs, i, j)
    BY <2>1, <2>2, DriveGroupsOK DEF RowsInv
  <2>4. ASSUME NEW i \in DOMAIN rows, NEW j \in DOMAIN rows, i <= j, DriveSignal(rows[i]) = 1,
               DriveSignal(rows[j]) = 1, \A k \in i..j : DriveSignal(rows[k]) # 0
        PROVE  \E m \in DOMAIN gs : gs[m].first <= i /\ j <= gs[m].last
    BY <2>1, <2>3, <2>4 DEF Covered, Unbroken
  <2>5. ASSUME NEW m \in DOMAIN gs
        PROVE  /\ \A i \in gs[m].first..(gs[m].last - 1) : DriveSignal(rows[i]) # 0
               /\ DriveSignal(rows[gs[m].last]) = 0
                    => \E i \in gs[m].first..gs[m].last : DriveSignal(rows[i]) = 1
               /\ m > 1 => gs[m - 1].last < gs[m].first
    <3>1. DriveGroup(gs[m]) /\ (m > 1 => gs[m - 1].last < gs[m].first)
      BY <2>3 DEF GroupsOK
    <3> QED
      BY <3>1 DEF DriveGroup, Unbroken, InUseWithin
  <2> QED
    BY <2>2, <2>4, <2>5 DEF DrivesFollowLifecycle
<1> QED
  BY <1>1, RowsHold, PTL

-----------------------------------------------------------------------------
(* What the scan of charges knows after n rows: within a charge no reading *)
(* but the one that ends it says that the vehicle does not charge.         *)
ChargeGoesOn(i, j) == \A k \in i..j : ChargeSignal(rows[k]) # 0
ChargeGroup(g) == 0 < g.first /\ g.first <= g.last /\ ChargeGoesOn(g.first, g.last - 1)
ChargeInv(acc, n) ==
  /\ acc.groups \in Seq(Span) /\ acc.charge \in [first : 0..n, last : 0..n]
  /\ \A m \in DOMAIN acc.groups : ChargeGroup(acc.groups[m]) /\ acc.groups[m].last <= n
  /\ acc.charge.first # 0 => acc.charge.first <= acc.charge.last /\ ChargeGoesOn(acc.charge.first, n)

LEMMA ChargeEnds ==
  ASSUME NEW gs \in Seq(Span), NEW c, NEW until \in Nat, NEW n \in Nat,
         \A m \in DOMAIN gs : ChargeGroup(gs[m]) /\ gs[m].last <= n,
         c.first # 0 => c.first \in Nat /\ c.first <= until /\ until <= n /\ ChargeGoesOn(c.first, until - 1)
  PROVE  /\ gs \o Ended(c, until) \in Seq(Span)
         /\ \A m \in DOMAIN (gs \o Ended(c, until)) :
              ChargeGroup((gs \o Ended(c, until))[m]) /\ (gs \o Ended(c, until))[m].last <= n
<1>1. CASE c.first = 0
  BY <1>1, NotEnded
<1>2. CASE c.first # 0
  <2>1. PICK g : g = [first |-> c.first, last |-> until]
    OBVIOUS
  <2>2. g \in Span /\ ChargeGroup(g) /\ g.last <= n
    BY <1>2, <2>1 DEF Span, ChargeGroup
  <2>3. gs \o Ended(c, until) = Append(gs, g)
    BY <1>2, <2>1, <2>2, EndedIs
  <2>4. PICK hs : hs = Append(gs, g)
    OBVIOUS
  <2>5. /\ hs \in Seq(Span) /\ DOMAIN hs = 1..(Len(gs) + 1) /\ hs[Len(gs) + 1] = g
        /\ DOMAIN gs = 1..Len(gs) /\ Len(gs) \in Nat /\ \A m \in 1..Len(gs) : hs[m] = gs[m]
    BY <2>2, <2>4
  <2>6. \A m \in DOMAIN hs : ChargeGroup(hs[m]) /\ hs[m].last <= n
    <3>1. ASSUME NEW m \in DOMAIN hs
          PROVE  ChargeGroup(hs[m]) /\ hs[m].last <= n
      <4>1. CASE m = Len(gs) + 1
        BY <2>2, <2>5, <4>1
      <4>2. CASE m \in 1..Len(gs)
        BY <2>5, <4>2
      <4> QED
        BY <2>5, <3>1, <4>1, <4>2
    <3> QED
      BY <3>1
  <2> QED
    BY <2>3, <2>4, <2>5, <2>6
<1> QED
  BY <1>1, <1>2

NoCharges == [groups |-> <<>>, charge |-> NoCharge]
ChargeScanTo(f, n) == f = [i \in 0..n |-> IF i = 0 THEN NoCharges ELSE GatherCharge(f[i - 1], i)]

LEMMA ChargeScanIs ==
  ASSUME NEW n \in Nat, n = Len(rows)
  PROVE  /\ ChargeScan[0] = NoCharges
         /\ \A i \in 1..n : ChargeScan[i] = GatherCharge(ChargeScan[i - 1], i)
<1> DEFINE T == {k \in Nat : ~\E f : ChargeScanTo(f, k)}
<1>1. T = {}
  <2> SUFFICES ASSUME T # {}
               PROVE  FALSE
    OBVIOUS
  <2>1. PICK k \in T : \A l \in T : k <= l
    <3>1. T \in SUBSET Nat
      OBVIOUS
    <3> HIDE DEF T
    <3> QED
      BY <3>1, LeastNumber
  <2>2. CASE k = 0
    <3>1. ChargeScanTo([i \in 0..0 |-> NoCharges], 0)
      BY DEF ChargeScanTo
    <3> QED
      BY <2>2, <3>1
  <2>3. CASE k # 0
    <3>1. k - 1 \in Nat /\ k - 1 \notin T
      BY <2>1, <2>3
    <3>2. PICK f : ChargeScanTo(f, k - 1)
      BY <3>1
    <3> DEFINE g == [i \in 0..k |-> IF i = k THEN GatherCharge(f[k - 1], k) ELSE f[i]]
    <3>3. \A i \in 0..(k - 1) : g[i] = f[i]
      BY <3>1
    <3>4. \A i \in 0..k : g[i] = IF i = 0 THEN NoCharges ELSE GatherCharge(g[i - 1], i)
      <4>1. g[k] = GatherCharge(g[k - 1], k)
        BY <3>1, <3>3
      <4>2. ASSUME NEW i \in 0..(k - 1)
            PROVE  g[i] = IF i = 0 THEN NoCharges ELSE GatherCharge(g[i - 1], i)
        <5>1. f[i] = IF i = 0 THEN NoCharges ELSE GatherCharge(f[i - 1], i)
          BY <3>1, <3>2 DEF ChargeScanTo
        <5>2. i # 0 => g[i - 1] = f[i - 1]
          BY <3>1, <3>3
        <5> HIDE DEF g
        <5> QED
          BY <3>3, <5>1, <5>2
      <4> HIDE DEF g
      <4> QED
        BY <2>1, <2>3, <4>1, <4>2
    <3>5. ChargeScanTo(g, k)
      <4>1. g = [i \in 0..k |-> g[i]]
        OBVIOUS
      <4> HIDE DEF g
      <4> QED
        BY <3>4, <4>1 DEF ChargeScanTo
    <3> QED
      BY <2>1, <3>5
  <2> QED
    BY <2>2, <2>3
<1>2. PICK f : ChargeScanTo(f, n)
  BY <1>1
<1>3. ChargeScanTo(ChargeScan, n)
  BY <1>2 DEF ChargeScan, ChargeScanTo, NoCharges
<1> QED
  BY <1>3 DEF ChargeScanTo


LEMMA ChargeStep ==
  ASSUME NEW n \in Nat, NEW acc, ChargeInv(acc, n)
  PROVE  ChargeInv(GatherCharge(acc, n + 1), n + 1)
<1>1. PICK gs, c, k : gs = acc.groups /\ c = acc.charge /\ k = n + 1
  OBVIOUS
<1>2. /\ gs \in Seq(Span) /\ c \in [first : 0..n, last : 0..n]
      /\ \A m \in DOMAIN gs : ChargeGroup(gs[m]) /\ gs[m].last <= n
      /\ c.first # 0 => c.first <= c.last /\ ChargeGoesOn(c.first, n)
  BY <1>1 DEF ChargeInv
<1>3. \A m \in DOMAIN gs : gs[m].last <= k
  <2>1. \A m \in DOMAIN gs : gs[m] \in Span
    BY <1>2
  <2>2. \A m \in DOMAIN gs : gs[m].last \in Nat
    BY <2>1 DEF Span
  <2> QED
    BY <1>1, <1>2, <2>2
<1>4. PICK signal : signal = ChargeSignal(rows[k])
  OBVIOUS
<1>5. \A i \in 1..k : ChargeGoesOn(i, n) /\ signal # 0 => ChargeGoesOn(i, k)
  BY <1>1, <1>4 DEF ChargeGoesOn
<1>6. CASE signal = 1
  <2>1. PICK e : e = [first |-> IF c.first = 0 THEN k ELSE c.first, last |-> k]
    OBVIOUS
  <2>2. GatherCharge(acc, k) = [groups |-> gs, charge |-> e]
    BY <1>1, <1>4, <1>6, <2>1 DEF GatherCharge
  <2>3. e \in [first : 0..k, last : 0..k] /\ e.first \in 1..k /\ e.last = k
        /\ e.first = IF c.first = 0 THEN k ELSE c.first
    BY <1>1, <1>2, <2>1
  <2>4. ChargeGoesOn(e.first, k)
    <3>1. CASE c.first = 0
      <4>1. \A i \in k..k : i = k
        BY <1>1
      <4>2. ChargeSignal(rows[k]) # 0
        BY <1>4, <1>6
      <4> QED
        BY <2>3, <3>1, <4>1, <4>2 DEF ChargeGoesOn
    <3>2. CASE c.first # 0
      BY <1>1, <1>2, <1>5, <1>6, <2>3, <3>2
    <3> QED
      BY <3>1, <3>2
  <2> QED
    BY <1>1, <1>2, <1>3, <2>2, <2>3, <2>4 DEF ChargeInv
<1>7. CASE signal = 0
  <2>1. GatherCharge(acc, k) = [groups |-> gs \o Ended(c, k), charge |-> NoCharge]
    BY <1>1, <1>4, <1>7 DEF GatherCharge
  <2>2. c.first # 0 => c.first \in Nat /\ c.first <= k /\ k \in Nat /\ ChargeGoesOn(c.first, k - 1)
    BY <1>1, <1>2
  <2>3. PICK hs : hs = gs \o Ended(c, k)
    OBVIOUS
  <2>4. hs \in Seq(Span) /\ \A m \in DOMAIN hs : ChargeGroup(hs[m]) /\ hs[m].last <= k
    <3>1. /\ k \in Nat /\ gs \in Seq(Span) /\ \A m \in DOMAIN gs : ChargeGroup(gs[m]) /\ gs[m].last <= k
          /\ c.first # 0 => c.first \in Nat /\ c.first <= k /\ k <= k /\ ChargeGoesOn(c.first, k - 1)
      BY <1>1, <1>2, <1>3, <2>2
    <3>2. /\ gs \o Ended(c, k) \in Seq(Span)
          /\ \A m \in DOMAIN (gs \o Ended(c, k)) :
               ChargeGroup((gs \o Ended(c, k))[m]) /\ (gs \o Ended(c, k))[m].last <= k
      BY <3>1, ChargeEnds
    <3> QED
      BY <2>3, <3>2
  <2>5. PICK next : next = GatherCharge(acc, k)
    OBVIOUS
  <2>6. next.groups = hs /\ next.charge = NoCharge
    BY <2>1, <2>3, <2>5
  <2>7. NoCharge \in [first : 0..k, last : 0..k] /\ NoCharge.first = 0
    BY <1>1 DEF NoCharge
  <2>8. ChargeInv(next, k)
    BY <2>4, <2>6, <2>7 DEF ChargeInv
  <2> QED
    BY <1>1, <2>5, <2>8
<1>8. CASE signal # 0 /\ signal # 1
  <2>1. GatherCharge(acc, k) = acc
    BY <1>1, <1>4, <1>8 DEF GatherCharge
  <2>2. c.first # 0 => ChargeGoesOn(c.first, k)
    BY <1>1, <1>2, <1>5, <1>8
  <2> QED
    BY <1>1, <1>2, <1>3, <2>1, <2>2 DEF ChargeInv
<1> QED
  BY <1>1, <1>6, <1>7, <1>8

LEMMA ChargeGroupsOK ==
  ASSUME NEW n \in Nat, n = Len(rows)
  PROVE  \A m \in DOMAIN ChargeGroups : ChargeGroup(ChargeGroups[m]) /\ ChargeGroups[m].last <= n
                                        /\ ChargeGroups[m] \in Span
<1> DEFINE T == {i \in 0..n : ~ChargeInv(ChargeScan[i], i)}
<1>1. T = {}
  <2>1. ASSUME T # {}
        PROVE  FALSE
    <3>1. PICK i \in T : \A j \in T : i <= j
      <4>1. T \in SUBSET Nat
        OBVIOUS
      <4> HIDE DEF T
      <4> QED
        BY <2>1, <4>1, LeastNumber
    <3>2. ChargeInv(NoCharges, 0)
      BY DEF ChargeInv, NoCharges, NoCharge
    <3>3. i # 0
      BY <3>1, <3>2, ChargeScanIs
    <3>4. i - 1 \in Nat /\ i \in 1..n /\ (i - 1) + 1 = i
      BY <3>3
    <3>5. i - 1 \notin T
      <4> HIDE DEF T
      <4> QED
        BY <3>1, <3>4
    <3>6. ChargeInv(GatherCharge(ChargeScan[i - 1], i), i)
      BY <3>4, <3>5, ChargeStep
    <3>7. ChargeScan[i] = GatherCharge(ChargeScan[i - 1], i)
      BY <3>4, ChargeScanIs
    <3> QED
      BY <3>6, <3>7
  <2> QED
    BY <2>1
<1>2. PICK gs, c : gs = ChargeScan[n].groups /\ c = ChargeScan[n].charge
  OBVIOUS
<1>3. /\ gs \in Seq(Span) /\ c \in [first : 0..n, last : 0..n]
      /\ \A m \in DOMAIN gs : ChargeGroup(gs[m]) /\ gs[m].last <= n
      /\ c.first # 0 => c.first <= c.last /\ ChargeGoesOn(c.first, n)
  <2>1. ChargeInv(ChargeScan[n], n)
    BY <1>1
  <2> QED
    BY <1>2, <2>1 DEF ChargeInv
<1>4. ChargeGroups = gs \o Ended(c, c.last)
  BY <1>2 DEF ChargeGroups
<1>5. c.first # 0 => c.first \in Nat /\ c.first <= c.last /\ c.last <= n /\ ChargeGoesOn(c.first, c.last - 1)
  BY <1>3 DEF ChargeGoesOn
<1>6. /\ ChargeGroups \in Seq(Span)
      /\ \A m \in DOMAIN ChargeGroups : ChargeGroup(ChargeGroups[m]) /\ ChargeGroups[m].last <= n
  <2>1. c.last \in Nat
    BY <1>3
  <2> QED
    BY <1>3, <1>4, <1>5, <2>1, ChargeEnds
<1> QED
  BY <1>6

THEOREM SegmentsApart == SegmentsSpec => []DrivesApartFromCharges
<1>1. RowsInv => DrivesApartFromCharges
  <2> SUFFICES ASSUME RowsInv, NEW d \in Drives, NEW c \in Charges,
                      ~(rows[d.last].at <= rows[c.first].at), ~(rows[c.last].at <= rows[d.first].at),
                      ~\E i \in c.first..c.last : ChargeSignal(rows[i]) = Missing
               PROVE  FALSE
    BY DEF DrivesApartFromCharges
  <2>1. PICK n \in Nat : n = Len(rows) /\ DOMAIN rows = 1..n
    BY DEF RowsInv
  <2>2. \A i \in 1..n : rows[i] \in SegmentRow
    BY <2>1 DEF RowsInv
  <2>3. \A i \in 1..n : rows[i].at \in Nat /\ ChargeSignal(rows[i]) \in {0, 1, Missing}
    BY <2>2 DEF SegmentRow, ChargeSignal
  <2>4. /\ d \in Span /\ 0 < d.first /\ d.first <= d.last /\ d.last <= n /\ Unbroken(d.first, d.last - 1)
        /\ LongEnough(d)
    <3>1. PICK gs : gs = DriveGroups
      OBVIOUS
    <3>2. GroupsOK(gs, n + 1)
      BY <2>1, <3>1, DriveGroupsOK DEF RowsInv
    <3>3. PICK m \in DOMAIN gs : d = gs[m]
      BY <3>1, <3>2 DEF Drives, ToSet, GroupsOK
    <3>4. d \in Span /\ DriveGroup(d) /\ d.last < n + 1
      BY <3>2, <3>3 DEF GroupsOK
    <3>5. d.last \in Nat
      BY <3>4 DEF Span
    <3> QED
      BY <3>4, <3>5 DEF DriveGroup, Drives
  <2>5. /\ c \in Span /\ 0 < c.first /\ c.first <= c.last /\ c.last <= n /\ ChargeGoesOn(c.first, c.last - 1)
        /\ LongEnough(c)
    <3>1. PICK m \in DOMAIN ChargeGroups : c = ChargeGroups[m]
      BY DEF Charges, ToSet
    <3>2. ChargeGroup(c) /\ c.last <= n /\ c \in Span
      BY <2>1, <3>1, ChargeGroupsOK
    <3> QED
      BY <3>2 DEF ChargeGroup, Charges
  <2>6. d.first \in 1..n /\ d.last \in 1..n /\ c.first \in 1..n /\ c.last \in 1..n
    BY <2>1, <2>4, <2>5 DEF Span
  <2>7. \A i, j \in 1..n : ~(rows[i].at <= rows[j].at) => j < i
    <3>1. \A i, j \in 1..n : i <= j => rows[i].at <= rows[j].at
      BY <2>1 DEF RowsInv
    <3>2. \A i, j \in 1..n : i <= j \/ j < i
      BY <2>1
    <3> QED
      BY <3>1, <3>2
  <2>8. c.first < d.last /\ d.first < c.last
    BY <2>6, <2>7
  <2>9. d.first < d.last /\ c.first < c.last
    BY <2>3, <2>4, <2>5, <2>6, <2>7 DEF LongEnough, MinimumSegment
  <2>10. PICK k \in 1..n : k \in d.first..(d.last - 1) /\ k \in c.first..(c.last - 1)
    <3>1. CASE d.first <= c.first
      BY <2>6, <2>8, <2>9, <3>1
    <3>2. CASE c.first <= d.first
      BY <2>6, <2>8, <2>9, <3>2
    <3> QED
      BY <2>6, <3>1, <3>2
  <2>11. ChargeSignal(rows[k]) = 1
    <3>1. ChargeSignal(rows[k]) # 0
      BY <2>5, <2>10 DEF ChargeGoesOn
    <3>2. ChargeSignal(rows[k]) # Missing
      BY <2>6, <2>10
    <3> QED
      BY <2>3, <3>1, <3>2
  <2>12. DriveSignal(rows[k]) = 0
    BY <2>11 DEF DriveSignal
  <2>13. DriveSignal(rows[k]) # 0
    BY <2>4, <2>10 DEF Unbroken
  <2> QED
    BY <2>12, <2>13
<1> QED
  BY <1>1, RowsHold, PTL
====
