----------------------------- MODULE TableProofs -----------------------------
(***************************************************************************)
(* A table of history shows in every bucket what was known when it ended,  *)
(* and counts every report of its range once: for any rows in any order of *)
(* their times, any contacts, any range and any step.                      *)
(***************************************************************************)
EXTENDS HistoryProofs, FiniteSetTheorems

(* What a reading tells of a candidate, and the candidates a reading may   *)
(* be made of.                                                             *)
Alike(c, d) == /\ c.key = d.key /\ c.value = d.value /\ c.at = d.at
               /\ c.source = d.source /\ c.channel = d.channel /\ c.method = d.method
Matters(c, now) == Fresh(c, now) \/ Retained(c.key)
Matched(C, t, D, u) ==
  \A c \in C : Matters(c, t) => \E d \in D : Alike(c, d) /\ (Fresh(c, t) <=> Fresh(d, u))
Paired(C, D) == \A c \in C : \E d \in D : Alike(c, d)

(* Alikeness goes both ways.                                               *)
LEMMA AlikeBack == ASSUME NEW c, NEW d, Alike(c, d) PROVE Alike(d, c)
  BY DEF Alike

(* Alike candidates make the same reading.                                 *)
LEMMA AlikeShown == ASSUME NEW c, NEW d, Alike(c, d), NEW fresh PROVE Shown(c, fresh) = Shown(d, fresh)
  BY DEF Alike, Shown

(* Alike candidates have one channel, with a rank.                         *)
LEMMA OneRank == ASSUME NEW c, NEW d, Alike(c, d) PROVE ChannelRank(c) = ChannelRank(d) /\ ChannelRank(c) \in Nat
  BY DEF Alike, ChannelRank

(* The best of paired candidates are alike, where no two tie.              *)
LEMMA BestAlike ==
  ASSUME NEW C, NEW D, Timed(C), Timed(D), C # {}, D # {}, Paired(C, D), Paired(D, C),
         NEW key, \A d \in D : d.key = key, ~Tied(D)
  PROVE  Alike(Best(C), Best(D))
<1>1. PICK c \in C : c = Best(C) /\ \A e \in C : Outranks(c, e)
  BY BestIsOne
<1>2. PICK d \in D : d = Best(D) /\ \A e \in D : Outranks(d, e)
  BY BestIsOne
<1>3. PICK d1 \in D : Alike(c, d1)
  BY DEF Paired
<1>4. PICK c1 \in C : Alike(d, c1)
  BY DEF Paired
<1>5. Outranks(c, c1) /\ Outranks(d, d1)
  BY <1>1, <1>2
<1>6. /\ c.method = "direct" /\ d.method = "direct" /\ c1.method = "direct" /\ d1.method = "direct"
      /\ c.at \in Nat /\ d.at \in Nat /\ c1.at \in Nat /\ d1.at \in Nat
  BY ReportAssumption DEF Timed
<1>7. /\ ChannelRank(c) = ChannelRank(d1) /\ ChannelRank(c) \in Nat
      /\ ChannelRank(d) = ChannelRank(c1) /\ ChannelRank(d) \in Nat
  BY <1>3, <1>4, OneRank
<1>8. c.at = d1.at /\ d.at = c1.at
  BY <1>3, <1>4 DEF Alike
<1>9. ChannelRank(d) = ChannelRank(d1) /\ d.at = d1.at
  BY <1>5, <1>6, <1>7, <1>8 DEF Outranks
<1>10. d = d1
  BY <1>9 DEF Tied
<1> QED
  BY <1>1, <1>2, <1>3, <1>10

Seen(key, C, now) == {Shown(c, Fresh(c, now)) : c \in Chosen(key, C, now)}

Usable(key, C) == {c \in C : c.key = key /\ c.value # NoValue}
FreshOf(key, C, now) == {c \in Usable(key, C) : Fresh(c, now)}
Foremost(key, C, now) ==
  LET road == {c \in FreshOf(key, C, now) : key = "vehicle.speed" /\ c.channel \in {"can", "obd"}}
  IN  IF road # {} THEN road ELSE FreshOf(key, C, now)

(* _choose takes the best of the front, or else of what stays.             *)
LEMMA ChosenIs ==
  ASSUME NEW key, NEW C, NEW now
  PROVE  Chosen(key, C, now) =
           IF FreshOf(key, C, now) # {} THEN {Best(Foremost(key, C, now))}
           ELSE IF Usable(key, C) # {} /\ Retained(key) THEN {Best(Usable(key, C))}
           ELSE {}
  BY DEF Chosen, FreshOf, Foremost, Usable

(* What is fresh, or stays, is paired when it is matched.                  *)
LEMMA FreshPaired ==
  ASSUME NEW key, NEW C, NEW t, NEW D, NEW u, Matched(C, t, D, u)
  PROVE  /\ Paired(FreshOf(key, C, t), FreshOf(key, D, u))
         /\ \A c \in Foremost(key, C, t) : c \in FreshOf(key, C, t)
         /\ Retained(key) => Paired(Usable(key, C), Usable(key, D))
<1>1. ASSUME NEW c \in FreshOf(key, C, t)
      PROVE  \E d \in FreshOf(key, D, u) : Alike(c, d)
  <2>1. c \in C /\ c.key = key /\ c.value # NoValue /\ Fresh(c, t)
    BY DEF FreshOf, Usable
  <2>2. PICK d \in D : Alike(c, d) /\ (Fresh(c, t) <=> Fresh(d, u))
    BY <2>1 DEF Matched, Matters
  <2>3. d.key = key /\ d.value # NoValue
    BY <2>1, <2>2 DEF Alike
  <2>4. Fresh(d, u)
    BY <2>1, <2>2
  <2> QED
    BY <2>2, <2>3, <2>4 DEF FreshOf, Usable
<1>2. ASSUME Retained(key), NEW c \in Usable(key, C)
      PROVE  \E d \in Usable(key, D) : Alike(c, d)
  <2>1. c \in C /\ c.key = key /\ c.value # NoValue
    BY DEF Usable
  <2>2. PICK d \in D : Alike(c, d)
    BY <1>2, <2>1 DEF Matched, Matters
  <2> QED
    BY <2>1, <2>2 DEF Usable, Alike
<1>3. \A c \in Foremost(key, C, t) : c \in FreshOf(key, C, t)
  BY DEF Foremost
<1> QED
  BY <1>1, <1>2, <1>3 DEF Paired

(* So is the front: a speed by the road channels goes first.               *)
LEMMA FrontPaired ==
  ASSUME NEW key, NEW C, NEW t, NEW D, NEW u, Matched(C, t, D, u), Matched(D, u, C, t)
  PROVE  Paired(Foremost(key, C, t), Foremost(key, D, u))
<1> DEFINE onRoad(c) == key = "vehicle.speed" /\ c.channel \in {"can", "obd"}
           roadC == {c \in FreshOf(key, C, t) : onRoad(c)}
           roadD == {c \in FreshOf(key, D, u) : onRoad(c)}
<1>1. /\ Foremost(key, C, t) = IF roadC # {} THEN roadC ELSE FreshOf(key, C, t)
      /\ Foremost(key, D, u) = IF roadD # {} THEN roadD ELSE FreshOf(key, D, u)
  BY DEF Foremost
<1>2. Paired(FreshOf(key, C, t), FreshOf(key, D, u)) /\ Paired(FreshOf(key, D, u), FreshOf(key, C, t))
  BY FreshPaired
<1>3. Paired(roadC, roadD) /\ Paired(roadD, roadC)
  BY <1>2 DEF Paired, Alike
<1>4. roadC = {} <=> roadD = {}
  BY <1>3 DEF Paired
<1> HIDE DEF roadC, roadD
<1> QED
  BY <1>1, <1>2, <1>3, <1>4

(* What is seen of a key depends on what is matched alone.                 *)
LEMMA SeenSame ==
  ASSUME NEW C, NEW D, NEW t, NEW u, Timed(C), Timed(D), Matched(C, t, D, u), Matched(D, u, C, t), ~Tied(D), NEW key
  PROVE  Seen(key, C, t) = Seen(key, D, u)
<1>1. /\ Paired(FreshOf(key, C, t), FreshOf(key, D, u)) /\ Paired(FreshOf(key, D, u), FreshOf(key, C, t))
      /\ Paired(Foremost(key, C, t), Foremost(key, D, u)) /\ Paired(Foremost(key, D, u), Foremost(key, C, t))
      /\ Foremost(key, C, t) \subseteq FreshOf(key, C, t) /\ Foremost(key, D, u) \subseteq FreshOf(key, D, u)
      /\ Retained(key) => Paired(Usable(key, C), Usable(key, D)) /\ Paired(Usable(key, D), Usable(key, C))
  BY FreshPaired, FrontPaired
<1>2. /\ FreshOf(key, C, t) \subseteq Usable(key, C) /\ FreshOf(key, D, u) \subseteq Usable(key, D)
      /\ \A c \in FreshOf(key, C, t) : Fresh(c, t)
      /\ \A c \in FreshOf(key, D, u) : Fresh(c, u)
      /\ \A c \in Usable(key, C) : c \in C /\ c.key = key
      /\ \A c \in Usable(key, D) : c \in D /\ c.key = key
  BY DEF FreshOf, Usable
<1>3. /\ FreshOf(key, C, t) = {} <=> FreshOf(key, D, u) = {}
      /\ Foremost(key, C, t) = {} <=> FreshOf(key, C, t) = {}
      /\ Foremost(key, D, u) = {} <=> FreshOf(key, D, u) = {}
      /\ Retained(key) => (Usable(key, C) = {} <=> Usable(key, D) = {})
  <2>1. Foremost(key, C, t) = {} <=> FreshOf(key, C, t) = {}
    BY DEF Foremost
  <2>2. Foremost(key, D, u) = {} <=> FreshOf(key, D, u) = {}
    BY DEF Foremost
  <2> QED
    BY <1>1, <2>1, <2>2 DEF Paired
<1>4. ~Tied(Usable(key, D)) /\ ~Tied(Foremost(key, D, u))
  BY <1>1, <1>2 DEF Tied
<1>5. Timed(Usable(key, C)) /\ Timed(Foremost(key, C, t)) /\ Timed(Usable(key, D)) /\ Timed(Foremost(key, D, u))
  BY <1>1, <1>2 DEF Timed
<1>6. CASE FreshOf(key, C, t) # {}
  <2>1. PICK c, d : c = Best(Foremost(key, C, t)) /\ d = Best(Foremost(key, D, u))
    OBVIOUS
  <2>2. Alike(c, d)
    <3>1. \A e \in Foremost(key, D, u) : e.key = key
      BY <1>1, <1>2
    <3> QED
      BY <1>1, <1>3, <1>4, <1>5, <1>6, <2>1, <3>1, BestAlike
  <2>3. Fresh(c, t) /\ Fresh(d, u)
    <3>1. c \in Foremost(key, C, t) /\ d \in Foremost(key, D, u)
      BY <1>3, <1>5, <1>6, <2>1, BestIsOne
    <3> QED
      BY <1>1, <1>2, <3>1
  <2>4. Chosen(key, C, t) = {c} /\ Chosen(key, D, u) = {d}
    BY <1>3, <1>6, <2>1, ChosenIs
  <2>5. Seen(key, C, t) = {Shown(c, Fresh(c, t))} /\ Seen(key, D, u) = {Shown(d, Fresh(d, u))}
    BY <2>4 DEF Seen
  <2>6. Fresh(c, t) = Fresh(d, u)
    BY <2>3 DEF Fresh
  <2> QED
    BY <2>2, <2>5, <2>6, AlikeShown
<1>7. CASE FreshOf(key, C, t) = {} /\ Retained(key) /\ Usable(key, C) # {}
  <2>1. PICK c, d : c = Best(Usable(key, C)) /\ d = Best(Usable(key, D))
    OBVIOUS
  <2>2. Alike(c, d)
    BY <1>1, <1>2, <1>3, <1>4, <1>5, <1>7, <2>1, BestAlike
  <2>3. ~Fresh(c, t) /\ ~Fresh(d, u)
    <3>1. c \in Usable(key, C) /\ d \in Usable(key, D)
      BY <1>3, <1>5, <1>7, <2>1, BestIsOne
    <3> QED
      BY <1>3, <1>7, <3>1 DEF FreshOf
  <2>4. Chosen(key, C, t) = {c} /\ Chosen(key, D, u) = {d}
    BY <1>3, <1>7, <2>1, ChosenIs
  <2>5. Seen(key, C, t) = {Shown(c, Fresh(c, t))} /\ Seen(key, D, u) = {Shown(d, Fresh(d, u))}
    BY <2>4 DEF Seen
  <2>6. Fresh(c, t) = Fresh(d, u)
    BY <2>3 DEF Fresh
  <2> QED
    BY <2>2, <2>5, <2>6, AlikeShown
<1>8. CASE FreshOf(key, C, t) = {} /\ ~(Retained(key) /\ Usable(key, C) # {})
  <2>1. Chosen(key, C, t) = {} /\ Chosen(key, D, u) = {}
    BY <1>3, <1>8, ChosenIs
  <2> QED
    BY <2>1 DEF Seen
<1> QED
  BY <1>6, <1>7, <1>8

(* All readings come from what is seen of each key.                        *)
DerivedFrom(r, key, value) ==
  [key |-> key, value |-> value, at |-> r.at, source |-> r.source,
   channel |-> "derived", method |-> "derived", fresh |-> TRUE]
ActiveFrom(A, P, B) ==
  LET explicit == {r \in A : r.fresh}
      origin   == IF P # {} THEN P ELSE B
      inferred == IF (\E r \in P : r.value >= Floor) \/ (\E r \in B : r.value <= -Floor) THEN 1 ELSE 0
  IN  IF explicit # {} THEN explicit
      ELSE {DerivedFrom(r, "charging.active", inferred) : r \in {o \in origin : o.fresh}}
RateFrom(active, P, B) ==
  IF P # {} THEN P
  ELSE {DerivedFrom(r, "charging.power", -r.value) : r \in {b \in B : b.value < 0 /\ \E a \in active : a.value = 1}}

(* A derived reading comes from a reading.                                 *)
LEMMA DerivedIs ==
  ASSUME NEW c, NEW fresh, NEW key, NEW value
  PROVE  Derived(c, key, value) = DerivedFrom(Shown(c, fresh), key, value)
  BY DEF Derived, DerivedFrom, Shown

(* So do all: resolve_readings in terms of what is seen.                   *)
LEMMA ReadingsFrom ==
  ASSUME NEW C, NEW now, NEW A, NEW P, NEW B, A = Seen("charging.active", C, now),
         P = Seen("charging.power", C, now), B = Seen("battery.power", C, now)
  PROVE  resolve_readings(C, now) =
           (UNION {Seen(key, C, now) : key \in {c.key : c \in C} \ {"charging.active", "charging.power"}})
             \union ActiveFrom(A, P, B) \union RateFrom(ActiveFrom(A, P, B), P, B)
<1> DEFINE chosen(key) == Chosen(key, C, now)
           plain(S)    == {Shown(c, Fresh(c, now)) : c \in S}
           keys        == {c.key : c \in C} \ {"charging.active", "charging.power"}
           explicit    == {c \in chosen("charging.active") : Fresh(c, now)}
           power       == chosen("charging.power")
           battery     == chosen("battery.power")
           origin      == IF power # {} THEN power ELSE battery
           inferred    == IF \/ \E c \in power : c.value >= Floor
                             \/ \E c \in battery : c.value <= -Floor
                          THEN 1 ELSE 0
           active      == IF explicit # {} THEN plain(explicit)
                          ELSE {Derived(c, "charging.active", inferred) : c \in {o \in origin : Fresh(o, now)}}
           rate        == IF power # {} THEN plain(power)
                          ELSE {Derived(c, "charging.power", -c.value) :
                                  c \in {b \in battery : b.value < 0 /\ \E a \in active : a.value = 1}}
<1>1. resolve_readings(C, now) = plain(UNION {chosen(key) : key \in keys}) \union active \union rate
  BY DEF resolve_readings
<1>2. A = plain(chosen("charging.active")) /\ P = plain(power) /\ B = plain(battery)
  BY DEF Seen
<1>3. plain(UNION {chosen(key) : key \in keys}) = UNION {Seen(key, C, now) : key \in keys}
  BY DEF Seen
<1>4. \A c : /\ Shown(c, Fresh(c, now)).value = c.value
             /\ Shown(c, Fresh(c, now)).fresh = Fresh(c, now)
  BY DEF Shown
<1>5. (P = {} <=> power = {}) /\ (B = {} <=> battery = {})
  BY <1>2
<1>6. plain(explicit) = {r \in A : r.fresh}
  <2>1. \A c \in explicit : Shown(c, Fresh(c, now)) \in {r \in A : r.fresh}
    <3> SUFFICES ASSUME NEW c \in explicit
                 PROVE  Shown(c, Fresh(c, now)) \in {r \in A : r.fresh}
      OBVIOUS
    <3>1. Fresh(c, now) /\ Shown(c, Fresh(c, now)) \in A
      BY <1>2
    <3>2. PICK r : r = Shown(c, Fresh(c, now))
      OBVIOUS
    <3>3. r.fresh = Fresh(c, now)
      BY <1>4, <3>2
    <3>4. r.fresh
      BY <3>1, <3>3
    <3> QED
      BY <3>1, <3>2, <3>4
  <2>2. ASSUME NEW r \in A, r.fresh
        PROVE  r \in plain(explicit)
    <3>1. PICK c \in chosen("charging.active") : r = Shown(c, Fresh(c, now))
      BY <1>2
    <3>2. r.fresh = Fresh(c, now)
      BY <1>4, <3>1
    <3>3. Fresh(c, now)
      BY <2>2, <3>2
    <3> QED
      BY <3>1, <3>3
  <2> QED
    BY <2>1, <2>2
<1>7. explicit = {} <=> plain(explicit) = {}
  OBVIOUS
<1>8. inferred = IF (\E r \in P : r.value >= Floor) \/ (\E r \in B : r.value <= -Floor) THEN 1 ELSE 0
  <2>1. (\E c \in power : c.value >= Floor) <=> (\E r \in P : r.value >= Floor)
    <3> HIDE DEF power, battery
    <3> QED
      BY <1>2, <1>4
  <2>2. (\E c \in battery : c.value <= -Floor) <=> (\E r \in B : r.value <= -Floor)
    <3> HIDE DEF power, battery
    <3> QED
      BY <1>2, <1>4
  <2> QED
    BY <2>1, <2>2
<1>9. PICK start : start = inferred
  OBVIOUS
<1>10. {Derived(c, "charging.active", start) : c \in {o \in origin : Fresh(o, now)}}
         = {DerivedFrom(r, "charging.active", start) : r \in {o \in (IF P # {} THEN P ELSE B) : o.fresh}}
  <2>1. (IF P # {} THEN P ELSE B) = plain(origin)
    BY <1>2, <1>5
  <2>2. PICK Q, S : Q = origin /\ S = plain(origin)
    OBVIOUS
  <2>3. S = {Shown(c, Fresh(c, now)) : c \in Q}
    BY <2>2
  <2>4. ASSUME NEW c \in Q, Fresh(c, now)
        PROVE  \E r \in S : r.fresh /\ Derived(c, "charging.active", start) = DerivedFrom(r, "charging.active", start)
    <3>1. PICK r : r = Shown(c, Fresh(c, now))
      OBVIOUS
    <3>2. r.fresh = Fresh(c, now)
      BY <1>4, <3>1
    <3>3. r.fresh
      BY <2>4, <3>2
    <3>4. r \in S
      BY <2>3, <3>1
    <3>5. Derived(c, "charging.active", start) = DerivedFrom(r, "charging.active", start)
      BY <3>1, DerivedIs
    <3> QED
      BY <3>3, <3>4, <3>5
  <2>5. ASSUME NEW r \in S, r.fresh
        PROVE  \E c \in Q : Fresh(c, now) /\ Derived(c, "charging.active", start) = DerivedFrom(r, "charging.active", start)
    <3>1. PICK c \in Q : r = Shown(c, Fresh(c, now))
      BY <2>3
    <3>2. r.fresh = Fresh(c, now)
      BY <1>4, <3>1
    <3>3. Fresh(c, now)
      BY <2>5, <3>2
    <3>4. Derived(c, "charging.active", start) = DerivedFrom(r, "charging.active", start)
      BY <3>1, DerivedIs
    <3> QED
      BY <3>3, <3>4
  <2>6. {Derived(c, "charging.active", start) : c \in {o \in Q : Fresh(o, now)}}
         = {DerivedFrom(r, "charging.active", start) : r \in {o \in S : o.fresh}}
    BY <2>4, <2>5
  <2> QED
    BY <2>1, <2>2, <2>6
<1>11. active = ActiveFrom(A, P, B)
  <2>1. ActiveFrom(A, P, B) = IF plain(explicit) # {} THEN plain(explicit)
          ELSE {DerivedFrom(r, "charging.active", start) : r \in {o \in (IF P # {} THEN P ELSE B) : o.fresh}}
    <3> HIDE DEF explicit, plain, inferred
    <3> QED
      BY <1>6, <1>8, <1>9 DEF ActiveFrom
  <2>2. active = IF explicit # {} THEN plain(explicit)
                 ELSE {Derived(c, "charging.active", start) : c \in {o \in origin : Fresh(o, now)}}
    BY <1>9
  <2> QED
    BY <1>7, <1>10, <2>1, <2>2
<1>12. rate = RateFrom(active, P, B)
  <2>1. PICK some : some <=> \E a \in active : a.value = 1
    OBVIOUS
  <2>2. PICK Q : Q = battery
    OBVIOUS
  <2>3. B = {Shown(c, Fresh(c, now)) : c \in Q}
    BY <1>2, <2>2
  <2>4. \A c : Derived(c, "charging.power", -c.value) =
                 DerivedFrom(Shown(c, Fresh(c, now)), "charging.power", -(Shown(c, Fresh(c, now)).value))
    <3> SUFFICES ASSUME NEW c
                 PROVE  Derived(c, "charging.power", -c.value) =
                          DerivedFrom(Shown(c, Fresh(c, now)), "charging.power", -(Shown(c, Fresh(c, now)).value))
      OBVIOUS
    <3>1. PICK v : v = -c.value
      OBVIOUS
    <3>2. PICK w : w = -(Shown(c, Fresh(c, now)).value)
      OBVIOUS
    <3>3. v = w
      BY <1>4, <3>1, <3>2
    <3> QED
      BY <3>1, <3>2, <3>3, DerivedIs
  <2>5. {Derived(c, "charging.power", -c.value) : c \in {b \in Q : b.value < 0 /\ some}}
         = {DerivedFrom(r, "charging.power", -r.value) : r \in {b \in B : b.value < 0 /\ some}}
    BY <1>4, <2>3, <2>4
  <2>6. rate = IF power # {} THEN plain(power)
               ELSE {Derived(c, "charging.power", -c.value) : c \in {b \in Q : b.value < 0 /\ some}}
    BY <2>1, <2>2
  <2>7. RateFrom(active, P, B) = IF P # {} THEN P
               ELSE {DerivedFrom(r, "charging.power", -r.value) : r \in {b \in B : b.value < 0 /\ some}}
    <3> HIDE DEF active
    <3> QED
      BY <2>1 DEF RateFrom
  <2> QED
    BY <1>2, <1>5, <2>5, <2>6, <2>7
<1> HIDE DEF active, rate, plain, chosen
<1> QED
  BY <1>1, <1>3, <1>11, <1>12

(* Readings depend on what is matched alone.                               *)
LEMMA ReadingsSame ==
  ASSUME NEW C, NEW D, NEW t, NEW u, Timed(C), Timed(D), Matched(C, t, D, u), Matched(D, u, C, t), ~Tied(D)
  PROVE  resolve_readings(C, t) = resolve_readings(D, u)
<1>1. \A key : Seen(key, C, t) = Seen(key, D, u)
  BY SeenSame
<1> DEFINE Kept(E) == {c.key : c \in E} \ {"charging.active", "charging.power"}
<1>2. \A key, r : r \in Seen(key, C, t) => key \in {c.key : c \in C}
  <2> SUFFICES ASSUME NEW key, NEW r \in Seen(key, C, t)
               PROVE  key \in {c.key : c \in C}
    OBVIOUS
  <2>1. PICK c \in Chosen(key, C, t) : TRUE
    BY DEF Seen
  <2> QED
    BY <2>1, ChosenIsEvidence
<1>3. \A key, r : r \in Seen(key, D, u) => key \in {c.key : c \in D}
  <2> SUFFICES ASSUME NEW key, NEW r \in Seen(key, D, u)
               PROVE  key \in {c.key : c \in D}
    OBVIOUS
  <2>1. PICK c \in Chosen(key, D, u) : TRUE
    BY DEF Seen
  <2> QED
    BY <2>1, ChosenIsEvidence
<1>4. UNION {Seen(key, C, t) : key \in Kept(C)} = UNION {Seen(key, D, u) : key \in Kept(D)}
  <2>1. ASSUME NEW key \in Kept(C), NEW r \in Seen(key, C, t)
        PROVE  key \in Kept(D) /\ r \in Seen(key, D, u)
    BY <1>1, <1>3
  <2>2. ASSUME NEW key \in Kept(D), NEW r \in Seen(key, D, u)
        PROVE  key \in Kept(C) /\ r \in Seen(key, C, t)
    BY <1>1, <1>2
  <2> HIDE DEF Kept
  <2> QED
    BY <2>1, <2>2
<1>5. PICK A, P, B : A = Seen("charging.active", C, t) /\ P = Seen("charging.power", C, t) /\ B = Seen("battery.power", C, t)
  OBVIOUS
<1>6. A = Seen("charging.active", D, u) /\ P = Seen("charging.power", D, u) /\ B = Seen("battery.power", D, u)
  BY <1>1, <1>5
<1>7. resolve_readings(C, t) = (UNION {Seen(key, C, t) : key \in Kept(C)})
             \union ActiveFrom(A, P, B) \union RateFrom(ActiveFrom(A, P, B), P, B)
  BY <1>5, ReadingsFrom
<1>8. resolve_readings(D, u) = (UNION {Seen(key, D, u) : key \in Kept(D)})
             \union ActiveFrom(A, P, B) \union RateFrom(ActiveFrom(A, P, B), P, B)
  BY <1>6, ReadingsFrom
<1> QED
  BY <1>4, <1>7, <1>8

(* The last fix is the same, too.                                          *)
LastFix(S) ==
  CHOOSE p \in S : \A q \in S :
    \/ p.method = "direct" /\ q.method # "direct"
    \/ (p.method = "direct") = (q.method = "direct") /\ p.at >= q.at

(* resolve_position takes the latest fix.                                  *)
LEMMA LastFixIs ==
  ASSUME NEW S, Timed(S), S # {}
  PROVE  LastFix(S) \in S /\ \A q \in S : LastFix(S).at >= q.at
<1> DEFINE times == {p.at : p \in S}
<1>1. times \in SUBSET Nat /\ times # {} /\ MaxClock \in Nat /\ \A n \in times : n <= MaxClock
  BY ReportAssumption DEF Timed
<1>2. PICK latest \in times : \A n \in times : n <= latest
  <2> HIDE DEF times
  <2> QED
    BY <1>1, GreatestNumber
<1>3. PICK p \in S : p.at = latest
  BY <1>2
<1>4. \A q \in S : (p.method = "direct") = (q.method = "direct") /\ p.at >= q.at
  BY <1>1, <1>2, <1>3 DEF Timed
<1>5. /\ LastFix(S) \in S
      /\ \A q \in S : \/ LastFix(S).method = "direct" /\ q.method # "direct"
                      \/ (LastFix(S).method = "direct") = (q.method = "direct") /\ LastFix(S).at >= q.at
  BY <1>3, <1>4 DEF LastFix
<1> QED
  BY <1>5 DEF Timed

(* What is shown of the position depends on what is matched alone.         *)
LEMMA PositionSame ==
  ASSUME NEW C, NEW D, NEW t, NEW u, Timed(C), Timed(D), Matched(C, t, D, u), Matched(D, u, C, t), ~Tied(D),
         \A c \in C : c.key = "position", \A d \in D : d.key = "position" /\ d.channel = "gnss"
  PROVE  resolve_position(C, t) = resolve_position(D, u)
<1>1. Retained("position")
  BY DEF Retained, SafetySensitive
<1> DEFINE fresh(P, now) == {p \in P : Fresh(p, now)}
           from(P, now) == IF fresh(P, now) # {} THEN fresh(P, now) ELSE P
<1>2. ASSUME NEW P, NEW now
      PROVE  resolve_position(P, now)
               = IF P = {} THEN {} ELSE {Shown(LastFix(from(P, now)), Fresh(LastFix(from(P, now)), now))}
  BY DEF resolve_position, LastFix
<1>3. /\ \A c \in C : \E d \in D : Alike(c, d) /\ (Fresh(c, t) <=> Fresh(d, u))
      /\ \A d \in D : \E c \in C : Alike(d, c) /\ (Fresh(d, u) <=> Fresh(c, t))
  BY <1>1 DEF Matched, Matters
<1>4. C = {} <=> D = {}
  BY <1>3
<1>5. CASE C = {}
  BY <1>2, <1>4, <1>5
<1>6. CASE C # {}
  <2>1. PICK F, G : F = from(C, t) /\ G = from(D, u)
    OBVIOUS
  <2>2. fresh(C, t) = {} <=> fresh(D, u) = {}
    BY <1>3
  <2>3. /\ F \subseteq C /\ G \subseteq D /\ F # {} /\ G # {}
        /\ \A c \in F : \E d \in G : Alike(c, d)
        /\ \A d \in G : \E c \in F : Alike(d, c)
        /\ \A c \in F : Fresh(c, t) <=> fresh(C, t) # {}
        /\ \A d \in G : Fresh(d, u) <=> fresh(D, u) # {}
    <3>1. CASE fresh(C, t) = {}
      <4>1. F = C /\ G = D
        BY <2>1, <2>2, <3>1
      <4>2. (\A c \in C : ~Fresh(c, t)) /\ (\A d \in D : ~Fresh(d, u))
        BY <2>2, <3>1
      <4> QED
        BY <1>3, <1>4, <1>6, <2>2, <3>1, <4>1, <4>2
    <3>2. CASE fresh(C, t) # {}
      <4>1. F = fresh(C, t) /\ G = fresh(D, u)
        BY <2>1, <2>2, <3>2
      <4> QED
        BY <1>3, <2>2, <3>2, <4>1
    <3> QED
      BY <3>1, <3>2
  <2>4. PICK c \in F : c = LastFix(F) /\ \A q \in F : c.at >= q.at
    <3>1. Timed(F)
      BY <2>3 DEF Timed
    <3> QED
      BY <2>3, <3>1, LastFixIs
  <2>5. PICK d \in G : d = LastFix(G) /\ \A q \in G : d.at >= q.at
    <3>1. Timed(G)
      BY <2>3 DEF Timed
    <3> QED
      BY <2>3, <3>1, LastFixIs
  <2>6. PICK d1 \in G : Alike(c, d1)
    BY <2>3
  <2>7. PICK c1 \in F : Alike(d, c1)
    BY <2>3
  <2>8. /\ c.at = d1.at /\ d.at = c1.at /\ c.at >= c1.at /\ d.at >= d1.at
        /\ c.at \in Nat /\ d.at \in Nat
    BY <2>3, <2>4, <2>5, <2>6, <2>7, ReportAssumption DEF Alike, Timed
  <2>9. d.at = d1.at /\ ChannelRank(d) = ChannelRank(d1) /\ d.key = d1.key
    <3>1. d \in D /\ d1 \in D
      BY <2>3
    <3> QED
      BY <2>8, <3>1 DEF ChannelRank
  <2>10. d = d1
    <3>1. d \in D /\ d1 \in D
      BY <2>3
    <3> QED
      BY <2>9, <3>1 DEF Tied
  <2>11. Fresh(c, t) <=> Fresh(d, u)
    BY <2>2, <2>3
  <2>12. Fresh(c, t) = Fresh(d, u)
    BY <2>11 DEF Fresh
  <2>13. /\ resolve_position(C, t) = {Shown(c, Fresh(c, t))}
         /\ resolve_position(D, u) = {Shown(d, Fresh(d, u))}
    <3> HIDE DEF from, fresh
    <3> QED
      BY <1>2, <1>4, <1>6, <2>1, <2>4, <2>5
  <2> QED
    BY <2>6, <2>10, <2>12, <2>13, AlikeShown
<1> QED
  BY <1>5, <1>6

-----------------------------------------------------------------------------
(* The buckets of a range follow each other to its end.                    *)
LEMMA LargerIs == ASSUME NEW a \in Int, NEW b \in Int PROVE Max({a, b}) = IF a >= b THEN a ELSE b
<1>1. CASE a >= b
  <2>1. \A x \in {a, b} : (\A y \in {a, b} : x >= y) => x = a
    BY <1>1
  <2>2. \A y \in {a, b} : a >= y
    BY <1>1
  <2> QED
    BY <1>1, <2>1, <2>2 DEF Max
<1>2. CASE ~(a >= b)
  <2>1. \A x \in {a, b} : (\A y \in {a, b} : x >= y) => x = b
    BY <1>2
  <2>2. \A y \in {a, b} : b >= y
    BY <1>2
  <2> QED
    BY <1>2, <2>1, <2>2 DEF Max
<1> QED
  BY <1>1, <1>2

(* The smaller of two numbers is one of them.                              *)
LEMMA SmallerIs == ASSUME NEW a \in Int, NEW b \in Int PROVE Min({a, b}) = IF a <= b THEN a ELSE b
<1>1. CASE a <= b
  <2>1. \A x \in {a, b} : (\A y \in {a, b} : x <= y) => x = a
    BY <1>1
  <2>2. \A y \in {a, b} : a <= y
    BY <1>1
  <2> QED
    BY <1>1, <2>1, <2>2 DEF Min
<1>2. CASE ~(a <= b)
  <2>1. \A x \in {a, b} : (\A y \in {a, b} : x <= y) => x = b
    BY <1>2
  <2>2. \A y \in {a, b} : b <= y
    BY <1>2
  <2> QED
    BY <1>2, <2>1, <2>2 DEF Min
<1> QED
  BY <1>1, <1>2

(* Floor division stays below.                                             *)
LEMMA Quotient ==
  ASSUME NEW x \in Nat, NEW y \in Nat \ {0}
  PROVE  x \div y \in Nat /\ y * (x \div y) <= x /\ x < y * (x \div y) + y
  OBVIOUS

(* Multiples keep the order of their factors.                              *)
LEMMA Multiples ==
  ASSUME NEW y \in Nat \ {0}, NEW m \in Nat, NEW i \in Nat
  PROVE  /\ y * (m + 1) = y * m + y /\ y * m \in Nat
         /\ m < i => y * (m + 1) <= y * i
         /\ y * m < y * i => m < i
  OBVIOUS

(* Every bucket ends in the range, and the last one at its end.            *)
LEMMA BucketsEnd ==
  ASSUME NEW start \in Nat, NEW end \in Nat, start < end, NEW step \in Nat \ {0},
         NEW count, count = BucketCount(start, end, step)
  PROVE  /\ count \in Nat \ {0}
         /\ BucketEnd(start, end, step, count - 1) = end
         /\ \A i \in 0..(count - 1) : BucketEnd(start, end, step, i) \in Nat
              /\ start < BucketEnd(start, end, step, i) /\ BucketEnd(start, end, step, i) <= end
         /\ \A i \in 0..(count - 2) : BucketEnd(start, end, step, i) = start + step * (i + 1)
                                        /\ start + step * (i + 1) < end
<1>1. PICK x, q : x \in Nat /\ x = end - start + step - 1 /\ q = x \div step
  OBVIOUS
<1>2. q \in Nat /\ step * q <= x /\ x < step * q + step
  BY <1>1, Quotient
<1>3. q # 0
  BY <1>1, <1>2
<1>4. count = q
  <2>1. count = Max({1, q})
    BY <1>1 DEF BucketCount
  <2> QED
    BY <1>2, <1>3, <2>1, LargerIs
<1>5. ASSUME NEW i \in Nat
      PROVE  /\ step * (i + 1) \in Nat /\ step <= step * (i + 1)
             /\ BucketEnd(start, end, step, i)
                  = IF end <= start + step * (i + 1) THEN end ELSE start + step * (i + 1)
  <2>1. PICK p : p = step * (i + 1)
    OBVIOUS
  <2>2. p \in Nat /\ step <= p
    BY <2>1, Multiples
  <2> QED
    BY <2>1, <2>2, SmallerIs DEF BucketEnd
<1>6. BucketEnd(start, end, step, count - 1) = end
  BY <1>1, <1>2, <1>3, <1>4, <1>5
<1>7. ASSUME NEW i \in 0..(count - 1)
      PROVE  /\ BucketEnd(start, end, step, i) \in Nat
             /\ start < BucketEnd(start, end, step, i) /\ BucketEnd(start, end, step, i) <= end
  <2>1. PICK p \in Nat : p = step * (i + 1) /\ step <= p
    BY <1>5
  <2> QED
    BY <1>5, <2>1
<1>8. ASSUME NEW i \in 0..(count - 2)
      PROVE  BucketEnd(start, end, step, i) = start + step * (i + 1) /\ start + step * (i + 1) < end
  <2>1. i \in Nat /\ i + 1 \in Nat /\ i + 1 < q
    BY <1>2, <1>4
  <2>2. step * ((i + 1) + 1) <= step * q /\ step * ((i + 1) + 1) = step * (i + 1) + step
    BY <1>2, <2>1, Multiples
  <2>3. PICK p \in Nat, pq \in Nat : p = step * (i + 1) /\ pq = step * q
    BY <1>2, <2>1, Multiples
  <2>4. start + p < end
    BY <1>1, <1>2, <2>2, <2>3
  <2> QED
    BY <1>5, <2>1, <2>3, <2>4
<1> QED
  BY <1>2, <1>3, <1>4, <1>6, <1>7, <1>8

(* A moment falls into the first bucket that ends after it.                *)
BucketOf(t, start, end, step) == Min({BucketCount(start, end, step) - 1, Max({0, (t - start) \div step})})

(* A bucket that ends by then is before it, one that ends after is not.    *)
LEMMA BucketHolds ==
  ASSUME NEW start \in Nat, NEW end \in Nat, start < end, NEW step \in Nat \ {0},
         NEW count, count = BucketCount(start, end, step), NEW t \in Nat, start < t,
         NEW b, b = BucketOf(t, start, end, step)
  PROVE  /\ b \in 0..(count - 1)
         /\ \A m \in 0..(count - 2) : BucketEnd(start, end, step, m) <= t => m < b
         /\ \A i \in 0..(count - 1) : t < BucketEnd(start, end, step, i) => b <= i
<1>1. PICK x, q : x \in Nat /\ x = t - start /\ q = x \div step
  OBVIOUS
<1>2. q \in Nat /\ step * q <= x /\ x < step * q + step
  BY <1>1, Quotient
<1>3. count \in Nat \ {0}
  BY BucketsEnd
<1>4. b = IF count - 1 <= q THEN count - 1 ELSE q
  <2>1. Max({0, q}) = q
    BY <1>2, LargerIs
  <2>2. b = Min({count - 1, q})
    BY <1>1, <2>1 DEF BucketOf
  <2> QED
    BY <1>2, <1>3, <2>2, SmallerIs
<1>5. b \in 0..(count - 1)
  BY <1>2, <1>3, <1>4
<1>6. ASSUME NEW m \in 0..(count - 2), BucketEnd(start, end, step, m) <= t
      PROVE  m < b
  <2>1. start + step * (m + 1) <= t /\ m \in Nat
    BY <1>6, BucketsEnd
  <2>2. PICK p \in Nat, pq \in Nat : p = step * (m + 1) /\ pq = step * q /\ step * (q + 1) = pq + step
    BY <1>2, <2>1, Multiples
  <2>3. step * (m + 1) < step * (q + 1)
    BY <1>1, <1>2, <2>1, <2>2
  <2>4. m + 1 < q + 1
    BY <1>2, <2>1, <2>3, Multiples
  <2> QED
    BY <1>2, <1>3, <1>4, <2>4
<1>7. ASSUME NEW i \in 0..(count - 1), t < BucketEnd(start, end, step, i)
      PROVE  b <= i
  <2>1. CASE i = count - 1
    BY <1>3, <1>5, <2>1
  <2>2. CASE i # count - 1
    <3>1. i \in 0..(count - 2) /\ i \in Nat
      BY <1>3, <2>2
    <3>2. BucketEnd(start, end, step, i) = start + step * (i + 1)
      BY <3>1, BucketsEnd
    <3>3. PICK p \in Nat, pq \in Nat : p = step * (i + 1) /\ pq = step * q
      BY <1>2, <3>1, Multiples
    <3>4. step * q < step * (i + 1)
      BY <1>1, <1>2, <1>7, <3>2, <3>3
    <3>5. q < i + 1
      BY <1>2, <3>1, <3>4, Multiples
    <3> QED
      BY <1>2, <1>3, <1>4, <3>1, <3>5
  <2> QED
    BY <2>1, <2>2
<1> QED
  BY <1>5, <1>6, <1>7

-----------------------------------------------------------------------------
-----------------------------------------------------------------------------
(* What the scan of buckets keeps: the rows so far hold each bucket up to  *)
(* the last once, in order, a row shows for each of its buckets what the   *)
(* last relevant one before it shows, and the counts of the rows add up.   *)
ShowsFor(i, relevant, shows, shown) ==
  \E m \in 0..i : m \in relevant /\ shown = shows[m] /\ \A j \in (m + 1)..i : j \notin relevant
TableRow(shows) == [from : Nat, to : Nat, told : Int, shown : {shows[i] : i \in Nat}]
Within(r, k) == r.from <= r.to /\ r.to < k
Holds(r, i) == r.from <= i /\ i <= r.to
RowShows(r, relevant, shows) == \A i \in Nat : Holds(r, i) => ShowsFor(i, relevant, shows, r.shown)
Laid(out, k, relevant, shows) ==
  /\ out \in Seq(TableRow(shows))
  /\ \A n \in DOMAIN out : Within(out[n], k) /\ RowShows(out[n], relevant, shows)
  /\ \A n, o \in DOMAIN out : n < o => out[n].to < out[o].from
  /\ \A i \in 0..(k - 1) : \E n \in DOMAIN out : Holds(out[n], i)
  /\ k > 0 => out # <<>> /\ out[Len(out)].to = k - 1
TallyIs(f, out, total) ==
  /\ f[0] = 0 /\ f[Len(out)] = total
  /\ \A n \in 0..Len(out) : f[n] \in Int
  /\ \A n \in 1..Len(out) : f[n] = f[n - 1] + out[n].told
Tally(out, total) == \E f : TallyIs(f, out, total)

(* A row more.                                                             *)
LEMMA RowMore ==
  ASSUME NEW relevant, NEW shows, NEW k \in Nat, NEW out, Laid(out, k, relevant, shows), NEW total \in Int,
         Tally(out, total), k \in relevant,
         NEW told \in Int, NEW row, row = [from |-> k, to |-> k, told |-> told, shown |-> shows[k]]
  PROVE  Laid(Append(out, row), k + 1, relevant, shows) /\ Tally(Append(out, row), total + told)
<1>1. PICK l \in Nat : l = Len(out) /\ DOMAIN out = 1..l /\ out \in Seq(TableRow(shows))
  BY DEF Laid
<1>2. row \in TableRow(shows) /\ row.from = k /\ row.to = k /\ row.told = told /\ row.shown = shows[k]
  BY DEF TableRow
<1>3. PICK hs : hs = Append(out, row)
  OBVIOUS
<1>4. /\ hs \in Seq(TableRow(shows)) /\ DOMAIN hs = 1..(l + 1) /\ Len(hs) = l + 1
      /\ hs[l + 1] = row /\ \A n \in 1..l : hs[n] = out[n]
  BY <1>1, <1>2, <1>3
<1>5. \A n \in 1..l : out[n] \in TableRow(shows)
  BY <1>1
<1>6. \A n \in 1..l : out[n].from \in Nat /\ out[n].to \in Nat /\ out[n].told \in Int
  BY <1>5 DEF TableRow
<1>7. \A n \in 1..l : Within(out[n], k) /\ RowShows(out[n], relevant, shows)
  BY <1>1 DEF Laid
<1>8. RowShows(row, relevant, shows)
  <2>1. \A i \in Nat : Holds(row, i) => i = k
    BY <1>2 DEF Holds
  <2>2. ShowsFor(k, relevant, shows, row.shown)
    <3>1. k \in 0..k /\ k \in relevant /\ row.shown = shows[k] /\ \A j \in (k + 1)..k : j \notin relevant
      BY <1>2
    <3> QED
      BY <3>1 DEF ShowsFor
  <2> QED
    BY <2>1, <2>2 DEF RowShows
<1>9. ASSUME NEW n \in 1..(l + 1)
      PROVE  Within(hs[n], k + 1) /\ RowShows(hs[n], relevant, shows)
  <2>1. CASE n = l + 1
    BY <1>2, <1>4, <1>8, <2>1 DEF Within
  <2>2. CASE n # l + 1
    <3>1. n \in 1..l /\ hs[n] = out[n]
      BY <1>1, <1>4, <2>2
    <3>2. Within(out[n], k) /\ RowShows(out[n], relevant, shows) /\ out[n].to \in Nat
      BY <1>6, <1>7, <3>1
    <3> QED
      BY <3>1, <3>2 DEF Within
  <2> QED
    BY <2>1, <2>2
<1>10. ASSUME NEW n \in 1..(l + 1), NEW o \in 1..(l + 1), n < o
       PROVE  hs[n].to < hs[o].from
  <2>1. n \in 1..l /\ hs[n] = out[n] /\ out[n].to < k
    BY <1>1, <1>4, <1>7, <1>10 DEF Within
  <2>2. CASE o = l + 1
    BY <1>2, <1>4, <2>1, <2>2
  <2>3. CASE o # l + 1
    <3>1. o \in 1..l /\ hs[o] = out[o]
      BY <1>1, <1>4, <2>3
    <3>2. out[n].to < out[o].from
      BY <1>1, <1>10, <2>1, <3>1 DEF Laid
    <3> QED
      BY <2>1, <3>1, <3>2
  <2> QED
    BY <2>2, <2>3
<1>11. ASSUME NEW i \in 0..((k + 1) - 1)
       PROVE  \E n \in 1..(l + 1) : Holds(hs[n], i)
  <2>1. CASE i = k
    <3>1. l + 1 \in 1..(l + 1) /\ Holds(hs[l + 1], i)
      BY <1>1, <1>2, <1>4, <2>1 DEF Holds
    <3> QED
      BY <3>1
  <2>2. CASE i # k
    <3>1. PICK n \in 1..l : Holds(out[n], i)
      BY <1>1, <2>2 DEF Laid
    <3> QED
      BY <1>1, <1>4, <3>1
  <2> QED
    BY <2>1, <2>2
<1>12. hs # <<>> /\ hs[Len(hs)].to = (k + 1) - 1
  BY <1>1, <1>2, <1>4
<1>13. Laid(hs, k + 1, relevant, shows)
  BY <1>4, <1>9, <1>10, <1>11, <1>12 DEF Laid
<1>14. Tally(hs, total + told)
  <2>1. PICK f : TallyIs(f, out, total)
    BY DEF Tally
  <2>2. /\ f[0] = 0 /\ f[l] = total
        /\ \A n \in 0..l : f[n] \in Int
        /\ \A n \in 1..l : f[n] = f[n - 1] + out[n].told
    BY <1>1, <2>1 DEF TallyIs
  <2>3. PICK g : g = [n \in 0..(l + 1) |-> IF n = l + 1 THEN total + told ELSE f[n]]
    OBVIOUS
  <2>4. g[l + 1] = total + told /\ \A n \in 0..l : g[n] = f[n]
    BY <1>1, <2>3
  <2>5. ASSUME NEW n \in 1..(l + 1)
        PROVE  g[n] = g[n - 1] + hs[n].told
    <3>1. CASE n = l + 1
      <4>1. g[l] = total /\ n - 1 = l
        BY <1>1, <2>2, <2>4, <3>1
      <4>2. hs[n].told = told
        BY <1>1, <1>2, <1>4, <3>1
      <4> QED
        BY <2>4, <3>1, <4>1, <4>2
    <3>2. CASE n # l + 1
      <4>1. n \in 1..l /\ n - 1 \in 0..l /\ n \in 0..l
        BY <1>1, <3>2
      <4> QED
        BY <1>4, <2>2, <2>4, <4>1
    <3> QED
      BY <3>1, <3>2
  <2>6. \A n \in 0..(l + 1) : g[n] \in Int
    <3>1. \A n \in 0..l : g[n] \in Int
      BY <2>2, <2>4
    <3>2. g[l + 1] \in Int
      BY <2>4
    <3>3. \A n \in 0..(l + 1) : n \in 0..l \/ n = l + 1
      BY <1>1
    <3> QED
      BY <3>1, <3>2, <3>3
  <2>7. TallyIs(g, hs, total + told)
    BY <1>1, <1>4, <2>2, <2>4, <2>5, <2>6 DEF TallyIs
  <2> QED
    BY <2>7 DEF Tally
<1> QED
  BY <1>3, <1>13, <1>14

(* The last row longer.                                                    *)
LEMMA RowLonger ==
  ASSUME NEW relevant, NEW shows, NEW k \in Nat \ {0}, NEW out, Laid(out, k, relevant, shows), NEW total \in Int,
         Tally(out, total), NEW told \in Int, NEW row, NEW last, last = out[Len(out)],
         row = [from |-> last.from, to |-> k, told |-> last.told + told, shown |-> last.shown],
         ShowsFor(k, relevant, shows, last.shown)
  PROVE  /\ Laid([out EXCEPT ![Len(out)] = row], k + 1, relevant, shows)
         /\ Tally([out EXCEPT ![Len(out)] = row], total + told)
<1>1. PICK l \in Nat : l = Len(out) /\ DOMAIN out = 1..l /\ out \in Seq(TableRow(shows))
  BY DEF Laid
<1>2. l # 0 /\ last = out[l] /\ last.to = k - 1
  BY <1>1 DEF Laid
<1>3. PICK hs : hs = [out EXCEPT ![Len(out)] = row]
  OBVIOUS
<1>5. \A n \in 1..l : out[n] \in TableRow(shows)
  BY <1>1
<1>6. \A n \in 1..l : out[n].from \in Nat /\ out[n].to \in Nat /\ out[n].told \in Int
  BY <1>5 DEF TableRow
<1>7. \A n \in 1..l : Within(out[n], k) /\ RowShows(out[n], relevant, shows)
  BY <1>1 DEF Laid
<1>8. row \in TableRow(shows) /\ row.from = last.from /\ row.to = k /\ row.told = last.told + told /\ row.shown = last.shown
  <2>1. last \in TableRow(shows)
    BY <1>1, <1>2
  <2> QED
    BY <2>1 DEF TableRow
<1>4. /\ hs \in Seq(TableRow(shows)) /\ DOMAIN hs = 1..l /\ Len(hs) = l
      /\ hs[l] = row /\ \A n \in 1..(l - 1) : hs[n] = out[n]
  BY <1>1, <1>2, <1>3, <1>8
<1>20. last.from \in Nat /\ last.from <= last.to
  BY <1>1, <1>2, <1>6, <1>7 DEF Within
<1>21. RowShows(row, relevant, shows)
  <2> SUFFICES ASSUME NEW i \in Nat, Holds(row, i)
               PROVE  ShowsFor(i, relevant, shows, row.shown)
    BY DEF RowShows
  <2>1. CASE i = k
    BY <1>8, <2>1
  <2>2. CASE i # k
    <3>1. Holds(last, i)
      BY <1>2, <1>8, <1>20, <2>2 DEF Holds
    <3> QED
      BY <1>1, <1>2, <1>7, <1>8, <3>1 DEF RowShows
  <2> QED
    BY <2>1, <2>2
<1>9. ASSUME NEW n \in 1..l
      PROVE  Within(hs[n], k + 1) /\ RowShows(hs[n], relevant, shows)
  <2>1. CASE n = l
    BY <1>2, <1>4, <1>8, <1>20, <1>21, <2>1 DEF Within
  <2>2. CASE n # l
    <3>1. n \in 1..l /\ hs[n] = out[n]
      BY <1>1, <1>4, <2>2
    <3>2. Within(out[n], k) /\ RowShows(out[n], relevant, shows) /\ out[n].to \in Nat
      BY <1>6, <1>7, <3>1
    <3> QED
      BY <3>1, <3>2 DEF Within
  <2> QED
    BY <2>1, <2>2
<1>10. ASSUME NEW n \in 1..l, NEW o \in 1..l, n < o
       PROVE  hs[n].to < hs[o].from
  <2>1. n \in 1..(l - 1) /\ hs[n] = out[n]
    BY <1>1, <1>4, <1>10
  <2>2. hs[o].from = out[o].from
    <3>1. CASE o = l
      <4>1. hs[o] = row /\ out[o] = last
        BY <1>2, <1>4, <3>1
      <4> QED
        BY <1>8, <4>1
    <3>2. CASE o # l
      <4>1. o \in 1..(l - 1)
        BY <1>1, <3>2
      <4>2. hs[o] = out[o]
        BY <1>4, <4>1
      <4> QED
        BY <4>2
    <3> QED
      BY <3>1, <3>2
  <2> QED
    BY <1>1, <1>10, <2>1, <2>2 DEF Laid
<1>11. ASSUME NEW i \in 0..((k + 1) - 1)
       PROVE  \E n \in 1..l : Holds(hs[n], i)
  <2>1. CASE i = k
    <3>1. l \in 1..l /\ Holds(hs[l], i)
      BY <1>1, <1>2, <1>4, <1>8, <1>20, <2>1 DEF Holds
    <3> QED
      BY <3>1
  <2>2. CASE i # k
    <3>1. PICK n \in 1..l : Holds(out[n], i)
      BY <1>1, <2>2 DEF Laid
    <3>2. Holds(hs[n], i)
      <4>1. CASE n = l
        BY <1>2, <1>4, <1>8, <1>20, <3>1, <4>1 DEF Holds
      <4>2. CASE n # l
        BY <1>1, <1>4, <3>1, <4>2
      <4> QED
        BY <4>1, <4>2
    <3> QED
      BY <3>2
  <2> QED
    BY <2>1, <2>2
<1>12. hs # <<>> /\ hs[Len(hs)].to = (k + 1) - 1
  BY <1>1, <1>2, <1>4, <1>8
<1>13. Laid(hs, k + 1, relevant, shows)
  BY <1>4, <1>9, <1>10, <1>11, <1>12 DEF Laid
<1>14. Tally(hs, total + told)
  <2>1. PICK f : TallyIs(f, out, total)
    BY DEF Tally
  <2>2. /\ f[0] = 0 /\ f[l] = total
        /\ \A n \in 0..l : f[n] \in Int
        /\ \A n \in 1..l : f[n] = f[n - 1] + out[n].told
    BY <1>1, <2>1 DEF TallyIs
  <2>3. PICK g : g = [n \in 0..l |-> IF n = l THEN total + told ELSE f[n]]
    OBVIOUS
  <2>4. g[l] = total + told /\ \A n \in 0..(l - 1) : g[n] = f[n]
    BY <1>1, <2>3
  <2>5. ASSUME NEW n \in 1..l
        PROVE  g[n] = g[n - 1] + hs[n].told
    <3>1. CASE n = l
      <4>1. l - 1 \in 0..(l - 1) /\ l \in 1..l /\ l - 1 \in 0..l
        BY <1>1, <1>2
      <4>2. f[l] = f[l - 1] + last.told /\ f[l - 1] \in Int /\ last.told \in Int
        BY <1>2, <1>6, <2>2, <4>1
      <4> QED
        BY <1>4, <1>8, <2>2, <2>4, <3>1, <4>1, <4>2
    <3>2. CASE n # l
      <4>1. n \in 1..l /\ n - 1 \in 0..(l - 1) /\ n \in 0..(l - 1) /\ n \in 1..(l - 1)
        BY <1>1, <3>2
      <4> QED
        BY <1>4, <2>2, <2>4, <4>1
    <3> QED
      BY <3>1, <3>2
  <2>6. ASSUME NEW n \in 0..l
        PROVE  g[n] \in Int
    <3>1. CASE n = l
      BY <2>4, <3>1
    <3>2. CASE n # l
      <4>1. n \in 0..(l - 1)
        BY <1>1, <3>2
      <4>2. g[n] = f[n] /\ f[n] \in Int
        BY <2>2, <2>4, <4>1
      <4> QED
        BY <4>2
    <3> QED
      BY <3>1, <3>2
  <2>7. g[0] = 0
    <3>1. 0 \in 0..(l - 1)
      BY <1>1, <1>2
    <3> QED
      BY <2>2, <2>4, <3>1
  <2>8. TallyIs(g, hs, total + told)
    BY <1>1, <1>4, <2>4, <2>5, <2>6, <2>7 DEF TallyIs
  <2> QED
    BY <2>8 DEF Tally
<1> QED
  BY <1>3, <1>13, <1>14

(* A count of reports is a number.                                         *)
LEMMA ReportsCounted ==
  ASSUME KeptTypeOK, NEW start, NEW by
  PROVE  ReportsBy(start, by) \in Nat
<1> DEFINE S == {i \in Stored : reports[i].recorded > start /\ reports[i].recorded <= by}
<1>1. PICK l \in Nat : l = Len(reports) /\ Stored = 1..l
  BY DEF KeptTypeOK, Stored
<1>2. IsFiniteSet(1..l)
  BY FS_Interval
<1>3. S \subseteq 1..l
  BY <1>1
<1>4. IsFiniteSet(S)
  BY <1>2, <1>3, FS_Subset
<1>5. Cardinality(S) \in Nat
  BY <1>4, FS_CardinalityType
<1> QED
  BY <1>5 DEF ReportsBy

NoBuckets == [out |-> <<>>, counted |-> 0]
BucketScanTo(f, k, relevant, start, end, step) ==
  f = [n \in 0..k |-> IF n = 0 THEN NoBuckets ELSE GatherBucket(f[n - 1], n - 1, relevant, start, end, step)]

(* The scan is defined on every number of buckets.                         *)
LEMMA BucketScanIs ==
  ASSUME NEW start, NEW end, NEW step, NEW count \in Nat, count = BucketCount(start, end, step),
         NEW relevant, relevant = Relevant(start, end, step)
  PROVE  \E f : BucketScanTo(f, count, relevant, start, end, step) /\ table_rows(start, end, step) = Reverse(f[count].out)
<1> DEFINE T == {k \in Nat : ~\E f : BucketScanTo(f, k, relevant, start, end, step)}
<1>1. T = {}
  <2> SUFFICES ASSUME T # {}
               PROVE  FALSE
    OBVIOUS
  <2>1. PICK k \in T : \A l \in T : k <= l
    <3>1. T \in SUBSET Nat
      OBVIOUS
    <3> HIDE DEF T
    <3> QED
      BY <3>1, LeastNumber
  <2>2. CASE k = 0
    <3>1. BucketScanTo([i \in 0..0 |-> NoBuckets], 0, relevant, start, end, step)
      BY DEF BucketScanTo
    <3> QED
      BY <2>2, <3>1
  <2>3. CASE k # 0
    <3>1. k - 1 \in Nat /\ k - 1 \notin T
      BY <2>1, <2>3
    <3>2. PICK f : BucketScanTo(f, k - 1, relevant, start, end, step)
      BY <3>1
    <3> DEFINE g == [i \in 0..k |-> IF i = k THEN GatherBucket(f[k - 1], k - 1, relevant, start, end, step) ELSE f[i]]
    <3>3. \A i \in 0..(k - 1) : g[i] = f[i]
      BY <3>1
    <3>4. \A i \in 0..k : g[i] = IF i = 0 THEN NoBuckets ELSE GatherBucket(g[i - 1], i - 1, relevant, start, end, step)
      <4>1. g[k] = GatherBucket(g[k - 1], k - 1, relevant, start, end, step)
        BY <3>1, <3>3
      <4>2. ASSUME NEW i \in 0..(k - 1)
            PROVE  g[i] = IF i = 0 THEN NoBuckets ELSE GatherBucket(g[i - 1], i - 1, relevant, start, end, step)
        <5>1. f[i] = IF i = 0 THEN NoBuckets ELSE GatherBucket(f[i - 1], i - 1, relevant, start, end, step)
          BY <3>1, <3>2 DEF BucketScanTo
        <5>2. i # 0 => g[i - 1] = f[i - 1]
          BY <3>1, <3>3
        <5> HIDE DEF g
        <5> QED
          BY <3>3, <5>1, <5>2
      <4> HIDE DEF g
      <4> QED
        BY <2>1, <2>3, <4>1, <4>2
    <3>5. BucketScanTo(g, k, relevant, start, end, step)
      <4>1. g = [i \in 0..k |-> g[i]]
        OBVIOUS
      <4> HIDE DEF g
      <4> QED
        BY <3>4, <4>1 DEF BucketScanTo
    <3> QED
      BY <2>1, <3>5
  <2> QED
    BY <2>2, <2>3
<1>2. PICK f : BucketScanTo(f, count, relevant, start, end, step)
  BY <1>1
<1> DEFINE g == CHOOSE g : g = [n \in 0..count |-> IF n = 0 THEN [out |-> <<>>, counted |-> 0]
                                 ELSE GatherBucket(g[n - 1], n - 1, relevant, start, end, step)]
<1>3. table_rows(start, end, step) = Reverse(g[count].out)
  BY DEF table_rows
<1>4. g = [n \in 0..count |-> IF n = 0 THEN [out |-> <<>>, counted |-> 0]
                                 ELSE GatherBucket(g[n - 1], n - 1, relevant, start, end, step)]
  BY <1>2 DEF BucketScanTo, NoBuckets
<1>5. BucketScanTo(g, count, relevant, start, end, step)
  <2> HIDE DEF g
  <2> QED
    BY <1>4 DEF BucketScanTo, NoBuckets
<1> HIDE DEF g
<1> QED
  BY <1>3, <1>5

ScanInv(acc, k, relevant, shows) ==
  /\ acc.counted \in Int
  /\ Laid(acc.out, k, relevant, shows)
  /\ Tally(acc.out, acc.counted)

(* Each bucket keeps it so.                                                *)
LEMMA BucketKeeps ==
  ASSUME KeptTypeOK, NEW start \in Nat, NEW end \in Nat, NEW step \in Nat, NEW relevant, 0 \in relevant,
         NEW shows, shows = [i \in Nat |-> ShownBy(start, end, BucketEnd(start, end, step, i))],
         NEW k \in Nat, NEW acc, ScanInv(acc, k, relevant, shows)
  PROVE  ScanInv(GatherBucket(acc, k, relevant, start, end, step), k + 1, relevant, shows)
<1>1. PICK out, counted, told : out = acc.out /\ counted = acc.counted
                                  /\ told = ReportsBy(start, BucketEnd(start, end, step, k))
  OBVIOUS
<1>2. counted \in Int /\ Laid(out, k, relevant, shows) /\ Tally(out, counted) /\ told \in Int
  BY <1>1, ReportsCounted DEF ScanInv
<1>8. PICK gained \in Int : gained = told - counted
  BY <1>2
<1>3. PICK row : row = [from |-> k, to |-> k, told |-> gained, shown |-> shows[k]]
  OBVIOUS
<1>4. PICK next : next = GatherBucket(acc, k, relevant, start, end, step)
  OBVIOUS
<1>5. out \in Seq(TableRow(shows)) /\ (out # <<>> => Len(out) \in DOMAIN out /\ Last(out) = out[Len(out)] /\ k > 0)
  <2>1. out \in Seq(TableRow(shows)) /\ Last(out) = out[Len(out)]
    BY <1>2 DEF Laid, Last
  <2>2. ASSUME out # <<>>
        PROVE  Len(out) \in DOMAIN out /\ k > 0
    <3>1. Len(out) \in DOMAIN out
      BY <2>1, <2>2
    <3>2. PICK r : r = out[Len(out)]
      OBVIOUS
    <3>3. r \in TableRow(shows)
      BY <2>1, <3>1, <3>2
    <3>4. Within(r, k)
      BY <1>2, <3>1, <3>2 DEF Laid
    <3>5. r.from \in Nat /\ r.to \in Nat
      BY <3>3 DEF TableRow
    <3> QED
      BY <3>1, <3>4, <3>5 DEF Within
  <2> QED
    BY <2>1, <2>2
<1>6. CASE k \in relevant
  <2>1. next.out = Collapse(out, row) /\ next.counted = told
    BY <1>1, <1>3, <1>4, <1>6, <1>8 DEF GatherBucket
  <2>2. gained \in Int /\ counted + gained = told
    BY <1>2, <1>8
  <2>3. CASE out # <<>> /\ Last(out).shown = row.shown
    <3>1. PICK last : last = out[Len(out)] /\ last = Last(out)
      BY <1>5, <2>3
    <3>2. next.out = [out EXCEPT ![Len(out)] = [from |-> last.from, to |-> k,
                                                told |-> last.told + gained, shown |-> last.shown]]
      <4>1. /\ row.to = k /\ row.told = gained /\ row.shown = last.shown
            /\ Last(out).from = last.from /\ Last(out).told = last.told
        BY <1>3, <2>3, <3>1
      <4> QED
        BY <2>1, <2>3, <4>1 DEF Collapse
    <3>3. ShowsFor(k, relevant, shows, last.shown)
      <4>1. k \in 0..k /\ k \in relevant /\ last.shown = shows[k] /\ \A j \in (k + 1)..k : j \notin relevant
        <5>1. k \in 0..k /\ \A j \in (k + 1)..k : j \notin relevant
          OBVIOUS
        <5> QED
          BY <1>3, <1>6, <2>3, <3>1, <5>1
      <4> QED
        BY <4>1 DEF ShowsFor
    <3>4. k \in Nat \ {0}
      BY <1>5, <2>3
    <3>5. PICK longer : longer = [from |-> last.from, to |-> k,
                                  told |-> last.told + gained, shown |-> last.shown]
      OBVIOUS
    <3>6. /\ Laid([out EXCEPT ![Len(out)] = longer], k + 1, relevant, shows)
          /\ Tally([out EXCEPT ![Len(out)] = longer], counted + gained)
      BY <1>2, <2>2, <3>1, <3>3, <3>4, <3>5, RowLonger
    <3> QED
      BY <1>2, <1>4, <2>1, <2>2, <3>2, <3>5, <3>6 DEF ScanInv
  <2>4. CASE ~(out # <<>> /\ Last(out).shown = row.shown)
    <3>1. next.out = Append(out, row)
      BY <2>1, <2>4 DEF Collapse
    <3>2. Laid(Append(out, row), k + 1, relevant, shows) /\ Tally(Append(out, row), counted + gained)
      BY <1>2, <1>3, <1>6, <2>2, RowMore
    <3> QED
      BY <1>2, <1>4, <2>1, <2>2, <3>1, <3>2 DEF ScanInv
  <2> QED
    BY <2>3, <2>4
<1>7. CASE k \notin relevant
  <2>1. next.out = [out EXCEPT ![Len(out)].to = k] /\ next.counted = counted
    BY <1>1, <1>4, <1>7 DEF GatherBucket
  <2>2. k \in Nat \ {0} /\ out # <<>>
    <3>1. k # 0
      BY <1>7
    <3>2. k > 0
      BY <3>1
    <3> QED
      BY <1>2, <3>1, <3>2 DEF Laid
  <2>3. PICK last, none : last = out[Len(out)] /\ none = 0
    OBVIOUS
  <2>4. last \in TableRow(shows) /\ Within(last, k) /\ RowShows(last, relevant, shows) /\ last.to = k - 1
    BY <1>2, <1>5, <2>2, <2>3 DEF Laid
  <2>5. PICK longer : longer = [from |-> last.from, to |-> k, told |-> last.told + none, shown |-> last.shown]
    OBVIOUS
  <2>6. next.out = [out EXCEPT ![Len(out)] = longer]
    <3>1. [last EXCEPT !.to = k] = longer
      BY <2>3, <2>4, <2>5 DEF TableRow
    <3> QED
      BY <1>5, <2>1, <2>2, <2>3, <3>1
  <2>7. ShowsFor(k, relevant, shows, last.shown)
    <3>1. last.from \in Nat /\ k - 1 \in Nat /\ Holds(last, k - 1)
      BY <2>2, <2>4 DEF TableRow, Within, Holds
    <3>2. ShowsFor(k - 1, relevant, shows, last.shown)
      BY <2>4, <3>1 DEF RowShows
    <3>3. PICK m \in 0..(k - 1) : m \in relevant /\ last.shown = shows[m] /\ \A j \in (m + 1)..(k - 1) : j \notin relevant
      BY <3>2 DEF ShowsFor
    <3>4. m \in 0..k /\ \A j \in (m + 1)..k : j \notin relevant
      BY <1>7, <3>1, <3>3
    <3> QED
      BY <3>3, <3>4 DEF ShowsFor
  <2>8. /\ Laid([out EXCEPT ![Len(out)] = longer], k + 1, relevant, shows)
        /\ Tally([out EXCEPT ![Len(out)] = longer], counted + none)
    <3>1. none \in Int
      BY <2>3
    <3> QED
      BY <1>2, <2>2, <2>3, <2>5, <2>7, <3>1, RowLonger
  <2> QED
    BY <1>2, <1>4, <2>1, <2>3, <2>6, <2>8 DEF ScanInv
<1> QED
  BY <1>4, <1>6, <1>7

ShowsAt(start, end, step) == [i \in Nat |-> ShownBy(start, end, BucketEnd(start, end, step, i))]

(* The rows of a table hold its buckets and count its reports.             *)
LEMMA TableLaid ==
  ASSUME KeptTypeOK, NEW start \in Nat, NEW end \in Nat, start < end, NEW step \in Nat \ {0}
  PROVE  \E out : /\ table_rows(start, end, step) = Reverse(out)
                  /\ Laid(out, BucketCount(start, end, step), Relevant(start, end, step), ShowsAt(start, end, step))
                  /\ Tally(out, ReportsBy(start, end))
<1>1. PICK count, relevant, shows : /\ count = BucketCount(start, end, step)
                                    /\ relevant = Relevant(start, end, step)
                                    /\ shows = ShowsAt(start, end, step)
  OBVIOUS
<1>2. count \in Nat \ {0} /\ BucketEnd(start, end, step, count - 1) = end
  BY <1>1, BucketsEnd
<1>3. 0 \in relevant /\ count - 1 \in relevant
  BY <1>1 DEF Relevant
<1>4. PICK f : BucketScanTo(f, count, relevant, start, end, step) /\ table_rows(start, end, step) = Reverse(f[count].out)
  BY <1>1, <1>2, BucketScanIs
<1>5. f[0] = NoBuckets /\ \A n \in 1..count : f[n] = GatherBucket(f[n - 1], n - 1, relevant, start, end, step)
  BY <1>2, <1>4 DEF BucketScanTo
<1>6. ScanInv(NoBuckets, 0, relevant, shows)
  <2>1. Laid(<<>>, 0, relevant, shows)
    BY DEF Laid
  <2>2. TallyIs([n \in {0} |-> 0], <<>>, 0)
    BY DEF TallyIs
  <2> QED
    BY <2>1, <2>2 DEF ScanInv, NoBuckets, Tally
<1> DEFINE T == {k \in 0..count : ~ScanInv(f[k], k, relevant, shows)}
<1>7. T = {}
  <2> SUFFICES ASSUME T # {}
               PROVE  FALSE
    OBVIOUS
  <2>1. PICK k \in T : \A l \in T : k <= l
    <3>1. T \in SUBSET Nat
      OBVIOUS
    <3> HIDE DEF T
    <3> QED
      BY <3>1, LeastNumber
  <2>2. k # 0
    BY <1>5, <1>6, <2>1
  <2>3. PICK p \in Nat : p = k - 1 /\ p \in 0..count /\ k = p + 1
    BY <1>2, <2>1, <2>2
  <2>4. ScanInv(f[p], p, relevant, shows)
    BY <2>1, <2>3
  <2>5. ScanInv(GatherBucket(f[p], p, relevant, start, end, step), p + 1, relevant, shows)
    BY <1>1, <1>3, <2>4, BucketKeeps DEF ShowsAt
  <2> QED
    BY <1>5, <2>1, <2>2, <2>3, <2>5
<1>8. ScanInv(f[count], count, relevant, shows)
  BY <1>2, <1>7
<1>9. f[count].counted = ReportsBy(start, end)
  <2>1. f[count] = GatherBucket(f[count - 1], count - 1, relevant, start, end, step)
    BY <1>2, <1>5
  <2> QED
    BY <1>2, <1>3, <2>1 DEF GatherBucket
<1> QED
  BY <1>1, <1>4, <1>8, <1>9 DEF ScanInv

(* Every bucket is in one row of a table, which shows what the last        *)
(* relevant bucket before it shows, and the counts of its rows add up to   *)
(* the reports of the range.                                               *)
Cover(list, count, relevant, shows) ==
  \A index \in 0..(count - 1) :
    \E n \in DOMAIN list : /\ {o \in DOMAIN list : list[o].from <= index /\ index <= list[o].to} = {n}
                           /\ ShowsFor(index, relevant, shows, list[n].shown)
SumOf(f, list, total) ==
  /\ f = [n \in 0..Len(list) |-> IF n = 0 THEN 0 ELSE f[n - 1] + list[Len(list) + 1 - n].told]
  /\ f[Len(list)] = total

(* Rows so laid cover the buckets, newest row first.                       *)
LEMMA RowsCover ==
  ASSUME NEW count \in Nat, NEW relevant, NEW shows, NEW out, Laid(out, count, relevant, shows),
         NEW table_, table_ = Reverse(out)
  PROVE  Cover(table_, count, relevant, shows)
<1>1. PICK l \in Nat : l = Len(out) /\ DOMAIN out = 1..l
  BY DEF Laid
<1>2. DOMAIN table_ = 1..l /\ \A n \in 1..l : table_[n] = out[l + 1 - n]
  BY <1>1 DEF Reverse
<1>3. \A n \in 1..l : out[n].from \in Nat /\ out[n].to \in Nat /\ Within(out[n], count)
  <2>1. \A n \in 1..l : out[n] \in TableRow(shows) /\ Within(out[n], count)
    BY <1>1 DEF Laid
  <2> QED
    BY <2>1 DEF TableRow
<1>4. ASSUME NEW index \in 0..(count - 1)
      PROVE  \E n \in 1..l : /\ {o \in 1..l : table_[o].from <= index /\ index <= table_[o].to} = {n}
                             /\ ShowsFor(index, relevant, shows, table_[n].shown)
  <2>1. PICK m \in 1..l : Holds(out[m], index)
    BY <1>1 DEF Laid
  <2>2. PICK n \in 1..l : n = l + 1 - m
    <3>1. l + 1 - m \in 1..l
      OBVIOUS
    <3> QED
      BY <3>1
  <2>3. table_[n] = out[m] /\ l + 1 - n = m
    BY <1>1, <1>2, <2>2
  <2>4. ASSUME NEW o \in 1..l, table_[o].from <= index, index <= table_[o].to
        PROVE  o = n
    <3>1. PICK p \in 1..l : p = l + 1 - o /\ table_[o] = out[p]
      BY <1>1, <1>2
    <3>2. Holds(out[p], index)
      BY <2>4, <3>1 DEF Holds
    <3>3. ~(p < m) /\ ~(m < p)
      <4>1. p < m => out[p].to < out[m].from
        BY <1>1 DEF Laid
      <4>2. m < p => out[m].to < out[p].from
        BY <1>1 DEF Laid
      <4> QED
        BY <1>3, <2>1, <3>2, <4>1, <4>2 DEF Holds
    <3> QED
      BY <1>1, <2>2, <3>1, <3>3
  <2>5. table_[n].from <= index /\ index <= table_[n].to
    BY <2>1, <2>3 DEF Holds
  <2>6. RowShows(out[m], relevant, shows)
    BY <1>1 DEF Laid
  <2>7. ShowsFor(index, relevant, shows, table_[n].shown)
    BY <2>1, <2>3, <2>6 DEF RowShows
  <2>8. {o \in 1..l : table_[o].from <= index /\ index <= table_[o].to} = {n}
    BY <2>4, <2>5
  <2> QED
    BY <2>7, <2>8
<1> QED
  BY <1>2, <1>4 DEF Cover

(* Rows that tally add up, from the oldest on.                             *)
LEMMA RowsSum ==
  ASSUME NEW T, NEW out \in Seq(T), NEW total, Tally(out, total), NEW table_, table_ = Reverse(out)
  PROVE  Len(table_) \in Nat /\ \E f : SumOf(f, table_, total)
<1>1. PICK l \in Nat : l = Len(out) /\ DOMAIN out = 1..l
  OBVIOUS
<1>2. DOMAIN table_ = 1..l /\ Len(table_) = l /\ \A n \in 1..l : table_[n] = out[l + 1 - n]
  BY <1>1 DEF Reverse
<1>3. PICK f : TallyIs(f, out, total)
  BY DEF Tally
<1>4. PICK g : g = [n \in 0..l |-> f[n]]
  OBVIOUS
<1>5. \A n \in 0..l : g[n] = IF n = 0 THEN 0 ELSE g[n - 1] + table_[l + 1 - n].told
  <2> SUFFICES ASSUME NEW n \in 0..l
               PROVE  g[n] = IF n = 0 THEN 0 ELSE g[n - 1] + table_[l + 1 - n].told
    OBVIOUS
  <2>1. CASE n = 0
    BY <1>1, <1>3, <1>4, <2>1 DEF TallyIs
  <2>2. CASE n # 0
    <3>1. n \in 1..l /\ n - 1 \in 0..l /\ l + 1 - n \in 1..l /\ l + 1 - (l + 1 - n) = n
      BY <1>1, <2>2
    <3>2. table_[l + 1 - n] = out[n]
      BY <1>2, <3>1
    <3>3. f[n] = f[n - 1] + out[n].told
      BY <1>1, <1>3, <3>1 DEF TallyIs
    <3> QED
      BY <1>4, <2>2, <3>1, <3>2, <3>3
  <2> QED
    BY <2>1, <2>2
<1>6. g = [n \in 0..l |-> g[n]]
  BY <1>4
<1>7. SumOf(g, table_, total)
  <2>1. g[l] = total
    BY <1>1, <1>3, <1>4 DEF TallyIs
  <2>2. g = [n \in 0..l |-> IF n = 0 THEN 0 ELSE g[n - 1] + table_[l + 1 - n].told]
    BY <1>5, <1>6
  <2> QED
    BY <1>2, <2>1, <2>2 DEF SumOf
<1> QED
  BY <1>2, <1>7

(* A list has one sum.                                                     *)
LEMMA OneSum ==
  ASSUME NEW rows_, Len(rows_) \in Nat, NEW f, NEW total, SumOf(f, rows_, total), NEW g,
         g = [n \in 0..Len(rows_) |-> IF n = 0 THEN 0 ELSE g[n - 1] + rows_[Len(rows_) + 1 - n].told]
  PROVE  g[Len(rows_)] = total
<1>1. PICK l \in Nat : l = Len(rows_)
  OBVIOUS
<1>2. /\ \A n \in 0..l : f[n] = IF n = 0 THEN 0 ELSE f[n - 1] + rows_[l + 1 - n].told
      /\ f[l] = total
  BY <1>1 DEF SumOf
<1>3. \A n \in 0..l : g[n] = IF n = 0 THEN 0 ELSE g[n - 1] + rows_[l + 1 - n].told
  BY <1>1
<1> DEFINE T == {n \in 0..l : f[n] # g[n]}
<1>4. T = {}
  <2> SUFFICES ASSUME T # {}
               PROVE  FALSE
    OBVIOUS
  <2>1. PICK k \in T : \A n \in T : k <= n
    <3>1. T \in SUBSET Nat
      OBVIOUS
    <3> HIDE DEF T
    <3> QED
      BY <3>1, LeastNumber
  <2>2. CASE k = 0
    <3>1. 0 \in 0..l
      OBVIOUS
    <3>2. f[0] = 0 /\ g[0] = 0
      BY <1>2, <1>3, <3>1
    <3> QED
      BY <2>1, <2>2, <3>2
  <2>3. CASE k # 0
    <3>4. k \in 0..l
      OBVIOUS
    <3>5. k - 1 \in 0..l
      <4> HIDE DEF T
      <4> QED
        BY <2>3, <3>4
    <3>1. k - 1 \in 0..l /\ k - 1 \notin T
      <4>1. ~(k <= k - 1)
        BY <3>4
      <4> HIDE DEF T
      <4> QED
        BY <2>1, <3>5, <4>1
    <3>2. f[k - 1] = g[k - 1]
      BY <3>1
    <3>3. f[k] = f[k - 1] + rows_[l + 1 - k].told /\ g[k] = g[k - 1] + rows_[l + 1 - k].told
      <4>1. k \in 0..l
        BY <2>1
      <4> HIDE DEF T
      <4>2. f[k] = IF k = 0 THEN 0 ELSE f[k - 1] + rows_[l + 1 - k].told
        BY <1>2, <4>1, Zenon
      <4>3. g[k] = IF k = 0 THEN 0 ELSE g[k - 1] + rows_[l + 1 - k].told
        BY <1>3, <4>1, Zenon
      <4> QED
        BY <2>3, <4>2, <4>3, Zenon
    <3> QED
      BY <2>1, <3>2, <3>3
  <2> QED
    BY <2>2, <2>3
<1>5. l \in 0..l
  OBVIOUS
<1> QED
  BY <1>1, <1>2, <1>4, <1>5

-----------------------------------------------------------------------------
(* How long an observation nobody vouches for is fresh.                    *)
Until(c) == c.at + Max({Freshness(c.key), Multiplier * c.interval})

(* By its age alone an observation is fresh up to its expiry.              *)
LEMMA FreshUntil ==
  ASSUME NEW c, c.at \in Nat, c.interval \in Nat, ~c.event, NEW now \in Nat
  PROVE  Until(c) \in Nat /\ Expiry(c) = Until(c) /\ (Fresh(c, now) <=> now <= Until(c))
<1>1. ~Vouched(c)
  BY DEF Vouched
<1>2. PICK lasting : lasting = Max({Freshness(c.key), Multiplier * c.interval})
  OBVIOUS
<1>3. Freshness(c.key) \in Nat /\ Multiplier * c.interval \in Nat
  BY FreshnessAssumption DEF Freshness, Multiplier
<1>4. lasting \in Nat
  BY <1>2, <1>3, LargerIsNatural
<1>5. Until(c) = c.at + lasting /\ Expiry(c) = c.at + lasting
  BY <1>1, <1>2 DEF Until, Expiry
<1>6. Lasting(c) = lasting /\ Since(c) = c.at
  BY <1>1, <1>2 DEF Lasting, Since
<1>7. Fresh(c, now) <=> c.at >= now - lasting
  BY <1>6 DEF Fresh
<1> QED
  BY <1>4, <1>5, <1>7

(* No report is event-driven.                                              *)
Unvouched == \A i \in Stored : ~reports[i].event

(* What the rows say, a position's own speed with the rest, in the order   *)
(* it is replayed in.                                                      *)
AsSpeed(c) == [c EXCEPT !.key = "vehicle.speed"]
Raw == {[row |-> x.row, kind |-> 0, cand |-> x.cand] : x \in MetricRows}
         \union {[row |-> x.row, kind |-> 1, cand |-> x.cand] : x \in FixRows}
         \union {[row |-> x.row, kind |-> 1, cand |-> AsSpeed(x.cand)] : x \in FixRows}

(* A row says something typed, and nothing event-driven.                   *)
LEMMA RowsSay ==
  ASSUME KeptTypeOK, Unvouched
  PROVE  /\ \A x \in MetricRows : /\ x.cand \in Said /\ x.row \in 1..Len(reports)
                                  /\ ~x.cand.event /\ x.cand.interval \in Nat /\ x.cand.key # "position"
         /\ \A x \in FixRows : /\ x.cand \in Said /\ AsSpeed(x.cand) \in Said /\ x.row \in 1..Len(reports)
                               /\ ~x.cand.event /\ x.cand.interval \in Nat /\ x.cand.key = "position"
                               /\ x.cand.channel = "gnss" /\ SpeedOfFix(AsSpeed(x.cand))
                               /\ AsSpeed(x.cand).at = x.cand.at /\ AsSpeed(x.cand).interval = x.cand.interval
                               /\ ~AsSpeed(x.cand).event
<1>1. Stored = 1..Len(reports) /\ \A i \in Stored : reports[i] \in Row
  BY DEF KeptTypeOK, Stored
<1>2. \A r \in Row : r.interval \in Nat /\ \A o \in r.observations : o.key # "position"
  BY ReportAssumption DEF Row, Telemetry, Unique
<1>3. ASSUME NEW x \in MetricRows
      PROVE  /\ x.cand \in Said /\ x.row \in 1..Len(reports)
             /\ ~x.cand.event /\ x.cand.interval \in Nat /\ x.cand.key # "position"
  <2>8. PICK i \in Stored : \E o \in reports[i].observations : x = [row |-> i, cand |-> Observed(reports[i], o)]
    BY DEF MetricRows
  <2>2. PICK r : r = reports[i] /\ r \in Row /\ ~r.event
    BY <1>1 DEF Unvouched
  <2>1. PICK o \in r.observations : x = [row |-> i, cand |-> Observed(r, o)]
    BY <2>2, <2>8
  <2>3. x.row = i /\ x.cand = Observed(r, o)
    BY <2>1, <2>2
  <2>4. x.cand \in Said
    BY <2>2, <2>3 DEF Said, Measured
  <2>5. x.cand.event = r.event /\ x.cand.interval = r.interval /\ x.cand.key = o.key
    BY <2>3 DEF Observed
  <2> QED
    BY <1>1, <1>2, <2>2, <2>3, <2>4, <2>5
<1>4. ASSUME NEW x \in FixRows
      PROVE  /\ x.cand \in Said /\ AsSpeed(x.cand) \in Said /\ x.row \in 1..Len(reports)
             /\ ~x.cand.event /\ x.cand.interval \in Nat /\ x.cand.key = "position"
             /\ x.cand.channel = "gnss" /\ SpeedOfFix(AsSpeed(x.cand))
             /\ AsSpeed(x.cand).at = x.cand.at /\ AsSpeed(x.cand).interval = x.cand.interval
             /\ ~AsSpeed(x.cand).event
  <2>8. PICK i \in Stored : \E v \in reports[i].position : x = [row |-> i, cand |-> Fix(reports[i], v)]
    BY DEF FixRows
  <2>2. PICK r : r = reports[i] /\ r \in Row /\ ~r.event
    BY <1>1 DEF Unvouched
  <2>1. PICK v \in r.position : x = [row |-> i, cand |-> Fix(r, v)]
    BY <2>2, <2>8
  <2>3. PICK c : c = x.cand /\ x.row = i /\ c = Fix(r, v)
    BY <2>1, <2>2
  <2>4. c = [key |-> "position", value |-> v, at |-> r.observed, source |-> r.source, channel |-> "gnss",
             method |-> "direct", interval |-> r.interval, event |-> r.event, contact |-> NoContact, window |-> 0]
    BY <2>3 DEF Fix, Observed
  <2>5. AsSpeed(c) = [key |-> "vehicle.speed", value |-> v, at |-> r.observed, source |-> r.source, channel |-> "gnss",
             method |-> "direct", interval |-> r.interval, event |-> r.event, contact |-> NoContact, window |-> 0]
    BY <2>4 DEF AsSpeed
  <2>6. AsSpeed(c) = FixSpeed(r, v)
    BY <2>5 DEF FixSpeed, Observed
  <2>7. c \in Said /\ AsSpeed(c) \in Said
    BY <2>2, <2>3, <2>6 DEF Said, Speeds, Fixes
  <2> QED
    BY <1>1, <1>2, <2>2, <2>3, <2>4, <2>5, <2>7 DEF SpeedOfFix
<1> QED
  BY <1>3, <1>4

(* So does what is replayed: a metric, a position or its speed.            *)
LEMMA RawIs ==
  ASSUME KeptTypeOK, Unvouched, NEW w \in Raw
  PROVE  /\ w.cand \in Said /\ w.row \in 1..Len(reports) /\ w.kind \in {0, 1}
         /\ w.cand.at \in 1..MaxClock /\ ~w.cand.event /\ w.cand.interval \in Nat
         /\ \/ w.kind = 0 /\ w.cand.key # "position" /\ \E x \in MetricRows : x.row = w.row /\ x.cand = w.cand
            \/ w.kind = 1 /\ w.cand.key = "position" /\ \E x \in FixRows : x.row = w.row /\ x.cand = w.cand
            \/ w.kind = 1 /\ SpeedOfFix(w.cand) /\ \E x \in FixRows : x.row = w.row /\ AsSpeed(x.cand) = w.cand
<1>1. CASE \E x \in MetricRows : w = [row |-> x.row, kind |-> 0, cand |-> x.cand]
  <2>1. PICK x \in MetricRows : w = [row |-> x.row, kind |-> 0, cand |-> x.cand]
    BY <1>1
  <2>2. w.row = x.row /\ w.kind = 0 /\ w.cand = x.cand
    BY <2>1
  <2>3. /\ x.cand \in Said /\ x.row \in 1..Len(reports)
        /\ ~x.cand.event /\ x.cand.interval \in Nat /\ x.cand.key # "position"
    BY RowsSay
  <2>4. x.cand.at \in 1..MaxClock
    BY <2>3, SaidIs
  <2> QED
    BY <2>2, <2>3, <2>4
<1>2. CASE \E x \in FixRows : w = [row |-> x.row, kind |-> 1, cand |-> x.cand]
  <2>1. PICK x \in FixRows : w = [row |-> x.row, kind |-> 1, cand |-> x.cand]
    BY <1>2
  <2>2. w.row = x.row /\ w.kind = 1 /\ w.cand = x.cand
    BY <2>1
  <2>3. /\ x.cand \in Said /\ x.row \in 1..Len(reports)
        /\ ~x.cand.event /\ x.cand.interval \in Nat /\ x.cand.key = "position"
    BY RowsSay
  <2>4. x.cand.at \in 1..MaxClock
    BY <2>3, SaidIs
  <2> QED
    BY <2>2, <2>3, <2>4
<1>3. CASE \E x \in FixRows : w = [row |-> x.row, kind |-> 1, cand |-> AsSpeed(x.cand)]
  <2>1. PICK x \in FixRows : w = [row |-> x.row, kind |-> 1, cand |-> AsSpeed(x.cand)]
    BY <1>3
  <2>2. PICK c : c = AsSpeed(x.cand) /\ w.row = x.row /\ w.kind = 1 /\ w.cand = c
    BY <2>1
  <2>3. /\ c \in Said /\ x.row \in 1..Len(reports) /\ SpeedOfFix(c)
        /\ ~c.event /\ c.interval \in Nat
    BY <2>2, RowsSay
  <2>4. c.at \in 1..MaxClock
    BY <2>3, SaidIs
  <2> QED
    BY <2>2, <2>3, <2>4
<1> QED
  BY <1>1, <1>2, <1>3 DEF Raw

(* An observation with its source's contact reads the same.                *)
LEMMA ContactSame ==
  ASSUME NEW c \in Said, NEW by, c.interval \in Nat, ~c.event, NEW now \in Nat
  PROVE  /\ Alike(InContact(c, by), c) /\ Alike(c, InContact(c, by)) /\ Expiry(InContact(c, by)) = Until(c)
         /\ Until(c) \in Nat /\ (Fresh(InContact(c, by), now) <=> now <= Until(c))
         /\ (Fresh(c, now) <=> now <= Until(c))
<1>1. PICK key, value, at, source, channel, method, interval, event, contact, window :
        c = [key |-> key, value |-> value, at |-> at, source |-> source, channel |-> channel,
             method |-> method, interval |-> interval, event |-> event, contact |-> contact, window |-> window]
  BY SaidIs
<1>2. PICK d : d = InContact(c, by)
  OBVIOUS
<1>3. /\ d.key = c.key /\ d.value = c.value /\ d.at = c.at /\ d.source = c.source /\ d.channel = c.channel
      /\ d.method = c.method /\ d.interval = c.interval /\ d.event = c.event
  BY <1>1, <1>2 DEF InContact
<1>4. Alike(d, c) /\ Alike(c, d)
  BY <1>3 DEF Alike
<1>5. c.at \in Nat
  BY SaidIs
<1>6. Until(d) = Until(c)
  BY <1>3 DEF Until
<1>7. Until(d) \in Nat /\ Expiry(d) = Until(d) /\ (Fresh(d, now) <=> now <= Until(d))
  BY <1>3, <1>5, FreshUntil
<1>8. Fresh(c, now) <=> now <= Until(c)
  BY <1>5, FreshUntil
<1> QED
  BY <1>2, <1>4, <1>6, <1>7, <1>8

InContactWith(w, by) == [row |-> w.row, kind |-> w.kind, cand |-> InContact(w.cand, by)]

(* _events are what the rows say within a range, with their contacts.      *)
LEMMA EventsAre ==
  ASSUME KeptTypeOK, Unvouched, NEW start \in Nat, NEW end \in Nat
  PROVE  Events(start, end) = {InContactWith(w, end) : w \in {y \in Raw : start < y.cand.at /\ y.cand.at <= end}}
<1> DEFINE within(x) == x.cand.at > start /\ x.cand.at <= end
           event(x, c, kind) == [row |-> x.row, kind |-> kind, cand |-> InContact(c, end)]
           speed(c) == [c EXCEPT !.key = "vehicle.speed"]
           R == {y \in Raw : start < y.cand.at /\ y.cand.at <= end}
<1>1. Events(start, end) =
        {event(x, x.cand, 0) : x \in {y \in MetricRows : within(y)}}
      \union {event(x, x.cand, 1) : x \in {y \in FixRows : within(y)}}
      \union {event(x, speed(x.cand), 1) : x \in {y \in FixRows : within(y)}}
  BY DEF Events
<1>2. ASSUME NEW x \in MetricRows, within(x)
      PROVE  \E w \in R : event(x, x.cand, 0) = InContactWith(w, end)
  <2>1. PICK w : w = [row |-> x.row, kind |-> 0, cand |-> x.cand]
    OBVIOUS
  <2>2. w \in Raw /\ w.row = x.row /\ w.kind = 0 /\ w.cand = x.cand
    BY <2>1 DEF Raw
  <2>3. x.cand.at \in Nat
    BY RowsSay, SaidIs
  <2> QED
    BY <1>2, <2>2, <2>3 DEF InContactWith
<1>3. ASSUME NEW x \in FixRows, within(x)
      PROVE  /\ \E w \in R : event(x, x.cand, 1) = InContactWith(w, end)
             /\ \E w \in R : event(x, speed(x.cand), 1) = InContactWith(w, end)
  <2>1. PICK w : w = [row |-> x.row, kind |-> 1, cand |-> x.cand]
    OBVIOUS
  <2>2. w \in Raw /\ w.row = x.row /\ w.kind = 1 /\ w.cand = x.cand
    BY <2>1 DEF Raw
  <2>3. PICK z : z = [row |-> x.row, kind |-> 1, cand |-> AsSpeed(x.cand)]
    OBVIOUS
  <2>4. z \in Raw /\ z.row = x.row /\ z.kind = 1 /\ z.cand = AsSpeed(x.cand)
    BY <2>3 DEF Raw
  <2>5. x.cand.at \in Nat /\ AsSpeed(x.cand).at = x.cand.at
    BY RowsSay, SaidIs
  <2>6. speed(x.cand) = AsSpeed(x.cand)
    BY DEF AsSpeed
  <2> QED
    BY <1>3, <2>2, <2>4, <2>5, <2>6 DEF InContactWith
<1>4. ASSUME NEW w \in R
      PROVE  InContactWith(w, end) \in Events(start, end)
  <2>1. CASE \E x \in MetricRows : w = [row |-> x.row, kind |-> 0, cand |-> x.cand]
    <3>1. PICK x \in MetricRows : w = [row |-> x.row, kind |-> 0, cand |-> x.cand]
      BY <2>1
    <3>2. w.row = x.row /\ w.kind = 0 /\ w.cand = x.cand
      BY <3>1
    <3>3. x.cand.at \in Nat
      BY RowsSay, SaidIs
    <3>4. within(x)
      BY <3>2, <3>3
    <3>5. InContactWith(w, end) = event(x, x.cand, 0)
      BY <3>2 DEF InContactWith
    <3> QED
      BY <1>1, <3>4, <3>5
  <2>2. CASE \E x \in FixRows : w = [row |-> x.row, kind |-> 1, cand |-> x.cand]
    <3>1. PICK x \in FixRows : w = [row |-> x.row, kind |-> 1, cand |-> x.cand]
      BY <2>2
    <3>2. w.row = x.row /\ w.kind = 1 /\ w.cand = x.cand
      BY <3>1
    <3>3. x.cand.at \in Nat
      BY RowsSay, SaidIs
    <3>4. within(x)
      BY <3>2, <3>3
    <3>5. InContactWith(w, end) = event(x, x.cand, 1)
      BY <3>2 DEF InContactWith
    <3> QED
      BY <1>1, <3>4, <3>5
  <2>3. CASE \E x \in FixRows : w = [row |-> x.row, kind |-> 1, cand |-> AsSpeed(x.cand)]
    <3>1. PICK x \in FixRows : w = [row |-> x.row, kind |-> 1, cand |-> AsSpeed(x.cand)]
      BY <2>3
    <3>2. w.row = x.row /\ w.kind = 1 /\ w.cand = AsSpeed(x.cand)
      BY <3>1
    <3>3. x.cand.at \in Nat /\ AsSpeed(x.cand).at = x.cand.at
      BY RowsSay, SaidIs
    <3>4. within(x)
      BY <3>2, <3>3
    <3>5. InContactWith(w, end) = event(x, speed(x.cand), 1)
      BY <3>2 DEF InContactWith, AsSpeed
    <3> QED
      BY <1>1, <3>4, <3>5
  <2> QED
    BY <2>1, <2>2, <2>3 DEF Raw
<1>5. \A e \in Events(start, end) : \E w \in R : e = InContactWith(w, end)
  <2> HIDE DEF R
  <2> QED
    BY <1>1, <1>2, <1>3
<1>6. Events(start, end) \subseteq {InContactWith(w, end) : w \in R}
  <2> HIDE DEF R
  <2> QED
    BY <1>5
<1>7. {InContactWith(w, end) : w \in R} \subseteq Events(start, end)
  <2> HIDE DEF R
  <2> QED
    BY <1>4
<1> QED
  BY <1>6, <1>7, Zenon

(* The newest of what was said in a time, of each candidate.               *)
InTime(w, start, by) == w \in Raw /\ start < w.cand.at /\ w.cand.at <= by
Leading(w, start, by) ==
  /\ InTime(w, start, by)
  /\ \A z : InTime(z, start, by) /\ SameCandidate(w.cand, z.cand) => ~Newer(z, w)

(* What a replay leaves behind is what leads in its time.                  *)
LEMMA LastSaidIs ==
  ASSUME KeptTypeOK, Unvouched, NEW start \in Nat, NEW end \in Nat, NEW by \in Nat, by <= end, NEW c
  PROVE  c \in LastSaid(Events(start, end), by) <=> \E w : Leading(w, start, by) /\ c = InContact(w.cand, end)
<1>1. PICK events : events = Events(start, end)
  OBVIOUS
<1>2. \A w \in Raw : w.cand \in Said /\ w.cand.at \in Nat
  BY RawIs, ReportAssumption
<1>3. \A w \in Raw : /\ InContactWith(w, end).cand = InContact(w.cand, end)
                     /\ InContactWith(w, end).row = w.row /\ InContactWith(w, end).kind = w.kind
                     /\ InContactWith(w, end).cand.at = w.cand.at
  <2> SUFFICES ASSUME NEW w \in Raw
               PROVE  /\ InContactWith(w, end).cand = InContact(w.cand, end)
                      /\ InContactWith(w, end).row = w.row /\ InContactWith(w, end).kind = w.kind
                      /\ InContactWith(w, end).cand.at = w.cand.at
    OBVIOUS
  <2>1. /\ InContactWith(w, end).cand = InContact(w.cand, end)
        /\ InContactWith(w, end).row = w.row /\ InContactWith(w, end).kind = w.kind
    BY DEF InContactWith
  <2>2. InContact(w.cand, end).at = w.cand.at
    BY <1>2, ContactAside
  <2> QED
    BY <2>1, <2>2
<1>4. \A w, z \in Raw :
        /\ SameCandidate(InContactWith(w, end).cand, InContactWith(z, end).cand) <=> SameCandidate(w.cand, z.cand)
        /\ Newer(InContactWith(z, end), InContactWith(w, end)) <=> Newer(z, w)
  <2> SUFFICES ASSUME NEW w \in Raw, NEW z \in Raw
               PROVE  /\ SameCandidate(InContactWith(w, end).cand, InContactWith(z, end).cand)
                           <=> SameCandidate(w.cand, z.cand)
                      /\ Newer(InContactWith(z, end), InContactWith(w, end)) <=> Newer(z, w)
    OBVIOUS
  <2>1. SameCandidate(InContactWith(w, end).cand, InContactWith(z, end).cand) <=> SameCandidate(w.cand, z.cand)
    BY <1>2, <1>3, ContactAside DEF SameCandidate
  <2>2. Newer(InContactWith(z, end), InContactWith(w, end)) <=> Newer(z, w)
    BY <1>3 DEF Newer
  <2> QED
    BY <2>1, <2>2
<1>5. /\ \A e \in events : \E w : InTime(w, start, end) /\ e = InContactWith(w, end)
      /\ \A w : InTime(w, start, end) => InContactWith(w, end) \in events
  BY <1>1, EventsAre DEF InTime
<1>6. \A w : InTime(w, start, by) => InTime(w, start, end)
  BY <1>2 DEF InTime
<1> DEFINE known == {x \in events : x.cand.at <= by}
<1>7. /\ \A e \in known : \E w : InTime(w, start, by) /\ e = InContactWith(w, end)
      /\ \A w : InTime(w, start, by) => InContactWith(w, end) \in known
  <2>1. ASSUME NEW e \in known
        PROVE  \E w : InTime(w, start, by) /\ e = InContactWith(w, end)
    <3>1. PICK w : InTime(w, start, end) /\ e = InContactWith(w, end)
      BY <1>5
    <3>2. e.cand.at <= by
      OBVIOUS
    <3> HIDE DEF known
    <3> QED
      BY <1>3, <3>1, <3>2 DEF InTime
  <2>2. ASSUME NEW w, InTime(w, start, by)
        PROVE  InContactWith(w, end) \in known
    BY <1>3, <1>5, <1>6, <2>2 DEF InTime
  <2> QED
    BY <2>1, <2>2
<1>8. LastSaid(events, by)
        = {x.cand : x \in {y \in known : ~\E z \in known : SameCandidate(y.cand, z.cand) /\ Newer(z, y)}}
  BY DEF LastSaid
<1> HIDE DEF known
<1>9. ASSUME c \in LastSaid(events, by)
      PROVE  \E w : Leading(w, start, by) /\ c = InContact(w.cand, end)
  <2>1. PICK y \in known : c = y.cand /\ ~\E z \in known : SameCandidate(y.cand, z.cand) /\ Newer(z, y)
    BY <1>8, <1>9
  <2>2. PICK w : InTime(w, start, by) /\ y = InContactWith(w, end)
    BY <1>7
  <2>3. w \in Raw
    BY <2>2 DEF InTime
  <2>4. ASSUME NEW z, InTime(z, start, by), SameCandidate(w.cand, z.cand)
        PROVE  ~Newer(z, w)
    <3>1. z \in Raw /\ InContactWith(z, end) \in known
      BY <1>7, <2>4 DEF InTime
    <3> QED
      BY <1>4, <2>1, <2>2, <2>3, <2>4, <3>1
  <2>5. Leading(w, start, by)
    BY <2>2, <2>4 DEF Leading
  <2> QED
    BY <1>3, <2>1, <2>2, <2>3, <2>5
<1>10. ASSUME NEW w, Leading(w, start, by), c = InContact(w.cand, end)
       PROVE  c \in LastSaid(events, by)
  <2>1. InTime(w, start, by) /\ w \in Raw
    BY <1>10 DEF Leading, InTime
  <2>2. PICK y \in known : y = InContactWith(w, end)
    BY <1>7, <2>1
  <2>3. ASSUME NEW e \in known, SameCandidate(y.cand, e.cand)
        PROVE  ~Newer(e, y)
    <3>1. PICK z : InTime(z, start, by) /\ e = InContactWith(z, end)
      BY <1>7
    <3>2. z \in Raw
      BY <3>1 DEF InTime
    <3>3. SameCandidate(w.cand, z.cand)
      BY <1>4, <2>1, <2>2, <2>3, <3>1, <3>2
    <3>4. ~Newer(z, w)
      BY <1>10, <3>1, <3>3 DEF Leading
    <3> QED
      BY <1>4, <2>1, <2>2, <3>1, <3>2, <3>4
  <2>4. c = y.cand
    BY <1>3, <1>10, <2>1, <2>2
  <2> QED
    BY <1>8, <2>3, <2>4
<1> QED
  BY <1>1, <1>9, <1>10

(* Of what was said of a candidate in a time something is the newest.      *)
LEMMA SomeLeading ==
  ASSUME KeptTypeOK, Unvouched, NEW start \in Nat, NEW by \in Nat, NEW w, InTime(w, start, by)
  PROVE  \E z : Leading(z, start, by) /\ SameCandidate(w.cand, z.cand)
<1> DEFINE S == {z \in Raw : InTime(z, start, by) /\ SameCandidate(w.cand, z.cand)}
<1>1. PICK len \in Nat : len = Len(reports)
  BY DEF KeptTypeOK
<1>2. w \in S
  BY DEF InTime, SameCandidate
<1>3. \A z \in S : z.row \in 0..len /\ z.kind \in 0..1 /\ z.cand.at \in Nat /\ z.cand.at <= by
  BY <1>1, RawIs, ReportAssumption DEF InTime
<1>4. \A z \in S : InTime(z, start, by) /\ SameCandidate(w.cand, z.cand)
  OBVIOUS
<1>5. \A z : InTime(z, start, by) /\ SameCandidate(w.cand, z.cand) => z \in S
  BY DEF InTime
<1> HIDE DEF S
<1> DEFINE times == {z.cand.at : z \in S}
<1>6. times \in SUBSET Nat /\ times # {} /\ \A n \in times : n <= by
  BY <1>2, <1>3
<1>7. PICK at \in times : \A n \in times : n <= at
  <2> HIDE DEF times
  <2> QED
    BY <1>6, GreatestNumber
<1> DEFINE kinds == {z.kind : z \in {y \in S : y.cand.at = at}}
<1>8. kinds \in SUBSET Nat /\ kinds # {} /\ \A n \in kinds : n <= 1
  BY <1>3, <1>7
<1>9. PICK kind \in kinds : \A n \in kinds : n <= kind
  <2> HIDE DEF kinds
  <2> QED
    BY <1>8, GreatestNumber
<1> DEFINE told == {z.row : z \in {y \in S : y.cand.at = at /\ y.kind = kind}}
<1>10. told \in SUBSET Nat /\ told # {} /\ \A n \in told : n <= len
  BY <1>3, <1>9
<1>11. PICK row \in told : \A n \in told : n <= row
  <2> HIDE DEF told
  <2> QED
    BY <1>1, <1>10, GreatestNumber
<1>12. PICK z \in S : z.cand.at = at /\ z.kind = kind /\ z.row = row
  BY <1>11
<1>13. ASSUME NEW y \in S
       PROVE  ~Newer(y, z)
  <2>1. y.cand.at <= at /\ y.cand.at \in Nat /\ at \in Nat
    BY <1>3, <1>7, <1>12
  <2>2. y.cand.at = at => y.kind <= kind /\ y.kind \in Nat /\ kind \in Nat
    BY <1>3, <1>9, <1>12
  <2>3. y.cand.at = at /\ y.kind = kind => y.row <= row /\ y.row \in Nat /\ row \in Nat
    BY <1>3, <1>11, <1>12
  <2> HIDE DEF times, kinds, told
  <2> QED
    BY <1>12, <2>1, <2>2, <2>3 DEF Newer
<1>14. ASSUME NEW y, InTime(y, start, by), SameCandidate(z.cand, y.cand)
       PROVE  ~Newer(y, z)
  <2>1. SameCandidate(w.cand, y.cand)
    BY <1>4, <1>14 DEF SameCandidate
  <2> QED
    BY <1>5, <1>13, <1>14, <2>1
<1> QED
  BY <1>4, <1>14 DEF Leading

-----------------------------------------------------------------------------
(* The metrics and the fixes of a state, and the rows they come from.      *)
Side(state, fixes) == IF fixes THEN state.fixes ELSE state.metrics
RowsOf(fixes) == IF fixes THEN FixRows ELSE MetricRows
OfSide(c, fixes) == (c.key = "position") <=> fixes
FirstRow(x, known, by) ==
  /\ x \in known /\ x.cand.at <= by
  /\ \A z \in known : z.cand.at <= by /\ SameCandidate(x.cand, z.cand)
       => ~(z.cand.at > x.cand.at \/ (z.cand.at = x.cand.at /\ z.row > x.row))

(* _latest_metric_rows and _latest_position_rows give such rows.           *)
LEMMA LatestRowsIs ==
  ASSUME NEW known, NEW by, NEW c
  PROVE  c \in LatestRows(known, by) <=> \E x : FirstRow(x, known, by) /\ c = x.cand
<1> DEFINE K == {x \in known : x.cand.at <= by}
           Later(x, y) == \/ x.cand.at > y.cand.at
                          \/ x.cand.at = y.cand.at /\ x.row > y.row
           Top == {y \in K : ~\E z \in K : SameCandidate(y.cand, z.cand) /\ Later(z, y)}
<1>1. LatestRows(known, by) = {x.cand : x \in Top}
  BY DEF LatestRows
<1>2. \A x : x \in Top <=> FirstRow(x, known, by)
  BY DEF FirstRow
<1> HIDE DEF Top
<1> QED
  BY <1>1, <1>2

(* A row is an event.                                                      *)
LEMMA RowIsRaw ==
  ASSUME NEW fixes \in BOOLEAN, NEW x \in RowsOf(fixes)
  PROVE  \E w \in Raw : w.row = x.row /\ w.cand = x.cand /\ w.kind = IF fixes THEN 1 ELSE 0
<1>1. CASE fixes
  <2>1. PICK w : w = [row |-> x.row, kind |-> 1, cand |-> x.cand]
    OBVIOUS
  <2>2. w \in Raw
    BY <1>1, <2>1 DEF Raw, RowsOf
  <2>3. w.row = x.row /\ w.kind = 1 /\ w.cand = x.cand
    BY <2>1
  <2> QED
    BY <1>1, <2>2, <2>3
<1>2. CASE ~fixes
  <2>1. PICK w : w = [row |-> x.row, kind |-> 0, cand |-> x.cand]
    OBVIOUS
  <2>2. w \in Raw
    BY <1>2, <2>1 DEF Raw, RowsOf
  <2>3. w.row = x.row /\ w.kind = 0 /\ w.cand = x.cand
    BY <2>1
  <2> QED
    BY <1>2, <2>2, <2>3
<1> QED
  BY <1>1, <1>2

(* Of one row a candidate is said once.                                    *)
LEMMA SaidOnce ==
  ASSUME KeptTypeOK, NEW fixes \in BOOLEAN, NEW x \in RowsOf(fixes), NEW y \in RowsOf(fixes),
         x.row = y.row, SameCandidate(x.cand, y.cand)
  PROVE  x.cand = y.cand
<1>1. Stored = 1..Len(reports) /\ \A i \in Stored : reports[i] \in Row
  BY DEF KeptTypeOK, Stored
<1>2. \A r \in Row : /\ \A o, p \in r.observations : o.key = p.key /\ o.channel = p.channel => o = p
                     /\ \A v, w \in r.position : v = w
  BY ReportAssumption DEF Row, Telemetry, Unique
<1>3. CASE fixes
  <2>1. PICK i \in Stored : \E v \in reports[i].position : x = [row |-> i, cand |-> Fix(reports[i], v)]
    BY <1>3 DEF FixRows, RowsOf
  <2>2. PICK j \in Stored : \E v \in reports[j].position : y = [row |-> j, cand |-> Fix(reports[j], v)]
    BY <1>3 DEF FixRows, RowsOf
  <2>3. x.row = i /\ y.row = j
    BY <2>1, <2>2
  <2>4. PICK r \in Row : r = reports[i] /\ r = reports[j]
    BY <1>1, <2>3
  <2>5. PICK v \in r.position : x = [row |-> i, cand |-> Fix(r, v)]
    BY <2>1, <2>4
  <2>6. PICK w \in r.position : y = [row |-> j, cand |-> Fix(r, w)]
    BY <2>2, <2>4
  <2>7. v = w
    BY <1>2
  <2> QED
    BY <2>5, <2>6, <2>7
<1>4. CASE ~fixes
  <2>1. PICK i \in Stored : \E o \in reports[i].observations : x = [row |-> i, cand |-> Observed(reports[i], o)]
    BY <1>4 DEF MetricRows, RowsOf
  <2>2. PICK j \in Stored : \E o \in reports[j].observations : y = [row |-> j, cand |-> Observed(reports[j], o)]
    BY <1>4 DEF MetricRows, RowsOf
  <2>3. x.row = i /\ y.row = j
    BY <2>1, <2>2
  <2>4. PICK r \in Row : r = reports[i] /\ r = reports[j]
    BY <1>1, <2>3
  <2>5. PICK o \in r.observations : x = [row |-> i, cand |-> Observed(r, o)]
    BY <2>1, <2>4
  <2>6. PICK p \in r.observations : y = [row |-> j, cand |-> Observed(r, p)]
    BY <2>2, <2>4
  <2>7. /\ x.cand.key = o.key /\ x.cand.channel = o.channel
        /\ y.cand.key = p.key /\ y.cand.channel = p.channel
    BY <2>5, <2>6 DEF Observed
  <2>8. o = p
    BY <1>2, <2>7 DEF SameCandidate
  <2> QED
    BY <2>5, <2>6, <2>8
<1> QED
  BY <1>3, <1>4

(* What the replay of a range holds of each side, and what the replay of   *)
(* everything does.                                                        *)
LEMMA ReplayedSide ==
  ASSUME NEW base, NEW events, NEW by, NEW fixes \in BOOLEAN, NEW c
  PROVE  c \in Side(Replayed(base, events, by), fixes)
           <=> \/ c \in LastSaid(events, by) /\ OfSide(c, fixes)
               \/ c \in Side(base, fixes) /\ \A d \in LastSaid(events, by) : ~SameCandidate(c, d)
<1>1. PICK last : last = LastSaid(events, by)
  OBVIOUS
<1> DEFINE kept(S) == {b \in S : ~\E d \in last : SameCandidate(b, d)}
<1>2. PICK state : state = Replayed(base, events, by)
  OBVIOUS
<1>3. state = [metrics |-> kept(base.metrics) \union {b \in last : b.key # "position"},
               fixes   |-> kept(base.fixes) \union {b \in last : b.key = "position"}]
  BY <1>1, <1>2 DEF Replayed
<1>4. CASE fixes
  <2>1. Side(state, fixes) = kept(base.fixes) \union {b \in last : b.key = "position"} /\ Side(base, fixes) = base.fixes
    BY <1>3, <1>4 DEF Side
  <2> QED
    BY <1>1, <1>2, <1>4, <2>1 DEF OfSide
<1>5. CASE ~fixes
  <2>1. Side(state, fixes) = kept(base.metrics) \union {b \in last : b.key # "position"} /\ Side(base, fixes) = base.metrics
    BY <1>3, <1>5 DEF Side
  <2> QED
    BY <1>1, <1>2, <1>5, <2>1 DEF OfSide
<1> QED
  BY <1>4, <1>5

(* A side of what the replay of a range holds.                             *)
LEMMA ShownSide ==
  ASSUME KeptTypeOK, Unvouched, NEW start \in Nat, NEW end \in Nat, NEW by \in Nat, by <= end,
         NEW fixes \in BOOLEAN, NEW c
  PROVE  c \in Side(Replayed(candidate_state_at(start), Events(start, end), by), fixes)
           <=> \/ \E w : Leading(w, start, by) /\ OfSide(w.cand, fixes) /\ c = InContact(w.cand, end)
               \/ \E x : /\ FirstRow(x, RowsOf(fixes), start) /\ c = InContact(x.cand, start)
                         /\ \A w : Leading(w, start, by) => ~SameCandidate(x.cand, w.cand)
<1>1. PICK last : last = LastSaid(Events(start, end), by)
  OBVIOUS
<1>2. \A d : d \in last <=> \E w : Leading(w, start, by) /\ d = InContact(w.cand, end)
  BY <1>1, LastSaidIs
<1>3. \A w : Leading(w, start, by) => w.cand \in Said
  BY RawIs DEF Leading, InTime
<1>4. \A x \in RowsOf(fixes) : x.cand \in Said
  BY RowsSay DEF RowsOf
<1>5. \A a \in Said : \A at : /\ InContact(a, at).source = a.source /\ InContact(a, at).key = a.key
                              /\ InContact(a, at).channel = a.channel
  BY ContactAside
<1>6. \A d : d \in Side(candidate_state_at(start), fixes)
               <=> \E x : FirstRow(x, RowsOf(fixes), start) /\ d = InContact(x.cand, start)
  <2>1. PICK state : state = candidate_state_at(start)
    OBVIOUS
  <2>2. state = [metrics |-> {InContact(a, start) : a \in LatestRows(MetricRows, start)},
                 fixes   |-> {InContact(a, start) : a \in LatestRows(FixRows, start)}]
    BY <2>1 DEF candidate_state_at
  <2>3. Side(state, fixes) = {InContact(a, start) : a \in LatestRows(RowsOf(fixes), start)}
    BY <2>2 DEF Side, RowsOf
  <2>4. \A a : a \in LatestRows(RowsOf(fixes), start) <=> \E x : FirstRow(x, RowsOf(fixes), start) /\ a = x.cand
    BY LatestRowsIs
  <2> QED
    BY <2>1, <2>3, <2>4
<1>7. \A w : Leading(w, start, by) => (OfSide(InContact(w.cand, end), fixes) <=> OfSide(w.cand, fixes))
  BY <1>3, <1>5 DEF OfSide
<1>8. \A w, x : Leading(w, start, by) /\ FirstRow(x, RowsOf(fixes), start)
        => (SameCandidate(InContact(x.cand, start), InContact(w.cand, end)) <=> SameCandidate(x.cand, w.cand))
  BY <1>3, <1>4, <1>5 DEF SameCandidate, FirstRow
<1>9. c \in Side(Replayed(candidate_state_at(start), Events(start, end), by), fixes)
        <=> \/ c \in last /\ OfSide(c, fixes)
            \/ c \in Side(candidate_state_at(start), fixes) /\ \A d \in last : ~SameCandidate(c, d)
  BY <1>1, ReplayedSide
<1>10. c \in last /\ OfSide(c, fixes) <=> \E w : Leading(w, start, by) /\ OfSide(w.cand, fixes) /\ c = InContact(w.cand, end)
  BY <1>2, <1>7
<1>11. (c \in Side(candidate_state_at(start), fixes) /\ \A d \in last : ~SameCandidate(c, d))
        <=> \E x : /\ FirstRow(x, RowsOf(fixes), start) /\ c = InContact(x.cand, start)
                   /\ \A w : Leading(w, start, by) => ~SameCandidate(x.cand, w.cand)
  <2>1. ASSUME c \in Side(candidate_state_at(start), fixes), \A d \in last : ~SameCandidate(c, d)
        PROVE  \E x : /\ FirstRow(x, RowsOf(fixes), start) /\ c = InContact(x.cand, start)
                      /\ \A w : Leading(w, start, by) => ~SameCandidate(x.cand, w.cand)
    <3>1. PICK x : FirstRow(x, RowsOf(fixes), start) /\ c = InContact(x.cand, start)
      BY <1>6, <2>1
    <3> QED
      BY <1>2, <1>8, <2>1, <3>1
  <2>2. ASSUME NEW x, FirstRow(x, RowsOf(fixes), start), c = InContact(x.cand, start),
               \A w : Leading(w, start, by) => ~SameCandidate(x.cand, w.cand)
        PROVE  c \in Side(candidate_state_at(start), fixes) /\ \A d \in last : ~SameCandidate(c, d)
    <3>1. c \in Side(candidate_state_at(start), fixes)
      BY <1>6, <2>2
    <3>2. ASSUME NEW d \in last PROVE ~SameCandidate(c, d)
      <4>1. PICK w : Leading(w, start, by) /\ d = InContact(w.cand, end)
        BY <1>2
      <4> QED
        BY <1>8, <2>2, <4>1
    <3> QED
      BY <3>1, <3>2
  <2> QED
    BY <2>1, <2>2
<1> QED
  BY <1>9, <1>10, <1>11

(* A side of what the replay of everything holds.                          *)
LEMMA TrueSide ==
  ASSUME KeptTypeOK, Unvouched, NEW by \in Nat, NEW fixes \in BOOLEAN, NEW c
  PROVE  c \in Side(Truth(by), fixes) <=> \E w : Leading(w, 0, by) /\ OfSide(w.cand, fixes) /\ c = InContact(w.cand, by)
<1>1. PICK none \in Nat : none = 0
  OBVIOUS
<1>2. PICK last : last = LastSaid(Events(none, by), by)
  OBVIOUS
<1>3. \A d : d \in last <=> \E w : Leading(w, none, by) /\ d = InContact(w.cand, by)
  BY <1>2, LastSaidIs
<1>4. \A w : Leading(w, none, by) => (OfSide(InContact(w.cand, by), fixes) <=> OfSide(w.cand, fixes))
  <2>1. \A w : Leading(w, none, by) => w.cand \in Said
    BY RawIs DEF Leading, InTime
  <2> QED
    BY <2>1, ContactAside DEF OfSide
<1>5. PICK empty : empty = [metrics |-> {}, fixes |-> {}]
  OBVIOUS
<1>6. Side(empty, fixes) = {}
  BY <1>5 DEF Side
<1>7. Truth(by) = Replayed(empty, Events(none, by), by)
  BY <1>1, <1>5 DEF Truth
<1>8. c \in Side(Truth(by), fixes) <=> c \in last /\ OfSide(c, fixes)
  BY <1>2, <1>6, <1>7, ReplayedSide
<1> QED
  BY <1>1, <1>3, <1>4, <1>8

(* Between two moments nothing is said, nothing said from a start on       *)
(* expires, and nothing from before it does that was fresh.                *)
Still(start, b, e) ==
  /\ \A w \in Raw : ~(b < w.cand.at /\ w.cand.at <= e)
  /\ \A w \in Raw : start < w.cand.at /\ w.cand.at <= b /\ b <= Until(w.cand) => e <= Until(w.cand)
  /\ \A x \in MetricRows \union FixRows : x.cand.at <= start /\ start + 1 <= Until(x.cand)
       => e <= Until(x.cand) /\ x.cand.key # "position" /\ ~SpeedOfFix(x.cand)

(* What leads in a longer time, and is not from before a shorter one,      *)
(* leads in that.                                                          *)
LEMMA LeadsLater ==
  ASSUME KeptTypeOK, Unvouched, NEW start \in Nat, NEW b \in Nat, NEW e \in Nat, b <= e, Still(start, b, e), NEW w
  PROVE  /\ Leading(w, start, b) => Leading(w, 0, e)
         /\ Leading(w, 0, e) /\ start < w.cand.at => Leading(w, start, b)
<1>1. \A z \in Raw : z.cand.at \in Nat /\ z.cand.at > 0
  BY RawIs, ReportAssumption
<1>2. \A z : InTime(z, start, b) => InTime(z, 0, e)
  BY <1>1 DEF InTime
<1>3. \A z : InTime(z, 0, e) => InTime(z, start, b) \/ z.cand.at <= start
  BY <1>1 DEF InTime, Still
<1>4. ASSUME Leading(w, start, b)
      PROVE  Leading(w, 0, e)
  <2>1. InTime(w, start, b)
    BY <1>4 DEF Leading
  <2>2. ASSUME NEW z, InTime(z, 0, e), SameCandidate(w.cand, z.cand)
        PROVE  ~Newer(z, w)
    <3>1. CASE InTime(z, start, b)
      BY <1>4, <2>2, <3>1 DEF Leading
    <3>2. CASE z.cand.at <= start
      BY <1>1, <2>1, <2>2, <3>2 DEF Newer, InTime
    <3> QED
      BY <1>3, <2>2, <3>1, <3>2
  <2> QED
    BY <1>2, <2>1, <2>2 DEF Leading
<1>5. ASSUME Leading(w, 0, e), start < w.cand.at
      PROVE  Leading(w, start, b)
  <2>1. InTime(w, start, b)
    BY <1>1, <1>3, <1>5 DEF Leading, InTime
  <2> QED
    BY <1>2, <1>5, <2>1 DEF Leading
<1> QED
  BY <1>4, <1>5

(* What leads and is from before the start is the first of its rows, or    *)
(* the speed of a position.                                                *)
LEMMA LeadsBefore ==
  ASSUME KeptTypeOK, Unvouched, NEW start \in Nat, NEW b \in Nat, NEW e \in Nat, start <= b, b <= e,
         NEW fixes \in BOOLEAN, NEW w, Leading(w, 0, e), OfSide(w.cand, fixes), w.cand.at <= start
  PROVE  /\ \A z : Leading(z, start, b) => ~SameCandidate(w.cand, z.cand)
         /\ \/ \E x : FirstRow(x, RowsOf(fixes), start) /\ x.cand = w.cand
            \/ ~fixes /\ SpeedOfFix(w.cand) /\ \E x \in FixRows : AsSpeed(x.cand) = w.cand
<1>1. \A z \in Raw : z.cand.at \in Nat /\ z.cand.at > 0
  BY RawIs, ReportAssumption
<1>2. InTime(w, 0, e) /\ w \in Raw
  BY DEF Leading, InTime
<1>3. ASSUME NEW z, Leading(z, start, b)
      PROVE  ~SameCandidate(w.cand, z.cand)
  <2>1. InTime(z, start, b) /\ z \in Raw
    BY <1>3 DEF Leading, InTime
  <2>2. InTime(z, 0, e) /\ Newer(z, w)
    BY <1>1, <1>2, <2>1 DEF InTime, Newer
  <2> QED
    BY <2>2 DEF Leading
<1>4. ASSUME NEW x \in RowsOf(fixes), x.row = w.row, x.cand = w.cand, w.kind = IF fixes THEN 1 ELSE 0
      PROVE  FirstRow(x, RowsOf(fixes), start)
  <2>1. ASSUME NEW z \in RowsOf(fixes), z.cand.at <= start, SameCandidate(x.cand, z.cand)
        PROVE  ~(z.cand.at > x.cand.at \/ (z.cand.at = x.cand.at /\ z.row > x.row))
    <3>1. PICK y \in Raw : y.row = z.row /\ y.cand = z.cand /\ y.kind = IF fixes THEN 1 ELSE 0
      BY RowIsRaw
    <3>2. InTime(y, 0, e)
      BY <1>1, <2>1, <3>1 DEF InTime
    <3>3. ~Newer(y, w)
      BY <1>4, <2>1, <3>1, <3>2 DEF Leading
    <3> QED
      BY <1>4, <3>1, <3>3 DEF Newer
  <2> QED
    BY <1>4, <2>1 DEF FirstRow
<1>5. \/ w.kind = 0 /\ w.cand.key # "position" /\ \E x \in MetricRows : x.row = w.row /\ x.cand = w.cand
      \/ w.kind = 1 /\ w.cand.key = "position" /\ \E x \in FixRows : x.row = w.row /\ x.cand = w.cand
      \/ w.kind = 1 /\ SpeedOfFix(w.cand) /\ \E x \in FixRows : x.row = w.row /\ AsSpeed(x.cand) = w.cand
  BY <1>2, RawIs
<1>6. CASE w.kind = 0 /\ w.cand.key # "position" /\ \E x \in MetricRows : x.row = w.row /\ x.cand = w.cand
  <2>1. ~fixes
    BY <1>6 DEF OfSide
  <2>2. PICK x \in RowsOf(fixes) : x.row = w.row /\ x.cand = w.cand
    BY <1>6, <2>1 DEF RowsOf
  <2> QED
    BY <1>3, <1>4, <1>6, <2>1, <2>2
<1>7. CASE w.kind = 1 /\ w.cand.key = "position" /\ \E x \in FixRows : x.row = w.row /\ x.cand = w.cand
  <2>1. fixes
    BY <1>7 DEF OfSide
  <2>2. PICK x \in RowsOf(fixes) : x.row = w.row /\ x.cand = w.cand
    BY <1>7, <2>1 DEF RowsOf
  <2> QED
    BY <1>3, <1>4, <1>7, <2>1, <2>2
<1>8. CASE w.kind = 1 /\ SpeedOfFix(w.cand) /\ \E x \in FixRows : x.row = w.row /\ AsSpeed(x.cand) = w.cand
  <2>1. ~fixes
    BY <1>8 DEF OfSide, SpeedOfFix
  <2> QED
    BY <1>3, <1>8, <2>1
<1> QED
  BY <1>5, <1>6, <1>7, <1>8

(* The first of its rows leads from the beginning, unless it is a speed by *)
(* gnss, when nothing said since the start is of the same candidate.       *)
LEMMA FirstLeads ==
  ASSUME KeptTypeOK, Unvouched, NEW start \in Nat, NEW b \in Nat, NEW e \in Nat, start <= b, b <= e, Still(start, b, e),
         NEW fixes \in BOOLEAN, NEW x, FirstRow(x, RowsOf(fixes), start), ~SpeedOfFix(x.cand),
         \A w : Leading(w, start, b) => ~SameCandidate(x.cand, w.cand)
  PROVE  \E w : Leading(w, 0, e) /\ OfSide(w.cand, fixes) /\ w.cand = x.cand
<1>1. \A z \in Raw : z.cand.at \in Nat /\ z.cand.at > 0 /\ z.row \in Nat
  BY RawIs, ReportAssumption DEF KeptTypeOK
<1>2. x \in RowsOf(fixes) /\ x.cand.at <= start
  BY DEF FirstRow
<1>3. PICK y \in Raw : y.row = x.row /\ y.cand = x.cand /\ y.kind = IF fixes THEN 1 ELSE 0
  BY <1>2, RowIsRaw
<1>4. OfSide(x.cand, fixes)
  BY <1>2, RowsSay DEF RowsOf, OfSide
<1>5. PICK none \in Nat : none = 0
  OBVIOUS
<1>6. InTime(y, none, e)
  BY <1>1, <1>2, <1>3, <1>5 DEF InTime
<1>7. PICK z : Leading(z, none, e) /\ SameCandidate(y.cand, z.cand)
  BY <1>6, SomeLeading
<1>8. z \in Raw /\ Leading(z, 0, e) /\ SameCandidate(x.cand, z.cand) /\ OfSide(z.cand, fixes) /\ ~SpeedOfFix(z.cand)
  BY <1>3, <1>4, <1>5, <1>7 DEF Leading, InTime, SameCandidate, OfSide, SpeedOfFix
<1>9. z.cand.at <= start
  <2>1. CASE start < z.cand.at
    <3>1. Leading(z, start, b)
      BY <1>8, <2>1, LeadsLater
    <3> QED
      BY <1>8, <3>1
  <2> QED
    BY <1>1, <1>8, <2>1
<1>10. PICK v : FirstRow(v, RowsOf(fixes), start) /\ v.cand = z.cand
  BY <1>8, <1>9, LeadsBefore
<1>11. v \in RowsOf(fixes) /\ v.row \in Nat /\ x.row \in Nat /\ v.cand.at \in Nat /\ x.cand.at \in Nat /\ v.cand.at <= start
  <2>1. v \in RowsOf(fixes) /\ v.cand.at <= start
    BY <1>10 DEF FirstRow
  <2>2. PICK u \in Raw : u.row = v.row /\ u.cand = v.cand
    BY <2>1, RowIsRaw
  <2> QED
    BY <1>1, <1>3, <2>1, <2>2
<1>12. x.cand.at = v.cand.at /\ x.row = v.row
  <2>1. ~(v.cand.at > x.cand.at \/ (v.cand.at = x.cand.at /\ v.row > x.row))
    BY <1>8, <1>10, <1>11 DEF FirstRow
  <2>2. SameCandidate(v.cand, x.cand)
    BY <1>8, <1>10 DEF SameCandidate
  <2>3. ~(x.cand.at > v.cand.at \/ (x.cand.at = v.cand.at /\ x.row > v.row))
    BY <1>2, <1>10, <2>2 DEF FirstRow
  <2> QED
    BY <1>11, <2>1, <2>3
<1>13. x.cand = v.cand
  BY <1>2, <1>8, <1>10, <1>11, <1>12, SaidOnce
<1> QED
  BY <1>8, <1>10, <1>13

(* Fresh or not, a row from before the start stays it.                     *)
LEMMA BeforeStill ==
  ASSUME KeptTypeOK, Unvouched, NEW start \in Nat, NEW b \in Nat, NEW e \in Nat, start < b, b <= e, Still(start, b, e),
         NEW x \in MetricRows \union FixRows, x.cand.at <= start
  PROVE  /\ Until(x.cand) \in Nat
         /\ b <= Until(x.cand) => e <= Until(x.cand) /\ x.cand.key # "position" /\ ~SpeedOfFix(x.cand)
<1>1. x.cand \in Said /\ ~x.cand.event /\ x.cand.interval \in Nat
  BY RowsSay
<1>2. PICK none \in Nat : none = 0
  OBVIOUS
<1>3. Until(x.cand) \in Nat
  BY <1>1, <1>2, ContactSame
<1> QED
  BY <1>3 DEF Still

(* What matters of what is shown is matched in the true.                   *)
LEMMA ShownMatched ==
  ASSUME KeptTypeOK, Unvouched, NEW start \in Nat, NEW end \in Nat, NEW b \in Nat, NEW e \in Nat,
         start < b, b <= e, e <= end, Still(start, b, e), NEW fixes \in BOOLEAN,
         NEW S, S = Side(Replayed(candidate_state_at(start), Events(start, end), b), fixes),
         NEW V, V = Side(Truth(e), fixes)
  PROVE  Matched(S, b, V, e)
<1>1. \A w \in Raw : w.cand \in Said /\ w.cand.at \in Nat /\ ~w.cand.event /\ w.cand.interval \in Nat
  BY RawIs, ReportAssumption
<1>2. SUFFICES ASSUME NEW c \in S, Matters(c, b)
               PROVE  \E d \in V : Alike(c, d) /\ (Fresh(c, b) <=> Fresh(d, e))
  BY DEF Matched
<1>3. ASSUME NEW w, Leading(w, 0, e), OfSide(w.cand, fixes), NEW by, c = InContact(w.cand, by),
             b <= Until(w.cand) => e <= Until(w.cand)
      PROVE  \E d \in V : Alike(c, d) /\ (Fresh(c, b) <=> Fresh(d, e))
  <2>1. PICK u : u = w.cand
    OBVIOUS
  <2>2. u \in Said /\ ~u.event /\ u.interval \in Nat
    BY <1>1, <1>3, <2>1 DEF Leading, InTime
  <2>3. PICK d : d = InContact(u, e)
    OBVIOUS
  <2>4. d \in V
    BY <1>3, <2>1, <2>3, TrueSide
  <2>5. Alike(c, u) /\ Until(u) \in Nat /\ (Fresh(c, b) <=> b <= Until(u))
    BY <1>3, <2>1, <2>2, ContactSame
  <2>6. Alike(u, d) /\ (Fresh(d, e) <=> e <= Until(u))
    BY <2>2, <2>3, ContactSame
  <2>7. Alike(c, d)
    BY <2>5, <2>6 DEF Alike
  <2>8. Fresh(c, b) <=> Fresh(d, e)
    BY <1>3, <2>1, <2>5, <2>6
  <2> QED
    BY <2>4, <2>7, <2>8
<1>4. b <= end
  OBVIOUS
<1>5. CASE \E w : Leading(w, start, b) /\ OfSide(w.cand, fixes) /\ c = InContact(w.cand, end)
  <2>1. PICK w : Leading(w, start, b) /\ OfSide(w.cand, fixes) /\ c = InContact(w.cand, end)
    BY <1>5
  <2>2. Leading(w, 0, e)
    BY <2>1, LeadsLater
  <2>3. b <= Until(w.cand) => e <= Until(w.cand)
    BY <2>1 DEF Still, Leading, InTime
  <2> QED
    BY <1>3, <2>1, <2>2, <2>3
<1>6. CASE \E x : /\ FirstRow(x, RowsOf(fixes), start) /\ c = InContact(x.cand, start)
                  /\ \A w : Leading(w, start, b) => ~SameCandidate(x.cand, w.cand)
  <2>1. PICK x : /\ FirstRow(x, RowsOf(fixes), start) /\ c = InContact(x.cand, start)
                 /\ \A w : Leading(w, start, b) => ~SameCandidate(x.cand, w.cand)
    BY <1>6
  <2>2. x \in MetricRows \union FixRows /\ x.cand.at <= start
    BY <2>1 DEF FirstRow, RowsOf
  <2>3. x.cand \in Said /\ ~x.cand.event /\ x.cand.interval \in Nat
    BY <2>2, RowsSay
  <2>4. Fresh(c, b) <=> b <= Until(x.cand)
    BY <2>1, <2>3, ContactSame
  <2>5. b <= Until(x.cand) => e <= Until(x.cand) /\ x.cand.key # "position" /\ ~SpeedOfFix(x.cand)
    BY <2>2, BeforeStill
  <2>6. ~SpeedOfFix(x.cand)
    <3>1. CASE SpeedOfFix(x.cand)
      <4>1. c.key = x.cand.key
        BY <2>1, <2>3, ContactAside
      <4>2. ~Retained(c.key)
        BY <3>1, <4>1 DEF SpeedOfFix, Retained, SafetySensitive
      <4>3. Fresh(c, b)
        BY <1>2, <4>2 DEF Matters
      <4> QED
        BY <2>4, <2>5, <3>1, <4>3
    <3> QED
      BY <3>1
  <2>7. PICK w : Leading(w, 0, e) /\ OfSide(w.cand, fixes) /\ w.cand = x.cand
    BY <2>1, <2>6, FirstLeads
  <2>8. c = InContact(w.cand, start)
    BY <2>1, <2>7
  <2> QED
    BY <1>3, <2>5, <2>7, <2>8
<1> QED
  BY <1>4, <1>5, <1>6, ShownSide

(* What matters of the true is matched in what is shown.                   *)
LEMMA TrueMatched ==
  ASSUME KeptTypeOK, Unvouched, NEW start \in Nat, NEW end \in Nat, NEW b \in Nat, NEW e \in Nat,
         start < b, b <= e, e <= end, Still(start, b, e), NEW fixes \in BOOLEAN,
         NEW S, S = Side(Replayed(candidate_state_at(start), Events(start, end), b), fixes),
         NEW V, V = Side(Truth(e), fixes)
  PROVE  Matched(V, e, S, b)
<1>1. \A w \in Raw : w.cand \in Said /\ w.cand.at \in Nat /\ ~w.cand.event /\ w.cand.interval \in Nat
  BY RawIs, ReportAssumption
<1>2. SUFFICES ASSUME NEW d \in V, Matters(d, e)
               PROVE  \E c \in S : Alike(d, c) /\ (Fresh(d, e) <=> Fresh(c, b))
  BY DEF Matched
<1>3. PICK w : Leading(w, 0, e) /\ OfSide(w.cand, fixes) /\ d = InContact(w.cand, e)
  BY TrueSide
<1>4. PICK u : u = w.cand
  OBVIOUS
<1>5. u \in Said /\ ~u.event /\ u.interval \in Nat /\ u.at \in Nat /\ w \in Raw /\ u.at <= e
  BY <1>1, <1>3, <1>4 DEF Leading, InTime
<1>6. Alike(d, u) /\ Until(u) \in Nat /\ (Fresh(d, e) <=> e <= Until(u))
  BY <1>3, <1>4, <1>5, ContactSame
<1>7. ASSUME NEW by, InContact(u, by) \in S, b <= Until(u) => e <= Until(u)
      PROVE  \E c \in S : Alike(d, c) /\ (Fresh(d, e) <=> Fresh(c, b))
  <2>1. PICK c \in S : c = InContact(u, by)
    BY <1>7
  <2>2. Alike(u, c) /\ (Fresh(c, b) <=> b <= Until(u))
    BY <1>5, <2>1, ContactSame
  <2>3. Alike(d, c)
    BY <1>6, <2>2 DEF Alike
  <2>4. Fresh(d, e) <=> Fresh(c, b)
    BY <1>6, <1>7, <2>2
  <2> QED
    BY <2>3, <2>4
<1>8. b <= end
  OBVIOUS
<1>9. CASE start < u.at
  <2>1. Leading(w, start, b)
    BY <1>3, <1>4, <1>9, LeadsLater
  <2>2. InContact(u, end) \in S
    BY <1>3, <1>4, <1>8, <2>1, ShownSide
  <2>3. b <= Until(u) => e <= Until(u)
    BY <1>4, <2>1 DEF Still, Leading, InTime
  <2> QED
    BY <1>7, <2>2, <2>3
<1>10. CASE u.at <= start
  <2>1. /\ \A z : Leading(z, start, b) => ~SameCandidate(u, z.cand)
        /\ \/ \E x : FirstRow(x, RowsOf(fixes), start) /\ x.cand = u
           \/ ~fixes /\ SpeedOfFix(u) /\ \E x \in FixRows : AsSpeed(x.cand) = u
    BY <1>3, <1>4, <1>10, LeadsBefore
  <2>2. CASE \E x : FirstRow(x, RowsOf(fixes), start) /\ x.cand = u
    <3>1. PICK x : FirstRow(x, RowsOf(fixes), start) /\ x.cand = u
      BY <2>2
    <3>2. InContact(u, start) \in S
      BY <1>8, <2>1, <3>1, ShownSide
    <3>3. x \in MetricRows \union FixRows /\ x.cand.at <= start
      BY <3>1 DEF FirstRow, RowsOf
    <3>4. b <= Until(u) => e <= Until(u)
      BY <3>1, <3>3, BeforeStill
    <3> QED
      BY <1>7, <3>2, <3>4
  <2>3. CASE SpeedOfFix(u) /\ \E x \in FixRows : AsSpeed(x.cand) = u
    <3>1. PICK x \in FixRows : AsSpeed(x.cand) = u
      BY <2>3
    <3>2. /\ x.cand.key = "position" /\ AsSpeed(x.cand).at = x.cand.at
          /\ AsSpeed(x.cand).interval = x.cand.interval
      BY RowsSay
    <3>3. Freshness("vehicle.speed") = Freshness("position") /\ ~Retained("vehicle.speed")
      BY DEF Freshness, Retained, SafetySensitive, RetainedFast
    <3>4. PICK held : held = Until(x.cand)
      OBVIOUS
    <3>5. Until(u) = held
      BY <2>3, <3>1, <3>2, <3>3, <3>4 DEF Until, SpeedOfFix
    <3>6. Fresh(d, e)
      BY <1>2, <1>6, <2>3, <3>3 DEF Matters, Alike, SpeedOfFix
    <3>7. b <= held
      BY <1>6, <3>5, <3>6
    <3>8. x \in MetricRows \union FixRows /\ x.cand.at <= start
      BY <1>10, <3>1, <3>2
    <3> QED
      BY <3>2, <3>4, <3>7, <3>8, BeforeStill
  <2> QED
    BY <2>1, <2>2, <2>3
<1> QED
  BY <1>5, <1>9, <1>10

(* What falls into no bucket after a row's changes nothing in it.          *)
LEMMA InBuckets ==
  ASSUME NEW start \in Nat, NEW end \in Nat, start < end, NEW step \in Nat \ {0},
         NEW count, count = BucketCount(start, end, step), NEW index \in 0..(count - 1), NEW m \in 0..index,
         \A j \in (m + 1)..index : j \notin Relevant(start, end, step),
         NEW t \in Nat, start < t, BucketEnd(start, end, step, m) <= t, t < BucketEnd(start, end, step, index)
  PROVE  t \notin Happened(start, end)
<1>1. count \in Nat \ {0}
  BY BucketsEnd
<1>2. PICK last \in Nat : last = count - 1
  BY <1>1
<1>3. PICK b : b = BucketOf(t, start, end, step)
  OBVIOUS
<1>4. m < index
  <2>1. CASE m = index
    BY <2>1, <1>1, BucketsEnd
  <2> QED
    BY <2>1, <1>1
<1>5. m \in 0..(count - 2)
  BY <1>1, <1>4
<1>6. m < b /\ b <= index /\ b \in 0..(count - 1)
  <2>1. /\ b \in 0..(count - 1)
        /\ \A k \in 0..(count - 2) : BucketEnd(start, end, step, k) <= t => k < b
        /\ \A i \in 0..(count - 1) : t < BucketEnd(start, end, step, i) => b <= i
    BY <1>3, BucketHolds
  <2>2. m < b
    BY <1>5, <2>1
  <2>3. b <= index
    BY <2>1
  <2> QED
    BY <2>1, <2>2, <2>3
<1>7. ASSUME t \in Happened(start, end)
      PROVE  b \in Relevant(start, end, step)
  BY <1>3, <1>7 DEF Relevant, BucketOf
<1>8. b \in (m + 1)..index
  BY <1>1, <1>6
<1> QED
  BY <1>7, <1>8

(* A row that goes on past its bucket does so before the range ends.       *)
LEMMA NotLast ==
  ASSUME NEW start \in Nat, NEW end \in Nat, start < end, NEW step \in Nat \ {0},
         NEW count, count = BucketCount(start, end, step), NEW index \in 0..(count - 1), NEW m \in 0..index,
         \A j \in (m + 1)..index : j \notin Relevant(start, end, step)
  PROVE  /\ BucketEnd(start, end, step, m) <= BucketEnd(start, end, step, index)
         /\ BucketEnd(start, end, step, m) # BucketEnd(start, end, step, index) => BucketEnd(start, end, step, index) < end
<1>1. count \in Nat \ {0}
  BY BucketsEnd
<1>2. CASE m = index
  BY <1>1, <1>2, BucketsEnd
<1>3. CASE m # index
  <2>1. count - 1 \in Relevant(start, end, step)
    BY DEF Relevant
  <2>2. index # count - 1
    BY <1>1, <1>3, <2>1
  <2>3. index \in 0..(count - 2) /\ m \in 0..(count - 2) /\ m + 1 <= index
    BY <1>1, <1>3, <2>2
  <2>4. /\ BucketEnd(start, end, step, index) = start + step * (index + 1) /\ start + step * (index + 1) < end
        /\ BucketEnd(start, end, step, m) = start + step * (m + 1)
    BY <2>3, BucketsEnd
  <2>5. step * (m + 1) <= step * (index + 1)
    <3>1. PICK k \in Nat : k = index + 1
      BY <1>1
    <3>2. m < k /\ m \in Nat
      BY <1>1, <2>3, <3>1
    <3>3. step * (m + 1) <= step * k
      BY <3>2, Multiples
    <3> QED
      BY <3>1, <3>3
  <2>6. step * (m + 1) \in Int /\ step * (index + 1) \in Int
    BY <1>1
  <2> QED
    BY <2>4, <2>5, <2>6
<1> QED
  BY <1>2, <1>3

(* A bucket that follows a row's and is not disturbed is still.            *)
LEMMA StillIs ==
  ASSUME KeptTypeOK, NEW start \in Nat, NEW end \in Nat, start < end, NEW step \in Nat \ {0},
         table.start = start, table.end = end, table.step = step,
         NEW count, count = BucketCount(start, end, step), NEW index \in 0..(count - 1), ~Disturbed(index),
         NEW m \in 0..index, \A j \in (m + 1)..index : j \notin Relevant(start, end, step),
         NEW b, b = BucketEnd(start, end, step, m), NEW e, e = BucketEnd(start, end, step, index)
  PROVE  Unvouched /\ Still(start, b, e)
<1>1. Unvouched
  BY DEF Disturbed, Unvouched
<1>2. count \in Nat \ {0} /\ m \in 0..(count - 1)
  BY BucketsEnd
<1>3. b \in Nat /\ e \in Nat /\ start < b /\ e <= end /\ b <= e /\ (b # e => e < end)
  <2>1. b \in Nat /\ e \in Nat /\ start < b /\ e <= end
    BY <1>2, BucketsEnd
  <2>2. b <= e /\ (b # e => e < end)
    BY NotLast
  <2> QED
    BY <2>1, <2>2
<1>4. \A t \in Nat : start < t /\ b <= t /\ t < e => t \notin Happened(start, end)
  BY InBuckets
<1>5. e < end => ~\E x \in MetricRows \union FixRows : x.cand.at = e
  BY DEF Disturbed
<1>6. \A w \in Raw : w.cand \in Said /\ w.cand.at \in Nat /\ ~w.cand.event /\ w.cand.interval \in Nat
  BY <1>1, RawIs, ReportAssumption
<1>7. \A w \in Raw : \E x \in MetricRows \union FixRows : x.cand.at = w.cand.at
  BY <1>1, RawIs, RowsSay
<1>8. \A w \in Raw : start < w.cand.at /\ w.cand.at <= end => InContactWith(w, end) \in Events(start, end)
  BY <1>1, EventsAre
<1>9. \A x \in Events(start, end) :
        /\ x.cand.at \in Happened(start, end)
        /\ Expiry(x.cand) \in Nat /\ start < Expiry(x.cand) /\ Expiry(x.cand) < end => Expiry(x.cand) \in Happened(start, end)
  BY DEF Happened
<1>10. ASSUME NEW w \in Raw, b < w.cand.at, w.cand.at <= e
       PROVE  FALSE
  <2>1. e < end /\ w.cand.at # e
    BY <1>3, <1>5, <1>6, <1>7, <1>10
  <2>2. InContactWith(w, end) \in Events(start, end)
    BY <1>3, <1>6, <1>8, <1>10
  <2>3. InContactWith(w, end).cand = InContact(w.cand, end)
    BY DEF InContactWith
  <2>4. InContactWith(w, end).cand.at = w.cand.at
    BY <1>6, <2>3, ContactAside
  <2>5. w.cand.at \in Happened(start, end)
    BY <1>9, <2>2, <2>4
  <2> QED
    BY <1>3, <1>4, <1>6, <1>10, <2>1, <2>5
<1>11. ASSUME NEW w \in Raw, start < w.cand.at, w.cand.at <= b, b <= Until(w.cand)
       PROVE  e <= Until(w.cand)
  <2>1. PICK until : until = Until(w.cand)
    OBVIOUS
  <2>2. until \in Nat /\ Expiry(InContact(w.cand, end)) = until
    BY <1>6, <2>1, ContactSame
  <2>3. InContactWith(w, end) \in Events(start, end)
    BY <1>3, <1>6, <1>8, <1>11
  <2>4. InContactWith(w, end).cand = InContact(w.cand, end)
    BY DEF InContactWith
  <2>5. start < until /\ until < end => until \in Happened(start, end)
    BY <1>9, <2>2, <2>3, <2>4
  <2> QED
    BY <1>3, <1>4, <1>11, <2>1, <2>2, <2>5
<1>12. ASSUME NEW x \in MetricRows \union FixRows, x.cand.at <= start, start + 1 <= Until(x.cand)
       PROVE  e <= Until(x.cand) /\ x.cand.key # "position" /\ ~SpeedOfFix(x.cand)
  <2>1. PICK c : c = x.cand
    OBVIOUS
  <2>2. c \in Said /\ ~c.event /\ c.interval \in Nat
    BY <1>1, <2>1, RowsSay
  <2>3. PICK next \in Nat : next = start + 1
    OBVIOUS
  <2>4. (Fresh(c, next) <=> next <= Until(c)) /\ (Fresh(c, e) <=> e <= Until(c))
    BY <1>3, <2>2, ContactSame
  <2>5. ~(Fresh(c, next) /\ (~Fresh(c, e) \/ c.key = "position" \/ SpeedOfFix(c)))
    BY <1>12, <2>1, <2>3 DEF Disturbed
  <2> QED
    BY <1>12, <2>1, <2>3, <2>4, <2>5
<1> QED
  BY <1>1, <1>10, <1>11, <1>12 DEF Still

(* What a side holds was measured, and a fix is of a position.             *)
LEMMA SidesTimed ==
  ASSUME KeptTypeOK, Unvouched, NEW start \in Nat, NEW end \in Nat, NEW b \in Nat, b <= end, NEW e \in Nat, NEW fixes \in BOOLEAN,
         NEW S, S = Side(Replayed(candidate_state_at(start), Events(start, end), b), fixes),
         NEW V, V = Side(Truth(e), fixes)
  PROVE  /\ Timed(S) /\ Timed(V)
         /\ fixes => /\ \A c \in S : c.key = "position"
                     /\ \A c \in V : c.key = "position" /\ c.channel = "gnss"
<1> DEFINE Fit(c) == c.method = "direct" /\ c.at \in 1..MaxClock /\ (fixes => c.key = "position" /\ c.channel = "gnss")
<1>1. ASSUME NEW u \in Said, fixes => u.key = "position" /\ u.channel = "gnss", NEW by
      PROVE  Fit(InContact(u, by))
  BY <1>1, ContactAside, SaidIs
<1>2. ASSUME NEW w \in Raw, OfSide(w.cand, fixes)
      PROVE  w.cand \in Said /\ (fixes => w.cand.key = "position" /\ w.cand.channel = "gnss")
  <2>1. w.cand \in Said
    BY RawIs
  <2>2. CASE fixes
    <3>1. w.cand.key = "position"
      BY <1>2, <2>2 DEF OfSide
    <3>2. PICK x \in FixRows : x.cand = w.cand
      BY <3>1, RawIs DEF SpeedOfFix
    <3> QED
      BY <2>1, <3>1, <3>2, RowsSay
  <2> QED
    BY <2>1, <2>2
<1>3. ASSUME NEW x \in RowsOf(fixes)
      PROVE  x.cand \in Said /\ (fixes => x.cand.key = "position" /\ x.cand.channel = "gnss")
  BY RowsSay DEF RowsOf
<1>4. ASSUME NEW c \in S PROVE Fit(c)
  <2>1. CASE \E w : Leading(w, start, b) /\ OfSide(w.cand, fixes) /\ c = InContact(w.cand, end)
    <3>1. PICK w : Leading(w, start, b) /\ OfSide(w.cand, fixes) /\ c = InContact(w.cand, end)
      BY <2>1
    <3>2. w \in Raw
      BY <3>1 DEF Leading, InTime
    <3> HIDE DEF Fit
    <3> QED
      BY <1>1, <1>2, <3>1, <3>2
  <2>2. CASE \E x : FirstRow(x, RowsOf(fixes), start) /\ c = InContact(x.cand, start)
    <3>1. PICK x : FirstRow(x, RowsOf(fixes), start) /\ c = InContact(x.cand, start)
      BY <2>2
    <3>2. x \in RowsOf(fixes)
      BY <3>1 DEF FirstRow
    <3> HIDE DEF Fit
    <3> QED
      BY <1>1, <1>3, <3>1, <3>2
  <2> QED
    BY <2>1, <2>2, ShownSide
<1>5. ASSUME NEW c \in V PROVE Fit(c)
  <2>1. PICK w : Leading(w, 0, e) /\ OfSide(w.cand, fixes) /\ c = InContact(w.cand, e)
    BY TrueSide
  <2>2. w \in Raw
    BY <2>1 DEF Leading, InTime
  <2> HIDE DEF Fit
  <2> QED
    BY <1>1, <1>2, <2>1, <2>2
<1> QED
  BY <1>4, <1>5 DEF Timed

(* What the replay showed at the end of a row's last resolved bucket is    *)
(* what was known when a later one ended.                                  *)
LEMMA ShownSame ==
  ASSUME KeptTypeOK, NEW start \in Nat, NEW end \in Nat, start < end, NEW step \in Nat \ {0},
         table.start = start, table.end = end, table.step = step,
         NEW count, count = BucketCount(start, end, step), NEW index \in 0..(count - 1), ~Disturbed(index),
         NEW m \in 0..index, \A j \in (m + 1)..index : j \notin Relevant(start, end, step),
         NEW b, b = BucketEnd(start, end, step, m), NEW e, e = BucketEnd(start, end, step, index)
  PROVE  ShownBy(start, end, b) = resolved_state(Truth(e), e)
<1>1. Unvouched /\ Still(start, b, e)
  BY StillIs
<1>2. count \in Nat \ {0} /\ m \in 0..(count - 1)
  BY BucketsEnd
<1>3. b \in Nat /\ e \in Nat /\ start < b /\ e <= end /\ b <= e /\ b <= end
  BY <1>2, BucketsEnd, NotLast
<1>4. PICK state : state = Replayed(candidate_state_at(start), Events(start, end), b)
  OBVIOUS
<1>5. PICK truth : truth = Truth(e)
  OBVIOUS
<1>6. ~Tied(truth.metrics) /\ ~Tied(truth.fixes)
  BY <1>5 DEF Disturbed
<1>7. ASSUME NEW fixes \in BOOLEAN, NEW S, S = Side(state, fixes), NEW V, V = Side(truth, fixes)
      PROVE  /\ Timed(S) /\ Timed(V) /\ Matched(S, b, V, e) /\ Matched(V, e, S, b) /\ ~Tied(V)
             /\ fixes => /\ \A c \in S : c.key = "position"
                         /\ \A c \in V : c.key = "position" /\ c.channel = "gnss"
  <2>1. ~Tied(V)
    BY <1>6, <1>7 DEF Side
  <2>2. S = Side(Replayed(candidate_state_at(start), Events(start, end), b), fixes) /\ V = Side(Truth(e), fixes)
    BY <1>4, <1>5, <1>7
  <2>3. /\ Timed(S) /\ Timed(V)
        /\ fixes => /\ \A c \in S : c.key = "position"
                    /\ \A c \in V : c.key = "position" /\ c.channel = "gnss"
    BY <1>1, <1>3, <2>2, SidesTimed
  <2>4. Matched(S, b, V, e)
    BY <1>1, <1>3, <2>2, ShownMatched
  <2>5. Matched(V, e, S, b)
    BY <1>1, <1>3, <2>2, TrueMatched
  <2> QED
    BY <2>1, <2>3, <2>4, <2>5
<1>8. PICK C : C = state.metrics
  OBVIOUS
<1>9. PICK P : P = state.fixes
  OBVIOUS
<1>10. PICK D : D = truth.metrics
  OBVIOUS
<1>11. PICK Q : Q = truth.fixes
  OBVIOUS
<1>12. /\ C = Side(state, FALSE) /\ D = Side(truth, FALSE)
       /\ P = Side(state, TRUE) /\ Q = Side(truth, TRUE)
  BY <1>8, <1>9, <1>10, <1>11 DEF Side
<1>13. resolve_readings(C, b) = resolve_readings(D, e)
  <2>1. Timed(C) /\ Timed(D) /\ Matched(C, b, D, e) /\ Matched(D, e, C, b) /\ ~Tied(D)
    BY <1>7, <1>12
  <2> QED
    BY <2>1, ReadingsSame
<1>14. resolve_position(P, b) = resolve_position(Q, e)
  <2>1. /\ Timed(P) /\ Timed(Q) /\ Matched(P, b, Q, e) /\ Matched(Q, e, P, b) /\ ~Tied(Q)
        /\ \A c \in P : c.key = "position"
        /\ \A c \in Q : c.key = "position" /\ c.channel = "gnss"
    BY <1>7, <1>12
  <2> QED
    BY <2>1, PositionSame
<1>15. ShownBy(start, end, b) = resolve_readings(C, b) \union resolve_position(P, b)
  BY <1>4, <1>8, <1>9 DEF ShownBy, resolved_state
<1>16. resolved_state(Truth(e), e) = resolve_readings(D, e) \union resolve_position(Q, e)
  BY <1>5, <1>10, <1>11 DEF resolved_state
<1> QED
  BY <1>13, <1>14, <1>15, <1>16

(* A table is returned of no more than is stored when it is asked for.     *)
TableOf(start, end, step) == [start |-> start, end |-> end, step |-> step, rows |-> table_rows(start, end, step)]
Asked == \/ table = NoTable
         \/ \E start, end \in 1..MaxClock, step \in Step : start < end /\ table = TableOf(start, end, step)

(* A table that was asked for shows the state.                             *)
LEMMA TableTrue ==
  ASSUME KeptTypeOK, Asked
  PROVE  TableShowsState
<1>1. CASE table = NoTable
  BY <1>1 DEF TableShowsState
<1>2. CASE \E start, end \in 1..MaxClock, step \in Step : start < end /\ table = TableOf(start, end, step)
  <2>1. PICK start \in 1..MaxClock, end \in 1..MaxClock, step \in Step : start < end /\ table = TableOf(start, end, step)
    BY <1>2
  <2>2. start \in Nat /\ end \in Nat /\ start < end /\ step \in Nat \ {0}
    BY <2>1, ReportAssumption
  <2>3. /\ table.start = start /\ table.end = end /\ table.step = step
        /\ table.rows = table_rows(start, end, step)
    BY <2>1 DEF TableOf
  <2>4. PICK count, relevant, shows : /\ count = BucketCount(start, end, step)
                                      /\ relevant = Relevant(start, end, step)
                                      /\ shows = ShowsAt(start, end, step)
    OBVIOUS
  <2>5. PICK out : /\ table.rows = Reverse(out)
                   /\ Laid(out, count, relevant, shows)
                   /\ Tally(out, ReportsBy(start, end))
    BY <2>2, <2>3, <2>4, TableLaid
  <2>6. PICK list : list = table.rows
    OBVIOUS
  <2>7. count \in Nat
    BY <2>2, <2>4, BucketsEnd
  <2>8. Cover(list, count, relevant, shows)
    BY <2>5, <2>6, <2>7, RowsCover
  <2>9. \A index \in 0..(count - 1) :
          \E n \in DOMAIN list :
            /\ {o \in DOMAIN list : list[o].from <= index /\ index <= list[o].to} = {n}
            /\ \/ Disturbed(index)
               \/ list[n].shown = resolved_state(Truth(BucketEnd(start, end, step, index)), BucketEnd(start, end, step, index))
    <3> SUFFICES ASSUME NEW index \in 0..(count - 1)
                 PROVE  \E n \in DOMAIN list :
                          /\ {o \in DOMAIN list : list[o].from <= index /\ index <= list[o].to} = {n}
                          /\ \/ Disturbed(index)
                             \/ list[n].shown = resolved_state(Truth(BucketEnd(start, end, step, index)),
                                                               BucketEnd(start, end, step, index))
      OBVIOUS
    <3>1. PICK n \in DOMAIN list :
            /\ {o \in DOMAIN list : list[o].from <= index /\ index <= list[o].to} = {n}
            /\ ShowsFor(index, relevant, shows, list[n].shown)
      BY <2>8 DEF Cover
    <3>2. PICK m \in 0..index : list[n].shown = shows[m] /\ \A j \in (m + 1)..index : j \notin relevant
      BY <3>1 DEF ShowsFor
    <3>3. PICK b, e : b = BucketEnd(start, end, step, m) /\ e = BucketEnd(start, end, step, index)
      OBVIOUS
    <3>4. m \in Nat
      BY <2>7
    <3>5. list[n].shown = ShownBy(start, end, b)
      BY <2>4, <3>2, <3>3, <3>4 DEF ShowsAt
    <3>6. ASSUME ~Disturbed(index)
          PROVE  ShownBy(start, end, b) = resolved_state(Truth(e), e)
      <4>1. \A j \in (m + 1)..index : j \notin Relevant(start, end, step)
        BY <2>4, <3>2
      <4> QED
        BY <2>2, <2>3, <2>4, <3>3, <3>6, <4>1, ShownSame
    <3>7. \/ Disturbed(index)
          \/ list[n].shown = resolved_state(Truth(e), e)
      BY <3>5, <3>6
    <3> QED
      BY <3>1, <3>3, <3>7, Zenon
  <2>10. PICK total : total = ReportsBy(start, end)
    OBVIOUS
  <2>11. Len(list) \in Nat /\ \E f : SumOf(f, list, total)
    <3>1. out \in Seq(TableRow(shows))
      BY <2>5 DEF Laid
    <3> QED
      BY <2>5, <2>6, <2>10, <3>1, RowsSum
  <2> DEFINE Counted[n \in 0..Len(list)] == IF n = 0 THEN 0 ELSE Counted[n - 1] + list[Len(list) + 1 - n].told
  <2>12. Counted[Len(list)] = total
    <3>1. PICK f : SumOf(f, list, total)
      BY <2>11
    <3>2. Counted = CHOOSE g : g = [n \in 0..Len(list) |-> IF n = 0 THEN 0 ELSE g[n - 1] + list[Len(list) + 1 - n].told]
      BY DEF Counted
    <3>3. f = [n \in 0..Len(list) |-> IF n = 0 THEN 0 ELSE f[n - 1] + list[Len(list) + 1 - n].told]
      BY <3>1 DEF SumOf
    <3> HIDE DEF Counted
    <3>4. Counted = [n \in 0..Len(list) |-> IF n = 0 THEN 0 ELSE Counted[n - 1] + list[Len(list) + 1 - n].told]
      BY <3>2, <3>3, Zenon
    <3> QED
      BY <2>11, <3>1, <3>4, OneSum
  <2> HIDE DEF Counted
  <2> QED
    BY <2>3, <2>4, <2>6, <2>9, <2>10, <2>12 DEF TableShowsState, Counted
<1> QED
  BY <1>1, <1>2 DEF Asked

(* A scan is what any scan of the same buckets is.                         *)
LEMMA OneScan ==
  ASSUME NEW start, NEW end, NEW step, NEW count \in Nat, NEW relevant,
         NEW f, BucketScanTo(f, count, relevant, start, end, step),
         NEW g, BucketScanTo(g, count, relevant, start, end, step)
  PROVE  f[count] = g[count]
<1> DEFINE Gather(acc, n) == GatherBucket(acc, n - 1, relevant, start, end, step)
<1>1. /\ \A n \in 0..count : f[n] = IF n = 0 THEN NoBuckets ELSE Gather(f[n - 1], n)
      /\ \A n \in 0..count : g[n] = IF n = 0 THEN NoBuckets ELSE Gather(g[n - 1], n)
  BY DEF BucketScanTo
<1> DEFINE T == {n \in 0..count : f[n] # g[n]}
<1> HIDE DEF Gather
<1>2. T = {}
  <2> SUFFICES ASSUME T # {}
               PROVE  FALSE
    OBVIOUS
  <2>1. PICK k \in T : \A l \in T : k <= l
    <3>1. T \in SUBSET Nat
      OBVIOUS
    <3> HIDE DEF T
    <3> QED
      BY <3>1, LeastNumber
  <2>2. k \in 0..count /\ f[k] # g[k]
    OBVIOUS
  <2>3. k # 0
    BY <1>1, <2>2
  <2>4. PICK p : p = k - 1
    OBVIOUS
  <2>5. p \in 0..count /\ ~(k <= p)
    BY <2>2, <2>3, <2>4
  <2>6. f[p] = g[p]
    BY <2>1, <2>5
  <2>7. f[k] = Gather(f[p], k) /\ g[k] = Gather(g[p], k)
    BY <1>1, <2>2, <2>3, <2>4
  <2> QED
    BY <2>2, <2>6, <2>7
<1> QED
  BY <1>2

ScanHolds ==
  \A start, end, step, relevant : \A count \in Nat :
    count = BucketCount(start, end, step) /\ relevant = Relevant(start, end, step)
      => \E f : BucketScanTo(f, count, relevant, start, end, step) /\ table_rows(start, end, step) = Reverse(f[count].out)

(* Which holds of the next state as of this one.                           *)
LEMMA ScanHoldsNext == ScanHolds /\ ScanHolds'
<1>1. ScanHolds
  BY BucketScanIs DEF ScanHolds
<1> QED
  BY <1>1, PTL

(* Reading changes nothing: a table shows of the same rows and contacts    *)
(* the same, whatever the clock.                                           *)
LEMMA SameTable ==
  ASSUME UNCHANGED <<reports, periods>>, NEW start \in Nat, NEW end \in Nat, start < end, NEW step \in Nat \ {0}
  PROVE  table_rows(start, end, step)' = table_rows(start, end, step)
<1>1. MetricRows' = MetricRows /\ FixRows' = FixRows /\ Stored' = Stored
  BY SameRows DEF Stored
<1>2. \A c, by : InContact(c, by)' = InContact(c, by)
  BY DEF InContact, LatestPeriod
<1>3. Events(start, end)' = Events(start, end)
  BY <1>1, <1>2 DEF Events
<1>4. candidate_state_at(start)' = candidate_state_at(start)
  BY <1>1, <1>2 DEF candidate_state_at
<1>5. \A by : ShownBy(start, end, by)' = ShownBy(start, end, by)
  BY <1>3, <1>4 DEF ShownBy
<1>6. \A by : ReportsBy(start, by)' = ReportsBy(start, by)
  BY <1>1 DEF ReportsBy
<1>7. Relevant(start, end, step)' = Relevant(start, end, step)
  BY <1>1, <1>3 DEF Relevant, Happened
<1>8. \A acc, index, relevant : GatherBucket(acc, index, relevant, start, end, step)' = GatherBucket(acc, index, relevant, start, end, step)
  BY <1>5, <1>6 DEF GatherBucket
<1>9. PICK count, relevant : count = BucketCount(start, end, step) /\ relevant = Relevant(start, end, step)
  OBVIOUS
<1>10. count \in Nat
  BY <1>9, BucketsEnd
<1>11. PICK f : BucketScanTo(f, count, relevant, start, end, step) /\ table_rows(start, end, step) = Reverse(f[count].out)
  BY <1>9, <1>10, BucketScanIs
<1>12. PICK g : BucketScanTo(g, count, relevant, start, end, step)' /\ table_rows(start, end, step)' = Reverse(g[count].out)
  <2>1. count = BucketCount(start, end, step) /\ relevant = Relevant(start, end, step)'
    BY <1>7, <1>9
  <2> QED
    BY <1>10, <2>1, ScanHoldsNext DEF ScanHolds
<1>13. BucketScanTo(g, count, relevant, start, end, step)
  BY <1>8, <1>12 DEF BucketScanTo
<1>14. f[count] = g[count]
  BY <1>10, <1>11, <1>13, OneScan
<1> QED
  BY <1>11, <1>12, <1>14

-----------------------------------------------------------------------------

(* At first no table has been asked for.                                   *)
LEMMA TableKept == ReconstructionInit => Asked
  BY DEF ReconstructionInit, Asked

(* Until one is, the table stays none, and then it is of what is stored.   *)
LEMMA TableStep == KeptInv /\ Asked /\ [table = NoTable /\ (LiveNext \/ TableNext)]_reconstructionVars => KeptInv' /\ Asked'
<1> SUFFICES ASSUME KeptInv, Asked, [table = NoTable /\ (LiveNext \/ TableNext)]_reconstructionVars
             PROVE  KeptInv' /\ Asked'
  OBVIOUS
<1>1. KeptInv'
  BY KeptStep
<1>2. CASE UNCHANGED reconstructionVars
  <2>1. UNCHANGED <<reports, periods>> /\ table' = table
    BY <1>2 DEF reconstructionVars
  <2>2. CASE table = NoTable
    BY <1>1, <2>1, <2>2 DEF Asked, NoTable
  <2>3. CASE \E start, end \in 1..MaxClock, step \in Step : start < end /\ table = TableOf(start, end, step)
    <3>1. PICK start \in 1..MaxClock, end \in 1..MaxClock, step \in Step : start < end /\ table = TableOf(start, end, step)
      BY <2>3
    <3>2. start \in Nat /\ end \in Nat /\ step \in Nat \ {0}
      BY ReportAssumption
    <3>3. table_rows(start, end, step)' = table_rows(start, end, step)
      BY <2>1, <3>1, <3>2, SameTable
    <3>4. TableOf(start, end, step)' = TableOf(start, end, step)
      BY <3>3 DEF TableOf
    <3>5. start < end /\ table' = TableOf(start, end, step)
      BY <2>1, <3>1
    <3> QED
      BY <1>1, <3>4, <3>5 DEF Asked
  <2> QED
    BY <2>2, <2>3 DEF Asked
<1>3. ASSUME NEW start \in 1..clock, NEW end \in 1..clock, NEW step \in Step, history_table(start, end, step)
      PROVE  Asked'
  <2>1. start \in 1..MaxClock /\ end \in 1..MaxClock
    BY ReportAssumption DEF KeptInv, KeptTypeOK
  <2>2. start \in Nat /\ end \in Nat /\ step \in Nat \ {0}
    BY <2>1, ReportAssumption
  <2>3. start < end /\ table' = TableOf(start, end, step) /\ UNCHANGED <<reports, periods>>
    BY <1>3 DEF history_table, TableOf
  <2>4. table_rows(start, end, step)' = table_rows(start, end, step)
    BY <2>2, <2>3, SameTable
  <2>5. TableOf(start, end, step)' = TableOf(start, end, step)
    BY <2>4 DEF TableOf
  <2> QED
    BY <2>1, <2>3, <2>5 DEF Asked
<1>4. ASSUME table = NoTable, LiveNext \/ Report \/ Tick
      PROVE  Asked'
  <2>1. table' = table
    BY <1>4 DEF LiveNext, Report, Tick, Ingest_sample, Status_contact, Clear_telemetry
  <2> QED
    BY <1>4, <2>1 DEF Asked, NoTable
<1> QED
  BY <1>1, <1>2, <1>3, <1>4 DEF TableNext

(* Every bucket of a table is in one row, which shows what was known when  *)
(* the bucket ended unless the bucket is disturbed, and every report of    *)
(* its range is counted once, for any rows in any order of their times and *)
(* any range and step (table_rows).                                        *)
THEOREM TableIsTrue == TableSpec => []TableShowsState
<1>1. TableSpec => [](KeptInv /\ Asked)
  BY KeptInit, TableKept, TableStep, PTL DEF TableSpec
<1>2. KeptInv /\ Asked => TableShowsState
  BY TableTrue DEF KeptInv
<1> QED
  BY <1>1, <1>2, PTL
=============================================================================
