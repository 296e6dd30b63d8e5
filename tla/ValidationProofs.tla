-------------------------- MODULE ValidationProofs --------------------------
(***************************************************************************)
(* What --data_validation reports, for every number of queue pairs,        *)
(* chunks, slots, messages and threads.                                    *)
(***************************************************************************)
EXTENDS ValidationLemmas

-----------------------------------------------------------------------------
(* Steps that count rounds.                                                *)

LEMMA SeenInt ==
    ASSUME NEW vs, NEW ls, OneOwnerOf(vs),
           Placed(vs),
           \A u \in DOMAIN vs : vs[u].val \in Nat, ls \in [Markers -> Nat], NEW m \in Markers
    PROVE  SeenOf(vs, ls)[m] \in Int
<1>1. CASE \E u \in DOMAIN vs : Busy(vs[u]) /\ OwnOf(vs[u]) = m
  <2>1. PICK u \in DOMAIN vs : Busy(vs[u]) /\ OwnOf(vs[u]) = m
    BY <1>1, Zenon
  <2>2. SeenOf(vs, ls)[m] = vs[u].val - 1
    BY <2>1, SeenBusy, Zenon
  <2>3. vs[u].val \in Nat
    BY Zenon
  <2> QED  BY <2>2, <2>3
<1>2. CASE ~ \E u \in DOMAIN vs : Busy(vs[u]) /\ OwnOf(vs[u]) = m
  <2>1. SeenOf(vs, ls)[m] = ls[m]
    BY <1>2, SeenIdle, Zenon
  <2>2. ls[m] \in Nat
    OBVIOUS
  <2> QED  BY <2>1, <2>2
<1> QED  BY <1>1, <1>2, Zenon

Counts(vs, ls, ls2, v, x, m, a, d, t, u) ==
  /\ x.own_markers = vs[v].own_markers
  /\ \A w \in DOMAIN vs : vs[w].val \in Nat
  /\ vs[v].at \in 1..Len(vs[v].own_markers)
  /\ Busy(x) => x.at = vs[v].at
  /\ OwnOf(vs[v]) = m /\ \A n \in Markers \ {m} : ls2[n] = ls[n]
  /\ Busy(vs[v]) => a = vs[v].val - 1
  /\ ~ Busy(vs[v]) => a = ls[m]
  /\ Busy(x) => a + d = x.val - 1
  /\ ~ Busy(x) => a + d = ls2[m]
  /\ u = t + d /\ AddsUpTo(SeenOf(vs, ls), t)
LEMMA SeenAdds ==
    ASSUME cfg \in Configs, NEW vs, NEW ls \in [Markers -> Nat], NEW ls2, OneOwnerOf(vs), NEW v \in DOMAIN vs,
           NEW x, Placed(vs), NEW m \in Markers, NEW a \in Int, NEW d \in Nat, NEW t \in Nat, NEW u,
           Counts(vs, ls, ls2, v, x, m, a, d, t, u)
    PROVE  AddsUpTo(SeenOf([vs EXCEPT ![v] = x], ls2), u)
<1>a. SUFFICES ASSUME x.own_markers = vs[v].own_markers,
                      \A w \in DOMAIN vs : vs[w].val \in Nat,
                      vs[v].at \in 1..Len(vs[v].own_markers), Busy(x) => x.at = vs[v].at,
                      OwnOf(vs[v]) = m, \A n \in Markers \ {m} : ls2[n] = ls[n],
                      Busy(vs[v]) => a = vs[v].val - 1,
                      ~ Busy(vs[v]) => a = ls[m],
                      Busy(x) => a + d = x.val - 1,
                      ~ Busy(x) => a + d = ls2[m],
                      u = t + d, AddsUpTo(SeenOf(vs, ls), t)
               PROVE  AddsUpTo(SeenOf([vs EXCEPT ![v] = x], ls2), u)
  BY Zenon DEF Counts
<1>0. PICK ws : ws = [vs EXCEPT ![v] = x]
  BY Zenon
<1>1. DOMAIN ws = DOMAIN vs /\ ws[v] = x /\ \A w \in DOMAIN vs \ {v} : ws[w] = vs[w]
  BY <1>0, Zenon
<1>2. OneOwnerOf(ws)
  BY <1>a, <1>0, OwnersKept, Zenon
<1>3. PICK i \in 1..Len(vs[v].own_markers) : i = vs[v].at
  BY <1>a, Zenon
<1>4. vs[v].own_markers[i] = m
  BY <1>a, <1>3, Zenon DEF OwnOf
<1>5. SeenOf(vs, ls)[m] = a
  <2>0. ReadsAt(vs, v, i, m)
    BY <1>3, <1>4, Zenon DEF ReadsAt
  <2>1. /\ Busy(vs[v]) => SeenOf(vs, ls)[m] = vs[v].val - 1
        /\ ~ Busy(vs[v]) => SeenOf(vs, ls)[m] = ls[m]
    BY <2>0, SeenAt
  <2> QED  BY <1>a, <2>1, Zenon
<1>60. Placed(ws)
  BY <1>a, <1>1, PlacedKept, Zenon
<1>6. SeenOf(ws, ls2)[m] = a + d
  <2>0. i \in 1..Len(ws[v].own_markers) /\ ws[v].own_markers[i] = m /\ v \in DOMAIN ws
        /\ (Busy(ws[v]) => ws[v].at = i)
    BY <1>a, <1>1, <1>3, <1>4, Zenon
  <2>1. ReadsAt(ws, v, i, m)
    BY <1>2, <1>60, <2>0, Zenon DEF ReadsAt
  <2>3. /\ Busy(ws[v]) => SeenOf(ws, ls2)[m] = ws[v].val - 1
        /\ ~ Busy(ws[v]) => SeenOf(ws, ls2)[m] = ls2[m]
    BY <2>1, SeenAt
  <2> QED  BY <1>a, <1>1, <2>3, Zenon
<1>7. ASSUME NEW n \in Markers, n # m PROVE SeenOf(ws, ls2)[n] = SeenOf(vs, ls)[n]
  <2>1. ~ (Busy(vs[v]) /\ OwnOf(vs[v]) = n) /\ ~ (Busy(x) /\ OwnOf(x) = n) /\ ls2[n] = ls[n]
    BY <1>a, <1>7, Zenon DEF OwnOf
  <2>2. ~ (Busy(ws[v]) /\ OwnOf(ws[v]) = n)
    BY <1>1, <2>1, Zenon
  <2>3. OneMoves(vs, ws, v)
    BY <1>1, <1>2, <1>60, Zenon DEF OneMoves
  <2> QED  BY <2>1, <2>2, <2>3, SeenOther
<1>8. PICK f, g : f = SeenOf(vs, ls) /\ g = SeenOf(ws, ls2)
  BY Zenon
<1>9. \A n \in Markers : f[n] \in Int
  BY <1>a, <1>8, SeenInt, Zenon
<1>10. \A n \in Markers : g[n] = f[n] + (IF n = m THEN d ELSE 0)
  <2>1. g[m] = f[m] + d
    BY <1>5, <1>6, <1>8, Zenon
  <2>2. ASSUME NEW n \in Markers, n # m PROVE g[n] = f[n] + 0
    <3>1. g[n] = f[n] /\ f[n] \in Int
      BY <1>7, <1>8, <1>9, <2>2, Zenon
    <3>2. \A z \in Int : z = z + 0
      OBVIOUS
    <3> QED  BY <3>1, <3>2, Zenon
  <2> QED  BY <2>1, <2>2, Zenon
<1>11. AddsUpTo(f, t) /\ u = t + d
  BY <1>a, <1>8, Zenon
<1>12. AddsUpTo(g, u)
  BY <1>9, <1>10, <1>11, AddsGrow, Zenon
<1> QED  BY <1>0, <1>8, <1>12, Zenon

LEMMA StatsGrow ==
    ASSUME NEW s \in [validated : Nat, skipped : Nat, errors : Nat], NEW a \in Nat, NEW b \in Nat, NEW e \in Nat,
           NEW s2, s2 = [validated |-> s.validated + a, skipped |-> s.skipped + b, errors |-> s.errors + e]
    PROVE  /\ s2 \in [validated : Nat, skipped : Nat, errors : Nat]
           /\ s.validated + s.skipped \in Nat
           /\ s2.validated + s2.skipped = (s.validated + s.skipped) + (a + b)
           /\ s2.errors = s.errors + e
<1>1. s.validated \in Nat /\ s.skipped \in Nat /\ s.errors \in Nat
  OBVIOUS
<1>2. s2.validated = s.validated + a /\ s2.skipped = s.skipped + b /\ s2.errors = s.errors + e
  OBVIOUS
<1>3. s2 \in [validated : Nat, skipped : Nat, errors : Nat]
  BY <1>1
<1> QED  BY <1>1, <1>2, <1>3

LEMMA StatsIs ==
    ASSUME NEW s \in [validated : Nat, skipped : Nat, errors : Nat], NEW a \in Nat, NEW b \in Nat, NEW e \in Nat
    PROVE  /\ [s EXCEPT !.validated = @ + a, !.errors = @ + e]
                = [validated |-> s.validated + a, skipped |-> s.skipped + 0, errors |-> s.errors + e]
           /\ [s EXCEPT !.skipped = @ + b]
                = [validated |-> s.validated + 0, skipped |-> s.skipped + b, errors |-> s.errors + 0]
<1>1. PICK p \in Nat, q \in Nat, r \in Nat : s = [validated |-> p, skipped |-> q, errors |-> r]
  OBVIOUS
<1>2. s.validated = p /\ s.skipped = q /\ s.errors = r
  BY <1>1
<1>3. p + 0 = p /\ q + 0 = q /\ r + 0 = r
  OBVIOUS
<1>4. [s EXCEPT !.validated = @ + a, !.errors = @ + e] = [validated |-> p + a, skipped |-> q, errors |-> r + e]
  <2>1. [s EXCEPT !.validated = @ + a, !.errors = @ + e] = [s EXCEPT !.validated = p + a, !.errors = r + e]
    BY <1>2, Zenon
  <2>2. [s EXCEPT !.validated = p + a] = [validated |-> p + a, skipped |-> q, errors |-> r]
    BY <1>1
  <2>3. [s EXCEPT !.validated = p + a, !.errors = r + e] = [[s EXCEPT !.validated = p + a] EXCEPT !.errors = r + e]
    BY <1>1
  <2>4. PICK z : z = [validated |-> p + a, skipped |-> q, errors |-> r]
    BY Zenon
  <2>5. [z EXCEPT !.errors = r + e] = [validated |-> p + a, skipped |-> q, errors |-> r + e]
    BY <2>4
  <2> QED  BY <2>1, <2>2, <2>3, <2>4, <2>5, Zenon
<1>5. [s EXCEPT !.skipped = @ + b] = [validated |-> p, skipped |-> q + b, errors |-> r]
  BY <1>1
<1> QED  BY <1>2, <1>3, <1>4, <1>5, Zenon

DoneStats(s, e) == [s EXCEPT !.validated = @ + 1, !.errors = @ + e]
LEMMA StatsCount ==
    ASSUME NEW s \in [validated : Nat, skipped : Nat, errors : Nat], NEW e \in Nat
    PROVE  /\ DoneStats(s, e) \in [validated : Nat, skipped : Nat, errors : Nat]
           /\ s.validated + s.skipped \in Nat
           /\ DoneStats(s, e).validated + DoneStats(s, e).skipped = (s.validated + s.skipped) + 1
           /\ DoneStats(s, e).errors = s.errors + e
<1>1. PICK x : x = [validated |-> s.validated + 1, skipped |-> s.skipped + 0, errors |-> s.errors + e]
  BY Zenon
<1>3. 0 \in Nat /\ 1 \in Nat
  OBVIOUS
<1>4. DoneStats(s, e) = x
  BY <1>1, <1>3, StatsIs, Zenon DEF DoneStats
<1>5. /\ x \in [validated : Nat, skipped : Nat, errors : Nat]
      /\ s.validated + s.skipped \in Nat
      /\ x.validated + x.skipped = (s.validated + s.skipped) + (1 + 0)
      /\ x.errors = s.errors + e
  BY <1>1, StatsGrow
<1>7. 1 + 0 = 1
  OBVIOUS
<1> QED  BY <1>4, <1>5, <1>7, Zenon

HitStats(s, d) == [s EXCEPT !.skipped = @ + d]
LEMMA HitCount ==
    ASSUME NEW s \in [validated : Nat, skipped : Nat, errors : Nat], NEW d \in Nat
    PROVE  /\ HitStats(s, d) \in [validated : Nat, skipped : Nat, errors : Nat]
           /\ s.validated + s.skipped \in Nat
           /\ HitStats(s, d).validated + HitStats(s, d).skipped = (s.validated + s.skipped) + d
           /\ HitStats(s, d).errors = s.errors
<1>2. PICK y : y = [validated |-> s.validated + 0, skipped |-> s.skipped + d, errors |-> s.errors + 0]
  BY Zenon
<1>3. 0 \in Nat /\ 1 \in Nat
  OBVIOUS
<1>4. HitStats(s, d) = y
  BY <1>2, <1>3, StatsIs, Zenon DEF HitStats
<1>6. /\ y \in [validated : Nat, skipped : Nat, errors : Nat]
      /\ s.validated + s.skipped \in Nat
      /\ y.validated + y.skipped = (s.validated + s.skipped) + (0 + d)
      /\ y.errors = s.errors + 0
  BY <1>2, StatsGrow
<1>7. 0 + d = d /\ s.errors + 0 = s.errors
  OBVIOUS
<1> QED  BY <1>4, <1>6, <1>7, Zenon

LEMMA DoneLooking ==
    ASSUME NEW y, NEW x, NEW ls, NEW ls2, NEW o, NEW b, LookingAt(y, ls), Busy(y),
           x.pc = o, x.own_markers = y.own_markers, x.at = b, x.k = 0,
           o = "look" \/ (o = "again" /\ b = y.at)
    PROVE  LookingAt(x, ls2)
<1>1. ~ Busy(x) /\ x.pc # "snap"
  BY DEF Busy
<1>2. y.at <= Len(y.own_markers)
  BY Zenon DEF LookingAt
<1>3. x.pc = "again" => x.at <= Len(x.own_markers)
  <2>1. "look" # "again"
    OBVIOUS
  <2> QED  BY <1>2, <2>1, Zenon
<1> QED  BY <1>1, <1>3, Zenon DEF LookingAt

LEMMA DoneDraining ==
    ASSUME NEW y \in ThreadState, NEW x, NEW ls \in [Markers -> Nat], NEW ls2 \in [Markers -> Nat],
           at_stop \in [Markers -> Nat], DrainingAt(y, ls), Busy(y), y.at \in 1..Len(y.own_markers),
           x.pc \in {"look", "again"}, x.own_markers = y.own_markers, x.draining = y.draining,
           y.draining => x.pc = "look" /\ x.at = y.at + 1,
           \A m \in Markers : ls2[m] >= ls[m], ls2[OwnOf(y)] = y.val
    PROVE  DrainingAt(x, ls2)
<1>1. ~ Busy(x) /\ x.pc # "ended" /\ (x.pc = "look" => x.pc # "again")
  BY DEF Busy
<1>2. x.draining => stop_flag /\ x.pc # "again"
  BY <1>1, Zenon DEF DrainingAt
<1>3. ASSUME x.draining, NEW i \in 1..Len(y.own_markers), i < x.at
      PROVE  ls2[y.own_markers[i]] >= at_stop[y.own_markers[i]]
  <2>1. y.own_markers \in Seq(Markers) /\ y.at \in Nat
    BY DEF ThreadState
  <2>2. PICK m \in Markers : m = y.own_markers[i]
    BY <2>1, SeqAt, Zenon
  <2>3. ls2[m] \in Nat /\ ls[m] \in Nat /\ at_stop[m] \in Nat /\ ls2[m] >= ls[m]
    BY Zenon
  <2>4. x.at = y.at + 1
    BY <1>3, Zenon
  <2>5. i < y.at \/ i = y.at
    BY <1>3, <2>1, <2>4
  <2>6. CASE i < y.at
    <3>1. ls[m] >= at_stop[m]
      BY <1>3, <2>2, <2>6, Zenon DEF DrainingAt
    <3>2. ls2[m] >= at_stop[m]
      BY <2>3, <3>1
    <3> QED  BY <2>2, <3>2, Zenon
  <2>7. CASE i = y.at
    BY <1>3, <2>7, Zenon DEF DrainingAt, OwnOf
  <2> QED  BY <2>5, <2>6, <2>7, Zenon
<1> QED  BY <1>1, <1>2, <1>3, Zenon DEF DrainingAt

LEMMA DoneStep ==
    ASSUME TypeOK, TeamInv, NEW v \in Validators, Scanning(v), NEW e \in Nat, Done(v, e),
           cfg' = cfg, UNCHANGED <<client, fabric, stop_flag, main, at_stop>>, lapped' \in BOOLEAN,
           NoFalseAlarm'
    PROVE  TeamOK' /\ TeamInv'
<1>1. PICK y \in ThreadState, ls \in [Markers -> Nat], ss \in [validated : Nat, skipped : Nat, errors : Nat] :
        y = validators[v] /\ ls = last_seen /\ ss = stats
  BY ThreadSet, TeamIs, Zenon
<1>2. PICK o \in Where, b \in Nat \ {0} :
        /\ o = IF repoll /\ ~ y.draining THEN "again" ELSE "look"
        /\ b = IF repoll /\ ~ y.draining THEN y.at ELSE y.at + 1
  <2>1. y.at \in Nat \ {0}
    BY DEF ThreadState
  <2>2. (IF repoll /\ ~ y.draining THEN y.at ELSE y.at + 1) \in Nat \ {0}
    BY <2>1
  <2>3. (IF repoll /\ ~ y.draining THEN "again" ELSE "look") \in Where
    BY DEF Where
  <2> QED  BY <2>2, <2>3, Zenon
<1>3. /\ o = "look" \/ (o = "again" /\ b = y.at)
      /\ y.draining => o = "look" /\ b = y.at + 1
      /\ o \in {"look", "again"}
  BY <1>2, Zenon
<1>4. PICK x : x = OnDone(y, o, b)
  BY Zenon
<1>5. /\ x \in ThreadState /\ x.pc = o /\ x.own_markers = y.own_markers /\ x.at = b
      /\ x.k = 0 /\ x.val = 0 /\ x.draining = y.draining
  BY <1>4, DoneIs
<1>6. validators' = [validators EXCEPT ![v] = x]
  BY <1>1, <1>2, <1>4, Zenon DEF Done, OnDone
<1>7. PICK m \in Markers : m = Own(v) /\ m = OwnOf(y) /\ y.at \in 1..Len(y.own_markers)
  <2>1. Looking(v)
    BY Zenon DEF TeamInv
  <2> QED  BY <1>1, <2>1, AtSlot, Zenon DEF Own, OwnOf
<1>8. Busy(y) /\ LookingAt(y, ls) /\ DrainingAt(y, ls)
  BY <1>1, LookingIs, Zenon DEF TeamInv, Scanning, Busy
<1>9. /\ y.val \in Nat /\ y.val >= ls[m] + 1 /\ y.val <= Marker(m) /\ ls[m] \in Nat /\ Marker(m) \in Nat
  <2>1. y.val \in (ls[m] + 1)..Marker(m)
    BY <1>7, <1>8, Zenon DEF LookingAt
  <2>2. y.val \in Nat /\ ls[m] \in Nat /\ Marker(m) \in Nat
    BY <1>1, TypesThread, TypesMarker, Zenon
  <2> QED  BY <2>1, <2>2
<1>10. PICK ls2 \in [Markers -> Nat] :
         ls2 = last_seen' /\ ls2[m] = y.val /\ \A n \in Markers \ {m} : ls2[n] = ls[n]
  <2>1. last_seen' = [ls EXCEPT ![m] = y.val]
    BY <1>1, <1>7, Zenon DEF Done
  <2>2. [ls EXCEPT ![m] = y.val] \in [Markers -> Nat]
    BY <1>9, Zenon
  <2> QED  BY <2>1, <2>2, Zenon
<1>11. \A n \in Markers : /\ ls2[n] >= ls[n] /\ ls2[n] <= Marker(n)
                          /\ ls2[n] # ls[n] => n = m
  <2>1. ls2[m] >= ls[m] /\ ls2[m] <= Marker(m)
    BY <1>9, <1>10
  <2>2. ASSUME NEW n \in Markers, n # m PROVE ls2[n] >= ls[n] /\ ls2[n] <= Marker(n) /\ ls2[n] = ls[n]
    <3>1. ls2[n] = ls[n] /\ ls[n] <= Marker(n) /\ ls[n] \in Nat
      BY <1>1, <1>10, <2>2, Zenon DEF TeamInv
    <3>2. ls[n] >= ls[n]
      BY <3>1
    <3> QED  BY <3>1, <3>2, Zenon
  <2> QED  BY <2>1, <2>2, Zenon
<1>12. LookingAt(x, ls2)
  BY <1>3, <1>5, <1>8, DoneLooking, Zenon
<1>13. DrainingAt(x, ls2)
  <2>1. at_stop \in [Markers -> Nat]
    BY TeamIs, Zenon
  <2>2. /\ x.pc \in {"look", "again"} /\ (y.draining => x.pc = "look" /\ x.at = y.at + 1)
        /\ \A n \in Markers : ls2[n] >= ls[n]
        /\ ls2[OwnOf(y)] = y.val
    BY <1>3, <1>5, <1>7, <1>10, <1>11, Zenon
  <2> QED  BY <1>5, <1>7, <1>8, <2>1, <2>2, DoneDraining, Zenon
<1>14. PICK s2 : s2 = stats'
  BY Zenon
<1>15. /\ s2 \in [validated : Nat, skipped : Nat, errors : Nat]
       /\ ss.validated + ss.skipped \in Nat
       /\ s2.validated + s2.skipped = (ss.validated + ss.skipped) + 1
  <2>1. s2 = DoneStats(ss, e)
    BY <1>1, <1>14, Zenon DEF Done, DoneStats
  <2> QED  BY <2>1, StatsCount, Zenon
<1>16. AddsUpTo(SeenOf(validators', ls2), s2.validated + s2.skipped)
  <2>1. PICK vs : vs = validators
    BY Zenon
  <2>2. OneOwnerOf(vs) /\ Placed(vs) /\ v \in DOMAIN vs /\ cfg \in Configs /\ vs[v] = y
    BY <1>1, <2>1, OwnersAre, BusyAtOwn, TeamIs, TypesCfg, Zenon DEF TeamInv
  <2>3. PICK a \in Int, t \in Nat : a = y.val - 1 /\ t = ss.validated + ss.skipped
    <3>1. y.val - 1 \in Int
      BY <1>9
    <3> QED  BY <1>15, <3>1, Zenon
  <2>4. /\ x.own_markers = vs[v].own_markers
        /\ \A w \in DOMAIN vs : vs[w].val \in Nat
        /\ vs[v].at \in 1..Len(vs[v].own_markers)
        /\ OwnOf(vs[v]) = m /\ \A n \in Markers \ {m} : ls2[n] = ls[n]
        /\ Busy(vs[v]) /\ a = vs[v].val - 1
    <3>1. \A w \in DOMAIN vs : vs[w].val \in Nat
      BY <2>1, TeamIs, TypesThread, Zenon
    <3> QED  BY <1>5, <1>7, <1>8, <1>10, <2>2, <2>3, <3>1, Zenon
  <2>5. ~ Busy(x)
    BY <1>3, <1>5 DEF Busy
  <2>61. PICK d \in Nat : d = 1
    OBVIOUS
  <2>6. a + d = ls2[m] /\ s2.validated + s2.skipped = t + d
    BY <1>9, <1>10, <1>15, <2>3, <2>61
  <2>7. AddsUpTo(SeenOf(vs, ls), t)
    BY <1>1, <2>1, <2>3, OwnersAre, Zenon DEF TeamInv
  <2>8. PICK u : u = s2.validated + s2.skipped
    BY Zenon
  <2>9. AddsUpTo(SeenOf([vs EXCEPT ![v] = x], ls2), u)
    <3>1. Counts(vs, ls, ls2, v, x, m, a, d, t, u)
      BY <2>4, <2>5, <2>6, <2>7, <2>8, Zenon DEF Counts
    <3> QED  BY <2>2, <3>1, SeenAdds, Zenon
  <2> QED  BY <1>6, <2>1, <2>8, <2>9, Zenon
<1>17. /\ \A n \in Markers : /\ last_seen'[n] >= last_seen[n] /\ last_seen'[n] <= Marker(n)
                             /\ last_seen'[n] # last_seen[n] => Busy(validators[v]) /\ n = Own(v)
  BY <1>1, <1>7, <1>8, <1>10, <1>11, Zenon
<1>18. /\ x.own_markers = validators[v].own_markers /\ validators[v].pc # "none" /\ validators[v].pc # "ended"
       /\ x.pc # "none"
  <2>1. y.pc # "none" /\ y.pc # "ended"
    BY <1>8 DEF Busy
  <2>2. x.pc # "none"
    BY <1>3, <1>5
  <2> QED  BY <1>1, <1>5, <2>1, <2>2, Zenon
<1>19. /\ last_seen' \in [Markers -> Nat] /\ LookingAt(x, last_seen') /\ DrainingAt(x, last_seen')
       /\ stats' \in [validated : Nat, skipped : Nat, errors : Nat]
       /\ AddsUpTo(SeenOf(validators', last_seen'), stats'.validated + stats'.skipped)
  BY <1>10, <1>12, <1>13, <1>14, <1>15, <1>16, Zenon
<1> QED  BY <1>5, <1>6, <1>17, <1>18, <1>19, ThreadStep, Zenon

LEMMA DoneErrors ==
    ASSUME TypeOK, NEW v, NEW e \in Nat, Done(v, e)
    PROVE  stats'.errors = stats.errors + e /\ stats.errors \in Nat
<1>1. stats \in [validated : Nat, skipped : Nat, errors : Nat] /\ stats.errors \in Nat
  BY TeamIs, TypesCfg, Zenon
<1>2. stats' = DoneStats(stats, e)
  BY Zenon DEF Done, DoneStats
<1> QED  BY <1>1, <1>2, StatsCount, Zenon

LEMMA NextSlotStep ==
    ASSUME TypeOK, TeamInv, NEW v \in Validators, Scanning(v), validators[v].pc # "snap", NextSlot(v),
           validators[v].k + 1 < cfg.ops,
           cfg' = cfg, UNCHANGED <<client, fabric, last_seen, stats, lapped, stop_flag, main, at_stop>>
    PROVE  TeamOK' /\ TeamInv'
<1>1. PICK y \in ThreadState, ls \in {last_seen} : y = validators[v] /\ ls = last_seen
  BY ThreadSet, Zenon
<1>2. PICK x : x = [y EXCEPT !.k = y.k + 1]
  BY Zenon
<1>3. validators' = [validators EXCEPT ![v] = x]
  BY <1>1, <1>2, ThreadSet, Zenon
<1>4. /\ x \in ThreadState /\ x.pc = y.pc /\ x.own_markers = y.own_markers /\ x.at = y.at
      /\ x.k = y.k + 1 /\ x.val = y.val /\ x.draining = y.draining
  BY <1>2, NextSlotIs
<1>5. LookingAt(y, ls) /\ DrainingAt(y, ls) /\ Busy(y)
  BY <1>1, LookingIs, Zenon DEF TeamInv, Scanning, Busy
<1>6. Busy(x) /\ x.pc # "snap" /\ OwnOf(x) = OwnOf(y) /\ x.pc # "again" /\ x.pc # "none" /\ x.pc # "ended"
  <2>1. Busy(x) /\ x.pc # "snap" /\ OwnOf(x) = OwnOf(y)
    BY <1>1, <1>4, <1>5, Zenon DEF Busy, OwnOf
  <2> QED  BY <2>1 DEF Busy
<1>7. LookingAt(x, ls)
  BY <1>1, <1>4, <1>5, <1>6, Zenon DEF LookingAt
<1>8. DrainingAt(x, ls)
  BY <1>4, <1>5, <1>6, Zenon DEF DrainingAt
<1>9. /\ LookingAt(x, last_seen) /\ DrainingAt(x, last_seen)
      /\ x.own_markers = validators[v].own_markers /\ Busy(validators[v])
      /\ x.at = validators[v].at /\ x.val = validators[v].val
      /\ validators[v].pc # "none" /\ validators[v].pc # "ended"
  BY <1>1, <1>4, <1>5, <1>6, <1>7, <1>8, Zenon
<1> QED  BY <1>3, <1>4, <1>6, <1>9, QuietStep, Zenon

LEMMA AgreesStep ==
    ASSUME TypeOK, TeamInv, NEW v \in Validators, Scanning(v), validators[v].pc # "snap", Agrees(v),
           cfg' = cfg, UNCHANGED <<client, fabric, lapped, stop_flag, main, at_stop>>
    PROVE  TeamOK' /\ TeamInv'
<1>1. CASE validators[v].k + 1 < cfg.ops
  <2>1. NextSlot(v) /\ UNCHANGED <<last_seen, stats>>
    BY <1>1, Zenon DEF Agrees
  <2> QED  BY <1>1, <2>1, NextSlotStep, Zenon
<1>2. CASE ~ (validators[v].k + 1 < cfg.ops)
  <2>1. Done(v, 0) /\ 0 \in Nat
    <3>1. Done(v, 0)
      BY <1>2, Zenon DEF Agrees
    <3> QED  BY <3>1
  <2>2. stats'.errors = stats.errors
    <3>1. stats'.errors = stats.errors + 0 /\ stats.errors \in Nat
      BY <2>1, DoneErrors, Zenon
    <3> QED  BY <3>1
  <2>3. NoFalseAlarm' /\ lapped' \in BOOLEAN
    <3>1. faults' = faults /\ lapped' = lapped
      BY Zenon DEF fabric
    <3>2. NoFalseAlarm /\ lapped \in BOOLEAN
      BY TypesCfg, Zenon DEF TeamInv
    <3>3. lapped' \in BOOLEAN
      BY <3>1, <3>2
    <3>4. NoFalseAlarm'
      BY <2>2, <3>1, <3>2 DEF NoFalseAlarm
    <3> QED  BY <3>3, <3>4, Zenon
  <2> QED  BY <2>1, <2>3, DoneStep, Zenon
<1> QED  BY <1>1, <1>2, Zenon

LEMMA ScanStep ==
    ASSUME TypeOK, NetInv, TeamInv, NEW v \in Validators, Scan(v)
    PROVE  TeamOK' /\ TeamInv'
<1>1. /\ validators[v].pc = "scan" /\ cfg' = cfg
      /\ UNCHANGED <<client, fabric, lapped, stop_flag, main, at_stop>>
  BY Zenon DEF Scan
<1>2. Scanning(v) /\ validators[v].pc # "snap" /\ validators[v].pc # "none" /\ validators[v].pc # "ended"
  BY <1>1 DEF Scanning
<1>3. CASE Agrees(v)
  BY <1>1, <1>2, <1>3, AgreesStep, Zenon
<1>4. CASE /\ Now(v) # Expected(v)
           /\ Goto(v, IF InTail(v) THEN "retry" ELSE "snap") /\ UNCHANGED <<last_seen, stats>>
  <2>1. Looking(v)
    BY Zenon DEF TeamInv
  <2>2. PICK o : o = IF InTail(v) THEN "retry" ELSE "snap"
    BY Zenon
  <2>3. o \in Where /\ o \notin {"none", "again", "ended"} /\ o \in {"scan", "retry", "snap"}
    BY <2>2 DEF Where
  <2>4. o = "snap" => ~ InTail(v)
    BY <2>2
  <2>5. o = "snap" /\ faults = 0 /\ cfg.ops >= TailSlots =>
          Reached(QpOf(Own(v)), FirstSlot(Own(v)) + validators[v].k) > validators[v].val
    BY <1>2, <1>4, <2>1, <2>4, Overwritten, Zenon
  <2>6. Goto(v, o)
    BY <1>4, <2>2, Zenon
  <2>7. /\ UNCHANGED <<client, fabric, last_seen, stats, lapped, stop_flag, main, at_stop>>
    BY <1>1, <1>4, Zenon
  <2> QED  BY <1>1, <1>2, <2>3, <2>5, <2>6, <2>7, GotoStep, Zenon
<1> QED  BY <1>3, <1>4, Zenon DEF Scan

LEMMA RetryStep ==
    ASSUME TypeOK, NetInv, TeamInv, NEW v \in Validators, Retry(v)
    PROVE  TeamOK' /\ TeamInv'
<1>1. /\ validators[v].pc = "retry" /\ cfg' = cfg /\ flush[QpOf(Own(v))] = NoMessage
      /\ UNCHANGED <<client, fabric, lapped, stop_flag, main, at_stop>>
  BY Zenon DEF Retry
<1>2. Scanning(v) /\ validators[v].pc # "snap" /\ validators[v].pc # "none" /\ validators[v].pc # "ended"
  BY <1>1 DEF Scanning
<1>3. CASE Agrees(v)
  BY <1>1, <1>2, <1>3, AgreesStep, Zenon
<1>4. CASE Now(v) # Expected(v) /\ Goto(v, "snap") /\ UNCHANGED <<last_seen, stats>>
  <2>1. Looking(v)
    BY Zenon DEF TeamInv
  <2>3. "snap" \in Where /\ "snap" \notin {"none", "again", "ended"} /\ "snap" \in {"scan", "retry", "snap"}
    BY DEF Where
  <2>5. faults = 0 /\ cfg.ops >= TailSlots =>
          Reached(QpOf(Own(v)), FirstSlot(Own(v)) + validators[v].k) > validators[v].val
    BY <1>1, <1>2, <1>4, <2>1, Overwritten, Zenon
  <2>7. /\ UNCHANGED <<client, fabric, last_seen, stats, lapped, stop_flag, main, at_stop>>
    BY <1>1, <1>4, Zenon
  <2> QED  BY <1>1, <1>2, <1>4, <2>3, <2>5, <2>7, GotoStep, Zenon
<1> QED  BY <1>3, <1>4, Zenon DEF Retry

LEMMA SnapStep ==
    ASSUME TypeOK, NetInv, TeamInv, NEW v \in Validators, Snap(v)
    PROVE  TeamOK' /\ TeamInv'
<1>1. PICK real \in BOOLEAN : real = (classify_validation_mismatch(Expected(v), Now(v)) = "REAL")
  BY Zenon
<1>2. PICK e \in Nat : e = IF real THEN 1 ELSE 0
  OBVIOUS
<1>3. /\ validators[v].pc = "snap" /\ cfg' = cfg /\ Done(v, e)
      /\ UNCHANGED <<client, fabric, stop_flag, main, at_stop>>
      /\ lapped' = (lapped \/ (real /\ Rounds(QpOf(Own(v)), FirstSlot(Own(v)) + validators[v].k) >= validators[v].val + 3))
  BY <1>1, <1>2, Zenon DEF Snap
<1>4. Scanning(v) /\ Looking(v)
  <2>1. Looking(v)
    BY Zenon DEF TeamInv
  <2> QED  BY <1>3, <2>1 DEF Scanning
<1>5. lapped' \in BOOLEAN
  BY <1>3, Zenon
<1>6. NoFalseAlarm'
  <2>1. faults' = faults /\ stats'.errors = stats.errors + e /\ stats.errors \in Nat /\ faults \in Nat
    BY <1>3, DoneErrors, TypesCfg, Zenon DEF fabric
  <2>2. cfg.ops \in Nat /\ TailSlots \in Nat
    <3>1. cfg \in Configs
      BY TypesCfg, Zenon
    <3> QED  BY <3>1, Sizes, ValidationAssumption DEF Pos
  <2>3. SUFFICES ASSUME stats'.errors > 0, ~ (faults > 0), ~ (cfg.ops < TailSlots) PROVE lapped'
    BY <1>3, <2>1, Zenon DEF NoFalseAlarm
  <2>4. faults = 0 /\ cfg.ops >= TailSlots
    BY <2>1, <2>2, <2>3
  <2>5. CASE real
    BY <1>1, <1>3, <1>4, <2>4, <2>5, LateAlarm, Zenon
  <2>6. CASE ~ real
    <3>1. stats.errors > 0
      BY <1>2, <2>1, <2>3, <2>6
    <3>2. lapped
      BY <2>3, <3>1, Zenon DEF TeamInv, NoFalseAlarm
    <3> QED  BY <1>3, <3>2, Zenon
  <2> QED  BY <2>5, <2>6, Zenon
<1> QED  BY <1>3, <1>4, <1>5, <1>6, DoneStep, Zenon

(* A look at a marker that shows nothing new. *)
LEMMA MissDraining ==
    ASSUME NEW y \in ThreadState, NEW x, NEW ls, NEW m, DrainingAt(y, ls), ~ Busy(y), y.pc # "ended",
           m = OwnOf(y), ls[m] >= at_stop[m], x.pc = "look", x.own_markers = y.own_markers, x.at = y.at + 1,
           x.draining = y.draining
    PROVE  DrainingAt(x, ls)
<1>1. ~ Busy(x) /\ x.pc # "ended" /\ x.pc # "again" /\ y.at \in Nat
  BY DEF Busy, ThreadState
<1>2. ASSUME x.draining, NEW i \in 1..Len(y.own_markers), i < x.at
      PROVE  ls[y.own_markers[i]] >= at_stop[y.own_markers[i]]
  <2>1. i < y.at \/ i = y.at
    BY <1>1, <1>2
  <2>2. CASE i < y.at
    BY <1>2, <2>2, Zenon DEF DrainingAt
  <2>3. CASE i = y.at
    BY <2>3, Zenon DEF OwnOf
  <2> QED  BY <2>1, <2>2, <2>3, Zenon
<1>3. x.draining => stop_flag
  BY Zenon DEF DrainingAt
<1> QED  BY <1>1, <1>2, <1>3, Zenon DEF DrainingAt

LEMMA SkipNone ==
    ASSUME NEW s \in [validated : Nat, skipped : Nat, errors : Nat]
    PROVE  [s EXCEPT !.skipped = s.skipped] = s
  OBVIOUS

LEMMA LookAt ==
    ASSUME TypeOK, TeamInv, NEW v \in Validators, Look(v)
    PROVE  /\ validators[v].at \in 1..Len(validators[v].own_markers)
           /\ Own(v) \in Markers /\ ~ Busy(validators[v])
           /\ validators[v].pc # "none" /\ validators[v].pc # "ended" /\ validators[v].k = 0
           /\ cfg' = cfg /\ UNCHANGED <<client, fabric, last_seen, lapped, stop_flag, main, at_stop>>
           /\ last_seen[Own(v)] \in Nat /\ at_stop[Own(v)] \in Nat /\ Marker(Own(v)) \in Nat
           /\ last_seen[Own(v)] <= Marker(Own(v)) /\ at_stop[Own(v)] <= Marker(Own(v))
<1>1. /\ validators[v].pc \in {"look", "again"} /\ validators[v].at <= Len(validators[v].own_markers)
      /\ cfg' = cfg /\ UNCHANGED <<client, fabric, last_seen, lapped, stop_flag, main, at_stop>>
  BY Zenon DEF Look
<1>2. ~ Busy(validators[v]) /\ validators[v].pc # "none" /\ validators[v].pc # "ended"
  BY <1>1 DEF Busy
<1>3. validators[v].at \in 1..Len(validators[v].own_markers) /\ Own(v) \in Markers
  BY <1>1, AtOwn, Zenon
<1>4. validators[v].k = 0
  BY <1>2, LookingIs, Zenon DEF TeamInv, LookingAt
<1>5. last_seen[Own(v)] \in Nat /\ at_stop[Own(v)] \in Nat /\ Marker(Own(v)) \in Nat
  BY <1>3, TypesMarker, Zenon
<1>6. last_seen[Own(v)] <= Marker(Own(v)) /\ at_stop[Own(v)] <= Marker(Own(v))
  BY <1>3, Zenon DEF TeamInv
<1> QED  BY <1>1, <1>2, <1>3, <1>4, <1>5, <1>6, Zenon

LEMMA MissStep ==
    ASSUME TypeOK, TeamInv, NEW v \in Validators, Look(v),
           ~ (Marker(Own(v)) # last_seen[Own(v)] /\ Marker(Own(v)) # 0)
    PROVE  TeamOK' /\ TeamInv'
<1>1. PICK y \in ThreadState, ls \in {last_seen} : y = validators[v] /\ ls = last_seen
  BY ThreadSet, Zenon
<1>2. PICK x : x = OnMiss(y)
  BY Zenon
<1>3. validators' = [validators EXCEPT ![v] = x]
  BY <1>1, <1>2, Zenon DEF Look, OnMiss
<1>4. /\ x \in ThreadState /\ x.pc = "look" /\ x.own_markers = y.own_markers /\ x.at = y.at + 1
      /\ x.k = y.k /\ x.draining = y.draining
  BY <1>2, MissIs
<1>5. stats' = stats
  <2>1. stats \in [validated : Nat, skipped : Nat, errors : Nat]
    BY TeamIs, Zenon
  <2>2. stats' = [stats EXCEPT !.skipped = stats.skipped]
    BY Zenon DEF Look
  <2> QED  BY <2>1, <2>2, SkipNone, Zenon
<1>6. /\ cfg' = cfg /\ UNCHANGED <<client, fabric, last_seen, stats, lapped, stop_flag, main, at_stop>>
      /\ validators[v].pc # "none" /\ validators[v].pc # "ended" /\ ~ Busy(validators[v])
  BY <1>5, LookAt, Zenon
<1>7. ~ Busy(x) /\ x.pc # "none" /\ x.pc # "again" /\ x.pc # "snap" /\ ~ Busy(y) /\ y.pc # "ended" /\ y.k = 0
  <2>1. ~ Busy(x) /\ x.pc # "none" /\ x.pc # "again" /\ x.pc # "snap"
    BY <1>4 DEF Busy
  <2> QED  BY <1>1, <2>1, LookAt, Zenon
<1>8. LookingAt(x, ls)
  BY <1>4, <1>7, Zenon DEF LookingAt
<1>9. DrainingAt(x, ls)
  <2>1. ls[OwnOf(y)] >= at_stop[OwnOf(y)]
    <3>1. PICK a \in Nat, b \in Nat, c \in Nat :
            a = last_seen[Own(v)] /\ b = at_stop[Own(v)] /\ c = Marker(Own(v)) /\ a <= c /\ b <= c
      BY LookAt, Zenon
    <3>2. c = a \/ c = 0
      BY <3>1, Zenon
    <3>3. a >= b
      BY <3>1, <3>2
    <3> QED  BY <1>1, <3>1, <3>3, Zenon DEF Own, OwnOf
  <2>2. DrainingAt(y, ls)
    BY <1>1, LookingIs, Zenon DEF TeamInv
  <2> QED  BY <1>4, <1>7, <2>1, <2>2, MissDraining, Zenon
<1>10. LookingAt(x, last_seen) /\ DrainingAt(x, last_seen) /\ x.own_markers = validators[v].own_markers
  BY <1>1, <1>4, <1>8, <1>9, Zenon
<1> QED  BY <1>3, <1>4, <1>6, <1>7, <1>10, QuietStep, Zenon

IsHit(z, y, c) ==
  /\ z \in ThreadState /\ z.pc = "scan" /\ z.own_markers = y.own_markers /\ z.at = y.at
  /\ z.k = y.k /\ z.val = c /\ z.draining = y.draining
LEMMA HitFields ==
    ASSUME NEW y \in ThreadState, NEW c \in Nat
    PROVE  IsHit(OnHit(y, c), y, c)
<1>1. PICK z : z = OnHit(y, c)
  BY Zenon
<1>2. IsHit(z, y, c)
  BY <1>1, HitIs DEF IsHit
<1> QED  BY <1>1, <1>2, Zenon

LEMMA HitStep ==
    ASSUME TypeOK, TeamInv, NEW v \in Validators, Look(v),
           Marker(Own(v)) # last_seen[Own(v)], Marker(Own(v)) # 0
    PROVE  TeamOK' /\ TeamInv'
<1>1. PICK y \in ThreadState, ls \in [Markers -> Nat], ss \in [validated : Nat, skipped : Nat, errors : Nat] :
        y = validators[v] /\ ls = last_seen /\ ss = stats
  BY ThreadSet, TeamIs, Zenon
<1>2. PICK m \in Markers : m = Own(v) /\ m = OwnOf(y) /\ y.at \in 1..Len(y.own_markers)
  BY <1>1, LookAt, Zenon DEF Own, OwnOf
<1>3. PICK c \in Nat : c = Marker(m)
  BY <1>2, LookAt, Zenon
<1>4. ls[m] \in Nat /\ at_stop[m] \in Nat /\ ls[m] <= c /\ at_stop[m] <= c /\ c # ls[m] /\ c # 0
  BY <1>1, <1>2, <1>3, LookAt, Zenon
<1>5. PICK x : x = OnHit(y, c)
  BY Zenon
<1>6. validators' = [validators EXCEPT ![v] = x]
  BY <1>1, <1>2, <1>3, <1>5, Zenon DEF Look, OnHit
<1>7. /\ x \in ThreadState /\ x.pc = "scan" /\ x.own_markers = y.own_markers /\ x.at = y.at
      /\ x.k = y.k /\ x.val = c /\ x.draining = y.draining
  <2>1. IsHit(x, y, c)
    BY <1>5, HitFields, Zenon
  <2> QED  BY <2>1, Zenon DEF IsHit
<1>8. /\ cfg' = cfg /\ UNCHANGED <<client, fabric, last_seen, lapped, stop_flag, main, at_stop>>
      /\ validators[v].pc # "none" /\ validators[v].pc # "ended" /\ ~ Busy(y) /\ y.k = 0
  BY <1>1, LookAt, Zenon
<1>9. Busy(x) /\ x.pc # "none" /\ x.pc # "again" /\ x.pc # "snap" /\ x.pc # "ended"
  BY <1>7 DEF Busy
<1>10. OwnOf(x) = m
  BY <1>2, <1>7, Zenon DEF OwnOf
<1>11. LookingAt(x, ls)
  <2>1. c \in (ls[m] + 1)..Marker(m)
    BY <1>3, <1>4
  <2>2. x.at <= Len(x.own_markers) /\ x.k < cfg.ops
    <3>1. y.own_markers \in Seq(Markers) /\ cfg \in Configs
      BY <1>1, TypesThread, TypesCfg, Zenon
    <3>2. y.at <= Len(y.own_markers)
      BY <1>2, <3>1
    <3>3. 0 < cfg.ops
      BY <3>1, Sizes DEF Pos
    <3> QED  BY <1>7, <1>8, <3>2, <3>3, Zenon
  <2> QED  BY <1>7, <1>9, <1>10, <2>1, <2>2, Zenon DEF LookingAt
<1>12. DrainingAt(x, ls)
  <2>1. DrainingAt(y, ls)
    BY <1>1, LookingIs, Zenon DEF TeamInv
  <2>2. c >= at_stop[m]
    BY <1>4
  <2> QED  BY <1>7, <1>9, <1>10, <2>1, <2>2, Zenon DEF DrainingAt
<1>13. PICK d \in Nat : d = c - ls[m] - 1
  BY <1>4
<1>14. PICK s2 : s2 = stats'
  BY Zenon
<1>15. s2 = HitStats(ss, d)
  BY <1>1, <1>2, <1>3, <1>13, <1>14, Zenon DEF Look, HitStats
<1>16. /\ s2 \in [validated : Nat, skipped : Nat, errors : Nat]
       /\ ss.validated + ss.skipped \in Nat /\ s2.validated + s2.skipped = (ss.validated + ss.skipped) + d
       /\ s2.errors = ss.errors
  BY <1>15, HitCount, Zenon
<1>17. AddsUpTo(SeenOf(validators', ls), s2.validated + s2.skipped)
  <2>1. PICK vs : vs = validators
    BY Zenon
  <2>2. OneOwnerOf(vs) /\ Placed(vs) /\ v \in DOMAIN vs /\ cfg \in Configs /\ vs[v] = y
    BY <1>1, <1>8, <2>1, OwnersAre, BusyAtOwn, TeamIs, TypesCfg, Zenon DEF TeamInv
  <2>3. PICK a \in Int, t \in Nat : a = ls[m] /\ t = ss.validated + ss.skipped
    <3>1. ls[m] \in Int
      BY <1>4
    <3> QED  BY <1>16, <3>1, Zenon
  <2>4. /\ x.own_markers = vs[v].own_markers
        /\ \A w \in DOMAIN vs : vs[w].val \in Nat
        /\ vs[v].at \in 1..Len(vs[v].own_markers) /\ x.at = vs[v].at
        /\ OwnOf(vs[v]) = m /\ \A n \in Markers \ {m} : ls[n] = ls[n]
        /\ ~ Busy(vs[v]) /\ a = ls[m]
    <3>1. \A w \in DOMAIN vs : vs[w].val \in Nat
      BY <2>1, TeamIs, TypesThread, Zenon
    <3> QED  BY <1>2, <1>7, <1>8, <2>2, <2>3, <3>1, Zenon
  <2>5. a + d = x.val - 1
    BY <1>4, <1>7, <1>13, <2>3
  <2>6. AddsUpTo(SeenOf(vs, ls), t)
    BY <1>1, <1>8, <2>1, <2>3, OwnersAre, Zenon DEF TeamInv
  <2>7. PICK u : u = s2.validated + s2.skipped
    BY Zenon
  <2>8. u = t + d
    BY <1>16, <2>3, <2>7, Zenon
  <2>9. AddsUpTo(SeenOf([vs EXCEPT ![v] = x], ls), u)
    <3>1. Counts(vs, ls, ls, v, x, m, a, d, t, u)
      BY <1>9, <2>4, <2>5, <2>6, <2>8, Zenon DEF Counts
    <3> QED  BY <2>2, <3>1, SeenAdds, Zenon
  <2> QED  BY <1>6, <2>1, <2>7, <2>9, Zenon
<1>18. NoFalseAlarm' /\ lapped' \in BOOLEAN
  <2>1. faults' = faults /\ lapped' = lapped /\ stats'.errors = stats.errors /\ cfg' = cfg
    BY <1>1, <1>8, <1>14, <1>16, Zenon DEF fabric
  <2>2. NoFalseAlarm /\ lapped \in BOOLEAN
    BY TypesCfg, Zenon DEF TeamInv
  <2>3. lapped' \in BOOLEAN
    BY <2>1, <2>2
  <2>4. NoFalseAlarm'
    BY <2>1, <2>2 DEF NoFalseAlarm
  <2> QED  BY <2>3, <2>4, Zenon
<1>19. \A n \in Markers : /\ last_seen'[n] >= last_seen[n] /\ last_seen'[n] <= Marker(n)
                          /\ last_seen'[n] # last_seen[n] => Busy(validators[v]) /\ n = Own(v)
  <2> SUFFICES ASSUME NEW n \in Markers
               PROVE  /\ last_seen'[n] >= last_seen[n] /\ last_seen'[n] <= Marker(n)
                      /\ last_seen'[n] = last_seen[n]
    BY Zenon
  <2>1. last_seen'[n] = last_seen[n] /\ last_seen[n] \in Nat /\ last_seen[n] <= Marker(n)
    BY <1>8, TypesMarker, Zenon DEF TeamInv
  <2>2. last_seen[n] >= last_seen[n]
    BY <2>1
  <2> QED  BY <2>1, <2>2, Zenon
<1>20. /\ last_seen' \in [Markers -> Nat] /\ LookingAt(x, last_seen') /\ DrainingAt(x, last_seen')
       /\ stats' \in [validated : Nat, skipped : Nat, errors : Nat]
       /\ AddsUpTo(SeenOf(validators', last_seen'), stats'.validated + stats'.skipped)
       /\ x.own_markers = validators[v].own_markers
       /\ UNCHANGED <<client, fabric, stop_flag, main, at_stop>>
  BY <1>1, <1>7, <1>8, <1>11, <1>12, <1>14, <1>16, <1>17, Zenon
<1> QED  BY <1>6, <1>7, <1>8, <1>9, <1>18, <1>19, <1>20, ThreadStep, Zenon

LEMMA ValidateStep ==
    ASSUME TypeOK, NetInv, TeamInv, NEW v \in Validators, Validate(v)
    PROVE  /\ TeamOK' /\ TeamInv'
           /\ cfg' = cfg /\ UNCHANGED <<client, fabric>>
<1>1. CASE Begin(v)
  BY <1>1, BeginStep, Zenon DEF Begin
<1>2. CASE Look(v)
  <2>1. cfg' = cfg /\ UNCHANGED <<client, fabric>>
    BY <1>2, LookAt, Zenon
  <2> QED  BY <1>2, <2>1, MissStep, HitStep, Zenon
<1>3. CASE EndOfScan(v)
  BY <1>3, EndStep, Zenon DEF EndOfScan
<1>4. CASE Scan(v)
  BY <1>4, ScanStep, Zenon DEF Scan
<1>5. CASE Retry(v)
  BY <1>5, RetryStep, Zenon DEF Retry
<1>6. CASE Snap(v)
  BY <1>6, SnapStep, Zenon DEF Snap
<1> QED  BY <1>1, <1>2, <1>3, <1>4, <1>5, <1>6, Zenon DEF Validate

-----------------------------------------------------------------------------
(* The main thread.                                                        *)

Places10 == {"starting", "waiting", "run", "failing", "destroying", "joining",
             "passed", "not passed", "failed", "destroyed"}

LEMMA LookingSame ==
    ASSUME cfg' = cfg, UNCHANGED <<client, fabric>>, UNCHANGED threads, NEW v
    PROVE  Looking(v)' <=> Looking(v)
<1>1. /\ \A m : Marker(m)' = Marker(m)
      /\ \A q, s : Reached(q, s)' = Reached(q, s)
      /\ faults' = faults /\ validators' = validators /\ last_seen' = last_seen
  BY NetSame, Zenon DEF fabric, threads
<1>3. Own(v)' = Own(v) /\ (Scanning(v)' <=> Scanning(v))
  BY <1>1, Zenon DEF Own, Scanning
<1>4. Marker(Own(v))' = Marker(Own(v))
  BY <1>1, <1>3, Zenon DEF Marker, fabric
<1>5. /\ QpOf(Own(v))' = QpOf(Own(v)) /\ FirstSlot(Own(v))' = FirstSlot(Own(v))
  BY <1>3, Zenon DEF QpOf, FirstSlot
<1>6. Reached(QpOf(Own(v)), FirstSlot(Own(v)) + validators[v].k)'
        = Reached(QpOf(Own(v)), FirstSlot(Own(v)) + validators[v].k)
  BY <1>1, <1>5, Zenon DEF Reached, Rounds, Slots, fabric
<1> QED  BY <1>1, <1>3, <1>4, <1>6, Zenon DEF Looking

LEMMA TeamOnMain ==
    ASSUME TypeOK, TeamInv, cfg' = cfg, UNCHANGED <<client, fabric>>, UNCHANGED threads,
           main' \in Places10, stop_flag' \in BOOLEAN, at_stop' \in [Markers -> Nat],
           stop_flag => stop_flag' /\ at_stop' = at_stop,
           \A m \in Markers : at_stop'[m] <= Marker(m), Started'
    PROVE  TeamOK' /\ TeamInv'
<1>1. /\ validators' = validators /\ last_seen' = last_seen /\ stats' = stats /\ lapped' = lapped
      /\ faults' = faults
  BY Zenon DEF threads, fabric
<1>2. Validators' = Validators
  BY <1>1, Zenon DEF Validators
<1>3. OneOwner'
  BY <1>1, OwnersAre, Zenon DEF TeamInv
<1>4. NoFalseAlarm'
  BY <1>1, Zenon DEF TeamInv, NoFalseAlarm
<1>5. ASSUME NEW m \in Markers
      PROVE  last_seen'[m] <= Marker(m)' /\ at_stop'[m] <= Marker(m)'
  BY <1>1, NetSame, Zenon DEF TeamInv
<1>6. AddsUpTo(Seen, stats.validated + stats.skipped)'
  BY <1>1, AddsNext, OwnersAre, Zenon DEF TeamInv
<1>7. ASSUME NEW v \in Validators PROVE Looking(v)' /\ Draining(v)'
  <2>1. Looking(v) /\ Draining(v)
    BY Zenon DEF TeamInv
  <2>2. Looking(v)'
    BY <2>1, LookingSame, Zenon
  <2>3. CASE validators[v].draining
    <3>1. stop_flag /\ stop_flag' /\ at_stop' = at_stop
      BY <2>1, <2>3, Zenon DEF Draining
    <3>2. Own(v)' = Own(v) /\ (Scanning(v)' <=> Scanning(v))
      BY <1>1, Zenon DEF Own, Scanning
    <3>3. Draining(v)'
      BY <1>1, <2>1, <3>1, <3>2, Zenon DEF Draining
    <3> QED  BY <2>2, <3>3, Zenon
  <2>4. CASE ~ validators[v].draining
    <3>1. validators[v].pc # "ended"
      BY <2>1, <2>4, Zenon DEF Draining
    <3>2. Draining(v)'
      BY <1>1, <2>4, <3>1, Zenon DEF Draining
    <3> QED  BY <2>2, <3>2, Zenon
  <2> QED  BY <2>3, <2>4, Zenon
<1>8. TeamOK'
  <2>1. TeamOK
    BY TypeParts, Zenon
  <2>2. ThreadState' = ThreadState
    BY Places, Zenon DEF ThreadState
  <2>3. lapped' \in BOOLEAN
    BY <1>1, <2>1, Zenon DEF TeamOK
  <2>4. main' \in {"starting", "waiting", "run", "failing", "destroying", "joining",
                   "passed", "not passed", "failed", "destroyed"}
    BY Zenon DEF Places10
  <2> QED  BY <1>1, <2>1, <2>2, <2>3, <2>4, Places, Zenon DEF TeamOK
<1> QED  BY <1>2, <1>3, <1>4, <1>5, <1>6, <1>7, <1>8, Places, Zenon DEF TeamInv

LEMMA CreatedSame ==
    ASSUME validators' = validators
    PROVE  Created' = Created /\ Validators' = Validators
  BY Zenon DEF Created, Validators

LEMMA StartedNext ==
    ASSUME validators' = validators, main' \in Places10, main' # "starting",
           stop_flag' = (main' \notin {"starting", "waiting", "run"}),
           main' \in {"waiting", "run", "joining", "destroying", "passed", "not passed"} => Created = Validators,
           main' \in {"passed", "not passed"} => \A v \in Validators : validators[v].pc = "ended"
    PROVE  Started'
  BY CreatedSame, Zenon DEF Started

LEMMA FailsStep ==
    ASSUME TypeOK, TeamInv, host_validation_start_fails \/ AllRunning \/ Abandon \/ Stop \/ Joined
    PROVE  /\ TeamOK' /\ TeamInv'
           /\ cfg' = cfg /\ UNCHANGED <<client, fabric>>
<1>1. cfg' = cfg /\ UNCHANGED <<client, fabric>> /\ UNCHANGED threads
  BY Zenon DEF host_validation_start_fails, AllRunning, Abandon, Stop, Joined
<1>2. Started /\ at_stop \in [Markers -> Nat] /\ (\A m \in Markers : at_stop[m] <= Marker(m))
      /\ stop_flag \in BOOLEAN
  BY TeamIs, TypesCfg, Zenon DEF TeamInv
<1>3. validators' = validators
  BY <1>1, Zenon DEF threads
<1>4. CASE host_validation_start_fails
  <2>1. main' = "failing" /\ stop_flag' = TRUE /\ at_stop' = at_stop
    BY <1>4, Zenon DEF host_validation_start_fails
  <2>2. main' \in Places10 /\ main' # "starting"
        /\ main' \notin {"waiting", "run", "joining", "destroying", "passed", "not passed"}
        /\ main' \notin {"passed", "not passed"} /\ main' \notin {"starting", "waiting", "run"}
    BY <2>1 DEF Places10
  <2>3. Started'
    <3>1. stop_flag' = (main' \notin {"starting", "waiting", "run"})
      BY <2>1, <2>2, Zenon
    <3> QED  BY <1>3, <2>2, <3>1, StartedNext, Zenon
  <2>4. stop_flag' \in BOOLEAN /\ stop_flag'
    BY <2>1
  <2> QED  BY <1>1, <1>2, <2>1, <2>2, <2>3, <2>4, TeamOnMain, Zenon
<1>5. CASE AllRunning
  <2>1. main = "waiting" /\ main' = "run" /\ stop_flag' = stop_flag /\ at_stop' = at_stop
    BY <1>5, Zenon DEF AllRunning
  <2>2. main' \in Places10 /\ main' # "starting" /\ main' \notin {"passed", "not passed"}
    BY <2>1 DEF Places10
  <2>3. Created = Validators /\ stop_flag = FALSE
    BY <1>2, <2>1, Zenon DEF Started
  <2>4. Started'
    <3>1. stop_flag' = (main' \notin {"starting", "waiting", "run"})
      BY <2>1, <2>3, Zenon
    <3> QED  BY <1>3, <2>2, <2>3, <3>1, StartedNext, Zenon
  <2>5. stop_flag' \in BOOLEAN /\ (stop_flag => stop_flag')
    BY <2>1, <2>3, Zenon
  <2> QED  BY <1>1, <1>2, <2>1, <2>2, <2>4, <2>5, TeamOnMain, Zenon
<1>6. CASE Abandon
  <2>1. main = "run" /\ main' = "destroying" /\ stop_flag' = TRUE /\ at_stop' = at_stop
    BY <1>6, Zenon DEF Abandon
  <2>2. main' \in Places10 /\ main' # "starting" /\ main' \notin {"passed", "not passed"}
    BY <2>1 DEF Places10
  <2>3. Created = Validators
    BY <1>2, <2>1 DEF Started
  <2>4. Started'
    <3>1. stop_flag' = (main' \notin {"starting", "waiting", "run"})
      BY <2>1, Zenon
    <3> QED  BY <1>3, <2>2, <2>3, <3>1, StartedNext, Zenon
  <2>5. stop_flag' \in BOOLEAN /\ stop_flag'
    BY <2>1
  <2> QED  BY <1>1, <1>2, <2>1, <2>2, <2>4, <2>5, TeamOnMain, Zenon
<1>7. CASE Stop
  <2>1. main = "run" /\ main' = "joining" /\ stop_flag' = TRUE /\ at_stop' = [m \in Markers |-> Marker(m)]
    BY <1>7, Zenon DEF Stop
  <2>2. main' \in Places10 /\ main' # "starting" /\ main' \notin {"passed", "not passed"}
    BY <2>1 DEF Places10
  <2>3. Created = Validators /\ ~ stop_flag
    BY <1>2, <2>1, Zenon DEF Started
  <2>4. Started'
    <3>1. stop_flag' = (main' \notin {"starting", "waiting", "run"})
      BY <2>1, Zenon
    <3> QED  BY <1>3, <2>2, <2>3, <3>1, StartedNext, Zenon
  <2>5. stop_flag' \in BOOLEAN /\ stop_flag'
    BY <2>1
  <2>6. at_stop' \in [Markers -> Nat] /\ \A m \in Markers : at_stop'[m] <= Marker(m)
    <3>1. \A m \in Markers : Marker(m) \in Nat
      BY TypesMarker, Zenon
    <3>2. at_stop' \in [Markers -> Nat] /\ \A m \in Markers : at_stop'[m] = Marker(m)
      BY <2>1, <3>1, Zenon
    <3>3. ASSUME NEW m \in Markers PROVE at_stop'[m] <= Marker(m)
      <4>1. PICK a \in Nat : a = Marker(m)
        BY <3>1, Zenon
      <4>2. a <= a
        OBVIOUS
      <4> QED  BY <3>2, <4>1, <4>2, Zenon
    <3> QED  BY <3>2, <3>3, Zenon
  <2> QED  BY <1>1, <1>2, <2>2, <2>3, <2>4, <2>5, <2>6, TeamOnMain, Zenon
<1>8. CASE Joined
  <2>1. /\ stop_flag' = stop_flag /\ at_stop' = at_stop /\ \A v \in Created : validators[v].pc = "ended"
        /\ \/ main = "failing" /\ main' = "failed"
           \/ main = "destroying" /\ main' = "destroyed"
           \/ main = "joining" /\ main' \in {"passed", "not passed"}
    BY <1>8, Zenon DEF Joined
  <2>2. main' \in Places10 /\ main' # "starting" /\ main' \notin {"starting", "waiting", "run"}
    BY <2>1, Zenon DEF Places10
  <2>3. main' \in {"waiting", "run", "joining", "destroying", "passed", "not passed"} => main = "joining"
    BY <2>1, Zenon
  <2>4. main = "joining" => Created = Validators
    BY <1>2 DEF Started
  <2>5. stop_flag = TRUE
    BY <1>2, <2>1, Zenon DEF Started
  <2>6. main' \in {"passed", "not passed"} => main = "joining"
    BY <2>1, Zenon
  <2>7. Started'
    <3>1. stop_flag' = (main' \notin {"starting", "waiting", "run"})
      BY <2>1, <2>2, <2>5, Zenon
    <3> QED  BY <1>3, <2>1, <2>2, <2>3, <2>4, <2>6, <3>1, StartedNext, Zenon
  <2>8. stop_flag' \in BOOLEAN /\ stop_flag'
    BY <2>1, <2>5, Zenon
  <2> QED  BY <1>1, <1>2, <2>1, <2>2, <2>7, <2>8, TeamOnMain, Zenon
<1> QED  BY <1>1, <1>4, <1>5, <1>6, <1>7, <1>8, Zenon

(* A thread is created: it had not been started. *)
LEMMA StartStep ==
    ASSUME TypeOK, TeamInv, host_validation_start
    PROVE  /\ TeamOK' /\ TeamInv'
           /\ cfg' = cfg /\ UNCHANGED <<client, fabric>>
<1>1. /\ cfg' = cfg /\ main = "starting"
      /\ UNCHANGED <<client, fabric, last_seen, stats, lapped, stop_flag, at_stop>>
  BY Zenon DEF host_validation_start
<1>2. PICK n \in Validators : /\ Created = 0..(n - 1) /\ Goto(n, "created")
                              /\ main' = IF n + 1 = get_num_validators(cfg) THEN "waiting" ELSE main
  BY Zenon DEF host_validation_start
<1>3. PICK N \in Nat : N = get_num_validators(cfg) /\ Validators = 0..(N - 1)
  <2>1. get_num_validators(cfg) \in Nat
    BY TypesCfg, TeamSize, Zenon
  <2> QED  BY <2>1, TeamIs, Zenon
<1>4. n \in Nat /\ n \in 0..(N - 1)
  BY <1>3
<1>5. Started
  BY Zenon DEF TeamInv
<1>6. PICK v \in Validators : v = n
  BY Zenon
<1>7. Goto(v, "created")
  BY <1>2, <1>6, Zenon
<1>8. v \notin Created
  BY <1>2, <1>4, <1>6
<1>9. PICK y \in ThreadState, ls \in {last_seen} : y = validators[v] /\ ls = last_seen /\ y.pc = "none"
  BY <1>8, ThreadSet, Zenon DEF Created
<1>10. PICK x : x = [y EXCEPT !.pc = "created"]
  BY Zenon
<1>11. validators' = [validators EXCEPT ![v] = x]
  BY <1>7, <1>9, <1>10, ThreadSet, Zenon
<1>12. "created" \in Where
  BY DEF Where
<1>13. /\ x \in ThreadState /\ x.pc = "created" /\ x.own_markers = y.own_markers /\ x.at = y.at /\ x.k = y.k
       /\ x.val = y.val /\ x.draining = y.draining
  BY <1>10, <1>12, GotoIs
<1>14. ~ Busy(x) /\ ~ Busy(y) /\ x.pc # "again" /\ x.pc # "ended" /\ x.pc # "snap" /\ x.pc # "none"
  BY <1>9, <1>13 DEF Busy
<1>15. LookingAt(x, ls) /\ DrainingAt(x, ls)
  <2>1. LookingAt(y, ls) /\ DrainingAt(y, ls)
    BY <1>9, LookingIs, Zenon DEF TeamInv
  <2> QED  BY <1>13, <1>14, <2>1, GotoKeeps, Zenon
<1>16. DOMAIN validators = Validators /\ validators \in [Validators -> ThreadState]
  BY TeamIs, Zenon
<1>17. /\ validators' \in [Validators -> ThreadState] /\ validators'[v] = x /\ DOMAIN validators' = Validators
       /\ \A u \in Validators \ {v} : validators'[u] = validators[u]
  BY <1>11, <1>13, <1>16, Zenon
<1>18. Validators' = Validators
  BY <1>17, Zenon DEF Validators
<1>19. Started'
  <2>1. Created' = Created \cup {v}
    <3>1. \A u \in Validators : validators'[u].pc # "none" <=> (validators[u].pc # "none" \/ u = v)
      BY <1>13, <1>14, <1>17, Zenon
    <3> QED  BY <1>18, <3>1 DEF Created
  <2>2. Created' = 0..n
    BY <1>2, <1>4, <1>6, <2>1
  <2>3. stop_flag = FALSE /\ stop_flag' = stop_flag
    BY <1>1, <1>5, Zenon DEF Started
  <2>4. CASE n + 1 = N
    <3>1. main' = "waiting"
      BY <1>2, <1>3, <2>4, Zenon
    <3>2. Created' = Validators
      BY <1>3, <1>4, <2>2, <2>4
    <3> QED  BY <1>18, <2>3, <3>1, <3>2, Zenon DEF Started
  <2>5. CASE n + 1 # N
    <3>1. main' = "starting"
      BY <1>1, <1>2, <1>3, <2>5, Zenon
    <3>2. n + 1 \in 0..(N - 1) /\ 0..n = 0..((n + 1) - 1)
      BY <1>4, <2>5
    <3>3. \E k \in Validators : Created' = 0..(k - 1)
      BY <1>3, <2>2, <3>2, Zenon
    <3>4. (\E k \in Validators : Created = 0..(k - 1))'
      BY <1>18, <3>3, Zenon
    <3>5. /\ stop_flag' = (main' \notin {"starting", "waiting", "run"})
          /\ main' \notin {"waiting", "run", "joining", "destroying", "passed", "not passed"}
          /\ main' \notin {"passed", "not passed"}
      BY <2>3, <3>1, Zenon
    <3> QED  BY <3>4, <3>5, Zenon DEF Started
  <2> QED  BY <2>4, <2>5, Zenon
<1>20. TeamOK'
  <2>1. TeamOK
    BY TypeParts, Zenon
  <2>2. ThreadState' = ThreadState
    BY Places, <1>1, Zenon DEF ThreadState
  <2>3. stop_flag' \in BOOLEAN /\ lapped' \in BOOLEAN
    BY <1>1, <2>1 DEF TeamOK
  <2>4. main' \in {"starting", "waiting", "run", "failing", "destroying", "joining",
                   "passed", "not passed", "failed", "destroyed"}
    BY <1>1, <1>2
  <2>5. /\ validators' \in [0..(get_num_validators(cfg) - 1) -> ThreadState]
    BY <1>17, TeamIs, Zenon
  <2> QED  BY <1>1, <2>1, <2>2, <2>3, <2>4, <2>5, Places, Zenon DEF TeamOK
<1>21. OneOwnerOf(validators) /\ OneOwnerOf(validators')
  <2>1. OneOwnerOf(validators)
    BY <1>1, OwnersAre, Zenon DEF TeamInv
  <2>2. \A u \in DOMAIN validators : validators'[u].own_markers = validators[u].own_markers
    BY <1>9, <1>13, <1>16, <1>17, Zenon
  <2>3. OneOwnerOf(validators')
    BY <1>16, <1>17, <2>1, <2>2, OwnersSame, Zenon
  <2> QED  BY <2>1, <2>3, Zenon
<1>22. OneOwner'
  BY <1>1, <1>21, OwnersAre, Zenon
<1>23. NoFalseAlarm'
  <2>1. faults' = faults
    BY <1>1, Zenon DEF fabric
  <2> QED  BY <1>1, <2>1, Zenon DEF TeamInv, NoFalseAlarm
<1>24. ASSUME NEW u \in Validators PROVE Looking(u)' /\ Draining(u)'
  <2>1. CASE u = v
    BY <1>1, <1>9, <1>15, <1>17, <2>1, LookingNext, Zenon
  <2>2. CASE u # v
    <3>1. LookingAt(validators[u], last_seen) /\ DrainingAt(validators[u], last_seen)
      BY LookingIs, Zenon DEF TeamInv
    <3> QED  BY <1>1, <1>17, <2>2, <3>1, LookingNext, Zenon
  <2> QED  BY <2>1, <2>2, Zenon
<1>25. ASSUME NEW m \in Markers
       PROVE  last_seen'[m] <= Marker(m)' /\ at_stop'[m] <= Marker(m)'
  BY <1>1, NetSame, Zenon DEF TeamInv
<1>26. AddsUpTo(Seen, stats.validated + stats.skipped)'
  <2>1. PICK vs, ws : vs = validators /\ ws = validators'
    BY Zenon
  <2>2. /\ DOMAIN ws = DOMAIN vs /\ \A u \in DOMAIN vs \ {v} : ws[u] = vs[u]
        /\ ws[v] = x /\ v \in DOMAIN vs
    BY <1>16, <1>17, <2>1, Zenon
  <2>3. OneOwnerOf(vs) /\ Placed(vs) /\ OneOwnerOf(ws)
    BY <1>21, <2>1, BusyAtOwn, Zenon
  <2>4. Placed(ws)
    BY <1>14, <2>2, <2>3, PlacedKept, Zenon
  <2>5. ~ Busy(ws[v]) /\ ~ Busy(vs[v])
    BY <1>9, <1>14, <2>1, <2>2, Zenon
  <2>6. \A m \in Markers : SeenOf(ws, ls)[m] = SeenOf(vs, ls)[m]
    <3>1. OneMoves(vs, ws, v)
      BY <2>2, <2>3, <2>4, Zenon DEF OneMoves
    <3> QED  BY <2>5, <3>1, SeenIdleKept
  <2>7. PICK f, g, t : f = SeenOf(vs, ls) /\ g = SeenOf(ws, ls) /\ t = stats.validated + stats.skipped
    BY Zenon
  <2>8. AddsUpTo(f, t)
    BY <1>1, <1>9, <2>1, <2>7, OwnersAre, Zenon DEF TeamInv
  <2>9. AddsUpTo(g, t)
    BY <2>6, <2>7, <2>8, AddsSame, Zenon
  <2>10. AddsUpTo(SeenOf(validators', last_seen'), stats'.validated + stats'.skipped)
    BY <1>1, <1>9, <2>1, <2>7, <2>9, Zenon
  <2> QED  BY <1>1, <2>10, AddsNext, Zenon
<1> QED  BY <1>1, <1>18, <1>19, <1>20, <1>22, <1>23, <1>24, <1>25, <1>26, Places, Zenon DEF TeamInv

-----------------------------------------------------------------------------
(* All together.                                                           *)

LEMMA InvParts ==
    ValidationInv <=> TypeOK /\ NetInv /\ TeamInv
  BY Zenon DEF ValidationInv, NetInv, TeamInv

LEMMA ReachedType ==
    ASSUME TypeOK, cfg' = cfg, NetOK', NEW p \in Qps, NEW s \in 0..(Slots - 1)
    PROVE  Reached(p, s) \in Int /\ Reached(p, s)' \in Int
<1>1. cfg \in Configs /\ NetOK
  BY TypeParts, Zenon
<1>2. landed[p] \in Nat /\ landed'[p] \in Nat
  <2>1. Qps' = Qps
    BY Places, Zenon
  <2> QED  BY <1>1, <2>1, Zenon DEF NetOK
<1>3. RoundsAt(landed[p], s) \in Nat /\ RoundsAt(landed'[p], s) \in Nat
  BY <1>1, <1>2, RoundsOf, Zenon
<1>4. ASSUME NEW x \in Nat, NEW c PROVE x - (IF c THEN 1 ELSE 0) \in Int
  OBVIOUS
<1>5. ReachedAt(landed[p], flush[p], s) \in Int /\ ReachedAt(landed'[p], flush'[p], s) \in Int
  BY <1>3, <1>4, Zenon DEF ReachedAt
<1> QED  BY <1>5, ReachedAre, Zenon

LEMMA InvOnNet ==
    ASSUME TypeOK, NetInv, TeamInv, NEW q \in Qps, Post(q) \/ Poll(q) \/ Fabric(q)
    PROVE  TypeOK' /\ NetInv' /\ TeamInv'
<1>1. /\ NetOK' /\ NetInv' /\ Forward
      /\ cfg' = cfg /\ UNCHANGED <<threads, stop_flag, main, at_stop>>
  BY NetStep, Zenon
<1>2. cfg \in Configs /\ TeamOK /\ NetOK
  BY TypeParts, Zenon
<1>3. TypeOK'
  BY <1>1, <1>2, TeamSame, TypePartsNext, Zenon
<1>4. faults' \in Nat
  BY <1>1, Zenon DEF NetOK
<1>5. ASSUME NEW m \in Markers PROVE Marker(m)' \in Nat
  <2>1. Markers' = Markers
    BY <1>1, Places, Zenon
  <2>2. tail_markers'[m] \in Nat /\ returns'[m] \in Nat
    BY <1>1, <1>5, <2>1, Zenon DEF NetOK
  <2> QED  BY <2>2, Zenon DEF Marker
<1>6. ASSUME NEW p \in Qps, NEW s \in 0..(Slots - 1)
      PROVE  Reached(p, s) \in Int /\ Reached(p, s)' \in Int
  BY <1>1, <1>6, ReachedType, Zenon
<1>7. TeamInv'
  BY <1>1, <1>4, <1>5, <1>6, TeamOnNet, Zenon
<1> QED  BY <1>1, <1>3, <1>7, Zenon

LEMMA InvOnTeam ==
    ASSUME TypeOK, NetInv, TeamOK', TeamInv', cfg' = cfg, UNCHANGED <<client, fabric>>
    PROVE  TypeOK' /\ NetInv' /\ TeamInv'
<1>1. cfg \in Configs /\ NetOK
  BY TypeParts, Zenon
<1>2. NetOK' /\ NetInv'
  BY <1>1, NetSame, Zenon
<1> QED  BY <1>1, <1>2, TypePartsNext, Zenon

LEMMA InvOnStutter ==
    ASSUME TypeOK, NetInv, TeamInv, UNCHANGED vars
    PROVE  TypeOK' /\ NetInv' /\ TeamInv'
<1>1. cfg' = cfg /\ UNCHANGED <<client, fabric>> /\ UNCHANGED threads
  BY Zenon DEF vars
<1>2. stop_flag' = stop_flag /\ main' = main /\ at_stop' = at_stop
  BY Zenon DEF vars
<1>3. TeamOK
  BY TypeParts, Zenon
<1>4. main' \in Places10 /\ stop_flag' \in BOOLEAN /\ at_stop' \in [Markers -> Nat]
  BY <1>2, <1>3, Zenon DEF TeamOK, Places10
<1>5. Started'
  <2>1. validators' = validators
    BY <1>1, Zenon DEF threads
  <2>2. Created' = Created /\ Validators' = Validators
    BY <2>1, CreatedSame, Zenon
  <2>3. Started
    BY Zenon DEF TeamInv
  <2> QED  BY <1>2, <2>1, <2>2, <2>3, Zenon DEF Started
<1>6. \A m \in Markers : at_stop'[m] <= Marker(m)
  BY <1>2, Zenon DEF TeamInv
<1>7. stop_flag => stop_flag' /\ at_stop' = at_stop
  BY <1>2, Zenon
<1>8. TeamOK' /\ TeamInv'
  BY <1>1, <1>4, <1>5, <1>6, <1>7, TeamOnMain
<1> QED  BY <1>1, <1>8, InvOnTeam, Zenon

LEMMA InvInit ==
    ASSUME Init
    PROVE  ValidationInv
<1>1. cfg \in Configs
  BY Zenon DEF Init
<1> QED  BY <1>1, InitNet, InitTeam, TypeParts, InvParts, Zenon

LEMMA InvStep ==
    ASSUME ValidationInv, [Next]_vars
    PROVE  ValidationInv'
<1>1. TypeOK /\ NetInv /\ TeamInv
  BY InvParts, Zenon
<1>2. SUFFICES TypeOK' /\ NetInv' /\ TeamInv'
  BY Zenon DEF ValidationInv, NetInv, TeamInv
<1>3. ASSUME NEW q \in Qps, Post(q) \/ Poll(q) \/ Fabric(q) PROVE TypeOK' /\ NetInv' /\ TeamInv'
  BY <1>1, <1>3, InvOnNet, Zenon
<1>4. ASSUME NEW v \in Validators, Validate(v) PROVE TypeOK' /\ NetInv' /\ TeamInv'
  BY <1>1, <1>4, ValidateStep, InvOnTeam, Zenon
<1>5. ASSUME Main PROVE TypeOK' /\ NetInv' /\ TeamInv'
  <2>1. CASE host_validation_start
    BY <1>1, <2>1, StartStep, InvOnTeam, Zenon
  <2>2. CASE host_validation_start_fails \/ AllRunning \/ Abandon \/ Stop \/ Joined
    BY <1>1, <2>2, FailsStep, InvOnTeam, Zenon
  <2> QED  BY <1>5, <2>1, <2>2, Zenon DEF Main
<1>6. ASSUME UNCHANGED vars PROVE TypeOK' /\ NetInv' /\ TeamInv'
  BY <1>1, <1>6, InvOnStutter, Zenon
<1> QED  BY <1>3, <1>4, <1>5, <1>6, Zenon DEF Next, Ended

(* ValidationInv is inductive: whatever the sender posts, the fabric delays, the
   threads of host_validation.c read and the main thread does, the threads know
   of every marker what they have handled, and what memory holds is what the
   arrived rounds left. *)
THEOREM InvHolds ==
    Spec => []ValidationInv
<1>1. Init => ValidationInv
  BY InvInit
<1>2. ValidationInv /\ [Next]_vars => ValidationInv'
  BY InvStep
<1> QED  BY <1>1, <1>2, PTL DEF Spec

(* data_validation reports no error for data that arrived as it was sent, for
   every number of queue pairs, chunks, slots, rounds and threads: the only
   exceptions are a slot three more rounds have passed before it is looked at
   again, and a chunk shorter than the tail. *)
THEOREM NoFalseAlarms ==
    Spec => []NoFalseAlarm
<1>1. ValidationInv => NoFalseAlarm
  BY Zenon DEF ValidationInv
<1> QED  BY <1>1, InvHolds, PTL

LEMMA AtEnd ==
    ASSUME NEW n \in Nat, NEW a \in Nat, a > n, NEW i \in 1..n
    PROVE  i < a
  OBVIOUS

LEMMA AtType ==
    ASSUME NEW x \in ThreadState
    PROVE  x.own_markers \in Seq(Markers) /\ Len(x.own_markers) \in Nat /\ x.at \in Nat
<1>1. x.own_markers \in Seq(Markers) /\ x.at \in Nat
  BY DEF ThreadState
<1> QED  BY <1>1

LEMMA EndedSeen ==
    ASSUME NEW x \in ThreadState, NEW ls, DrainingAt(x, ls), x.pc = "ended",
           NEW i \in 1..Len(x.own_markers)
    PROVE  ls[x.own_markers[i]] >= at_stop[x.own_markers[i]]
<1>1. x.draining /\ x.at > Len(x.own_markers)
  BY Zenon DEF DrainingAt
<1>2. Len(x.own_markers) \in Nat /\ x.at \in Nat
  BY AtType, Zenon
<1>3. i < x.at
  BY <1>1, <1>2, AtEnd, Zenon
<1> QED  BY <1>1, <1>3, Zenon DEF DrainingAt

LEMMA AllSeen ==
    ASSUME TypeOK, TeamInv, main \in {"passed", "not passed"}
    PROVE  /\ \A m \in Markers : last_seen[m] >= at_stop[m]
           /\ AddsUpTo(last_seen, stats.validated + stats.skipped)
<1>1. \A v \in Validators : validators[v].pc = "ended"
  BY Zenon DEF TeamInv, Started
<1>2. ASSUME NEW m \in Markers PROVE last_seen[m] >= at_stop[m]
  <2>1. PICK v \in Validators : \E i \in 1..Len(validators[v].own_markers) : validators[v].own_markers[i] = m
    BY <1>2, Zenon DEF TeamInv, OneOwner
  <2>2. PICK x \in ThreadState : x = validators[v]
    BY <2>1, TeamIs, Zenon
  <2>3. PICK i \in 1..Len(x.own_markers) : x.own_markers[i] = m
    BY <2>1, <2>2, Zenon
  <2>4. DrainingAt(x, last_seen) /\ x.pc = "ended"
    BY <1>1, <2>1, <2>2, LookingIs, Zenon DEF TeamInv
  <2>5. last_seen[x.own_markers[i]] >= at_stop[x.own_markers[i]]
    BY <2>4, EndedSeen, Zenon
  <2> QED  BY <2>3, <2>5, Zenon
<1>3. AddsUpTo(last_seen, stats.validated + stats.skipped)
  <2>1. ASSUME NEW m \in Markers PROVE last_seen[m] = Seen[m]
    <3>1. \A v \in Validators : ~ Scanning(v)
      BY <1>1, Zenon DEF Scanning
    <3>2. ~ Handled(m)
      BY <3>1, Zenon DEF Handled
    <3> QED  BY <2>1, <3>2, Zenon DEF Seen
  <2>2. AddsUpTo(Seen, stats.validated + stats.skipped)
    BY Zenon DEF TeamInv
  <2> QED  BY <2>1, <2>2, AddsSame, Zenon
<1> QED  BY <1>2, <1>3, Zenon

(* When host_validation_stop has joined the threads, every round that had arrived
   before the stop has been validated or counted as skipped, and the two counts
   of the report add up to what was seen: the thread that reads stop_flag goes
   through its markers once more. *)
THEOREM AllAccountedFor ==
    Spec => []NothingMissed
<1>1. ValidationInv => NothingMissed
  <2>1. SUFFICES ASSUME ValidationInv PROVE NothingMissed
    BY Zenon
  <2>2. TypeOK /\ TeamInv
    BY <2>1, InvParts, Zenon
  <2> QED  BY <2>2, AllSeen, Zenon DEF NothingMissed
<1> QED  BY <1>1, InvHolds, PTL
=============================================================================
