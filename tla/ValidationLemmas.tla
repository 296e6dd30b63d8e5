-------------------------- MODULE ValidationLemmas --------------------------
(***************************************************************************)
(* What the proofs about --data_validation rest on: the ring and its       *)
(* rounds, the initial state, the steps of the sender and of the fabric,   *)
(* what a step of a thread leaves alone, and what it reads in a chunk.     *)
(***************************************************************************)
EXTENDS Validation, ModFacts, TLAPS

-----------------------------------------------------------------------------
(* Rounds of a ring of S slots.                                            *)

(* A quotient is known by its bounds. *)
LEMMA DivIs ==
    ASSUME NEW M \in Nat \ {0}, NEW d \in Int, NEW r \in 0..(M - 1)
    PROVE  (d * M + r) \div M = d /\ (d * M + r) % M = r
<1> DEFINE x == d * M + r
<1>1. x \in Int
  OBVIOUS
<1>2. x \div M \in Int /\ x % M \in 0..(M - 1) /\ x = (x \div M) * M + (x % M)
  BY <1>1, DivMod
<1>3. PICK e \in Int, t \in 0..(M - 1) : e = x \div M /\ t = x % M
  BY <1>2
<1>4. d * M + r = e * M + t
  BY <1>2, <1>3
<1>5. (e - d) * M = r - t
  BY <1>4
<1>6. e - d = 0
  <2>1. (e - d) * M < M /\ -M < (e - d) * M /\ e - d \in Int
    BY <1>5
  <2> QED  BY <2>1, SmallMultiple
<1> QED  BY <1>3, <1>4, <1>6

(* Slot s has been written once more than the full rounds if the current
   round has passed it. *)
LEMMA RoundsIs ==
    ASSUME NEW S \in Nat \ {0}, NEW L \in Nat, NEW s \in 0..(S - 1)
    PROVE  (L + S - 1 - s) \div S = (L \div S) + (IF s < L % S THEN 1 ELSE 0)
<1>1. PICK d \in Int, r \in 0..(S - 1) : d = L \div S /\ r = L % S /\ L = d * S + r
  BY DivMod
<1>2. CASE s < r
  <2>1. L + S - 1 - s = (d + 1) * S + (r - 1 - s) /\ r - 1 - s \in 0..(S - 1) /\ d + 1 \in Int
    BY <1>1, <1>2
  <2>2. ((d + 1) * S + (r - 1 - s)) \div S = d + 1
    BY <2>1, DivIs
  <2> QED  BY <1>1, <1>2, <2>1, <2>2
<1>3. CASE ~(s < r)
  <2>1. L + S - 1 - s = d * S + (S - 1 + r - s) /\ S - 1 + r - s \in 0..(S - 1)
    BY <1>1, <1>3
  <2>2. (d * S + (S - 1 + r - s)) \div S = d
    BY <1>1, <2>1, DivIs, Zenon
  <2> QED  BY <1>1, <1>3, <2>1, <2>2
<1> QED  BY <1>2, <1>3

(* A message counts for the slot of its number only. *)
LEMMA RoundsNext ==
    ASSUME NEW S \in Nat \ {0}, NEW L \in Nat, NEW s \in 0..(S - 1)
    PROVE  (L + 1 + S - 1 - s) \div S = (L + S - 1 - s) \div S + (IF s = L % S THEN 1 ELSE 0)
<1>1. PICK d \in Int, r \in 0..(S - 1) : d = L \div S /\ r = L % S /\ L = d * S + r
  BY DivMod
<1>2. (L + S - 1 - s) \div S = d + (IF s < r THEN 1 ELSE 0)
  BY <1>1, RoundsIs, Zenon
<1>3. L + 1 \in Nat
  OBVIOUS
<1>4. (L + 1 + S - 1 - s) \div S = ((L + 1) \div S) + (IF s < (L + 1) % S THEN 1 ELSE 0)
  BY <1>3, RoundsIs, Zenon
<1>5. CASE r = S - 1
  <2>1. L + 1 = (d + 1) * S + 0 /\ d + 1 \in Int /\ 0 \in 0..(S - 1)
    BY <1>1, <1>5
  <2>2. ((d + 1) * S + 0) \div S = d + 1 /\ ((d + 1) * S + 0) % S = 0
    BY <2>1, DivIs, Zenon
  <2>3. (L + 1) \div S = d + 1 /\ (L + 1) % S = 0
    BY <2>1, <2>2
  <2> QED  BY <1>1, <1>2, <1>4, <1>5, <2>3
<1>6. CASE r # S - 1
  <2>1. L + 1 = d * S + (r + 1) /\ r + 1 \in 0..(S - 1)
    BY <1>1, <1>6
  <2>2. (d * S + (r + 1)) \div S = d /\ (d * S + (r + 1)) % S = r + 1
    BY <1>1, <2>1, DivIs, Zenon
  <2>3. (L + 1) \div S = d /\ (L + 1) % S = r + 1
    BY <2>1, <2>2
  <2> QED  BY <1>1, <1>2, <1>4, <1>6, <2>3
<1> QED  BY <1>5, <1>6

(* Slots are written in order. *)
LEMMA RoundsFall ==
    ASSUME NEW S \in Nat \ {0}, NEW L \in Nat, NEW s \in 0..(S - 1), NEW t \in 0..(S - 1), s <= t
    PROVE  (L + S - 1 - t) \div S <= (L + S - 1 - s) \div S
<1>1. PICK d \in Int, r \in 0..(S - 1) : d = L \div S /\ r = L % S /\ L = d * S + r
  BY DivMod
<1>2. (L + S - 1 - s) \div S = d + (IF s < r THEN 1 ELSE 0)
  BY <1>1, RoundsIs, Zenon
<1>3. (L + S - 1 - t) \div S = d + (IF t < r THEN 1 ELSE 0)
  BY <1>1, RoundsIs, Zenon
<1> QED  BY <1>1, <1>2, <1>3

(* Patterns repeat every three rounds. *)
LEMMA PatternsRepeat ==
    ASSUME NEW a \in Nat, NEW b \in Nat, a < b, a % 3 = b % 3
    PROVE  b >= a + 3
  OBVIOUS

-----------------------------------------------------------------------------
(* The ring: queue pairs, chunks, slots and markers.                       *)

Pos == Nat \ {0}

LEMMA Sizes ==
    ASSUME cfg \in Configs
    PROVE  /\ cfg.num_qps \in Pos /\ cfg.chunks \in Pos /\ cfg.ops \in Pos /\ cfg.faults \in Nat
           /\ cfg.mode \in {"READ", "WRITE"} /\ cfg.cores \in Nat /\ cfg.small \in BOOLEAN
           /\ cfg.iters \in Pos /\ cfg.cq_mod \in Pos
           /\ Slots \in Pos /\ TotalMarkers \in Pos
<1>1. cfg \in [num_qps : Pos, chunks : Pos, ops : Pos, iters : Pos, tx_depth : Pos, cq_mod : Pos,
               mode : {"READ", "WRITE"}, small : BOOLEAN, cores : Nat, faults : Nat]
  BY ValidationAssumption DEF Pos
<1>2. /\ cfg.num_qps \in Pos /\ cfg.chunks \in Pos /\ cfg.ops \in Pos /\ cfg.faults \in Nat
      /\ cfg.mode \in {"READ", "WRITE"} /\ cfg.cores \in Nat /\ cfg.small \in BOOLEAN
      /\ cfg.iters \in Pos /\ cfg.cq_mod \in Pos
  BY <1>1
<1>3. ASSUME NEW a \in Pos, NEW b \in Pos PROVE a * b \in Pos
  <2>1. (a - 1) * b >= 0
    BY DEF Pos
  <2>2. a * b = (a - 1) * b + b
    BY DEF Pos
  <2> QED  BY <2>1, <2>2 DEF Pos
<1> QED  BY <1>2, <1>3 DEF Slots, TotalMarkers

(* A product of smaller numbers, in the base of the second. *)
LEMMA InBase ==
    ASSUME NEW A \in Pos, NEW B \in Pos, NEW a \in 0..(A - 1), NEW b \in 0..(B - 1)
    PROVE  a * B + b \in 0..(A * B - 1)
<1>1. (A - 1 - a) * B >= 0 /\ a * B >= 0
  BY DEF Pos
<1>2. (A - 1 - a) * B = A * B - B - a * B
  BY DEF Pos
<1>3. a * B \in Int /\ A * B \in Int
  BY DEF Pos
<1> QED  BY <1>1, <1>2, <1>3 DEF Pos

LEMMA OutOfBase ==
    ASSUME NEW A \in Pos, NEW B \in Pos, NEW x \in 0..(A * B - 1)
    PROVE  x \div B \in 0..(A - 1) /\ x % B \in 0..(B - 1) /\ x = (x \div B) * B + (x % B)
<1>1. A * B \in Int
  BY DEF Pos
<1>2. x \in Int
  BY <1>1
<1>3. PICK d \in Int, r \in 0..(B - 1) : d = x \div B /\ r = x % B /\ x = d * B + r
  BY <1>2, DivMod DEF Pos
<1>4. d >= 0
  <2> SUFFICES ASSUME d <= -1 PROVE FALSE
    OBVIOUS
  <2>1. (-1 - d) * B >= 0
    BY DEF Pos
  <2>2. (-1 - d) * B = -B - d * B
    BY DEF Pos
  <2> QED  BY <1>1, <1>3, <2>1, <2>2 DEF Pos
<1>5. d <= A - 1
  <2> SUFFICES ASSUME d >= A PROVE FALSE
    BY DEF Pos
  <2>1. (d - A) * B >= 0
    BY DEF Pos
  <2>2. (d - A) * B = d * B - A * B
    BY DEF Pos
  <2> QED  BY <1>1, <1>3, <2>1, <2>2 DEF Pos
<1> QED  BY <1>3, <1>4, <1>5 DEF Pos

LEMMA MarkerPlace ==
    ASSUME cfg \in Configs, NEW q \in Qps, NEW c \in 0..(cfg.chunks - 1)
    PROVE  /\ MarkerOf(q, c) \in Markers
           /\ QpOf(MarkerOf(q, c)) = q
           /\ MarkerOf(q, c) % cfg.chunks = c
<1>1. cfg.num_qps \in Pos /\ cfg.chunks \in Pos
  BY Sizes, Zenon
<1>2. q \in 0..(cfg.num_qps - 1)
  BY DEF Qps
<1>3. q * cfg.chunks + c \in 0..(cfg.num_qps * cfg.chunks - 1)
  BY <1>1, <1>2, InBase, Zenon
<1>4. q \in Int /\ cfg.chunks \in Nat \ {0}
  BY <1>1, <1>2 DEF Pos
<1>5. (q * cfg.chunks + c) \div cfg.chunks = q /\ (q * cfg.chunks + c) % cfg.chunks = c
  BY <1>4, DivIs, Zenon
<1> QED  BY <1>3, <1>5, Zenon DEF MarkerOf, Markers, TotalMarkers, QpOf

LEMMA MarkerParts ==
    ASSUME cfg \in Configs, NEW m \in Markers
    PROVE  /\ QpOf(m) \in Qps
           /\ m % cfg.chunks \in 0..(cfg.chunks - 1)
           /\ m = MarkerOf(QpOf(m), m % cfg.chunks)
           /\ m \in Nat
<1>1. cfg.num_qps \in Pos /\ cfg.chunks \in Pos /\ TotalMarkers \in Pos
  BY Sizes, Zenon
<1>2. m \in 0..(cfg.num_qps * cfg.chunks - 1)
  BY Zenon DEF Markers, TotalMarkers
<1>3. /\ m \div cfg.chunks \in 0..(cfg.num_qps - 1) /\ m % cfg.chunks \in 0..(cfg.chunks - 1)
      /\ m = (m \div cfg.chunks) * cfg.chunks + (m % cfg.chunks)
  BY <1>1, <1>2, OutOfBase, Zenon
<1>4. m \in Nat
  BY <1>1 DEF Markers, Pos
<1> QED  BY <1>3, <1>4, Zenon DEF QpOf, Qps, MarkerOf

LEMMA ChunkSlots ==
    ASSUME cfg \in Configs, NEW m \in Markers, NEW k \in 0..(cfg.ops - 1)
    PROVE  FirstSlot(m) + k \in 0..(Slots - 1) /\ FirstSlot(m) + k <= LastSlot(m)
<1>1. cfg.ops \in Pos /\ cfg.chunks \in Pos
  BY Sizes, Zenon
<1>2. m % cfg.chunks \in 0..(cfg.chunks - 1)
  BY MarkerParts, Zenon
<1>3. (m % cfg.chunks) * cfg.ops + k \in 0..(cfg.chunks * cfg.ops - 1)
  BY <1>1, <1>2, InBase, Zenon
<1>4. cfg.chunks * cfg.ops = cfg.ops * cfg.chunks
  BY <1>1 DEF Pos
<1>5. (m % cfg.chunks) * cfg.ops \in Int
  BY <1>1, <1>2 DEF Pos
<1>6. PICK a \in Int : a = (m % cfg.chunks) * cfg.ops
  BY <1>5, Zenon
<1>7. a + k <= a + cfg.ops - 1
  BY <1>1 DEF Pos
<1> QED  BY <1>3, <1>4, <1>6, <1>7, Zenon DEF FirstSlot, LastSlot, Slots

(* The last slot of a chunk is the one after which the marker is added to. *)
LEMMA LastSlotCloses ==
    ASSUME cfg \in Configs, NEW m \in Markers
    PROVE  /\ LastSlot(m) \in 0..(Slots - 1) /\ ChainAtomic(LastSlot(m))
           /\ LastSlot(m) \div cfg.ops = m % cfg.chunks
<1>1. cfg.ops \in Pos /\ cfg.chunks \in Pos
  BY Sizes, Zenon
<1>2. m % cfg.chunks \in 0..(cfg.chunks - 1)
  BY MarkerParts, Zenon
<1>3. PICK c \in Int : c = m % cfg.chunks
  BY <1>2
<1>4. PICK o \in Pos : o = cfg.ops
  BY <1>1, Zenon
<1>5. LastSlot(m) = c * o + o - 1
  BY <1>3, <1>4, Zenon DEF LastSlot, FirstSlot
<1>6. o - 1 \in 0..(o - 1) /\ 0 \in 0..(o - 1) /\ o \in Nat \ {0} /\ c + 1 \in Int
  BY DEF Pos
<1>7. c * o + o - 1 = c * o + (o - 1) /\ (c * o + o - 1) + 1 = (c + 1) * o + 0
  BY DEF Pos
<1>8. (c * o + (o - 1)) \div o = c /\ ((c + 1) * o + 0) % o = 0
  BY <1>6, DivIs, Zenon
<1>9. LastSlot(m) \div cfg.ops = m % cfg.chunks
  BY <1>3, <1>4, <1>5, <1>7, <1>8, Zenon
<1>10. ChainAtomic(LastSlot(m))
  BY <1>4, <1>5, <1>7, <1>8, Zenon DEF ChainAtomic
<1>11. FirstSlot(m) + (cfg.ops - 1) \in 0..(Slots - 1)
  <2>1. cfg.ops - 1 \in 0..(cfg.ops - 1)
    BY <1>4, <1>6, Zenon
  <2> QED  BY <2>1, ChunkSlots, Zenon
<1>12. FirstSlot(m) + (cfg.ops - 1) = c * o + (o - 1)
  BY <1>3, <1>4, Zenon DEF FirstSlot
<1> QED  BY <1>5, <1>7, <1>9, <1>10, <1>11, <1>12, Zenon

LEMMA ClosingSlot ==
    ASSUME cfg \in Configs, NEW s \in 0..(Slots - 1), ChainAtomic(s)
    PROVE  s \div cfg.ops \in 0..(cfg.chunks - 1) /\ s = (s \div cfg.ops) * cfg.ops + cfg.ops - 1
<1>1. cfg.ops \in Pos /\ cfg.chunks \in Pos
  BY Sizes, Zenon
<1>2. cfg.chunks * cfg.ops = cfg.ops * cfg.chunks
  BY <1>1 DEF Pos
<1>3. s \in 0..(cfg.chunks * cfg.ops - 1)
  BY <1>2, Zenon DEF Slots
<1>4. /\ s \div cfg.ops \in 0..(cfg.chunks - 1) /\ s % cfg.ops \in 0..(cfg.ops - 1)
      /\ s = (s \div cfg.ops) * cfg.ops + (s % cfg.ops)
  BY <1>1, <1>3, OutOfBase, Zenon
<1>5. PICK o \in Pos, d \in Int, r \in Int :
        o = cfg.ops /\ d = s \div cfg.ops /\ r = s % cfg.ops /\ r \in 0..(o - 1)
  BY <1>1, <1>4
<1>6. s = d * o + r /\ (s + 1) % o = 0
  BY <1>4, <1>5, Zenon DEF ChainAtomic
<1>7. r = o - 1
  <2> SUFFICES ASSUME r # o - 1 PROVE FALSE
    OBVIOUS
  <2>0. r \in 0..(o - 1) /\ s = d * o + r
    BY <1>5, <1>6, Zenon
  <2>1. r + 1 \in 0..(o - 1) /\ s + 1 = d * o + (r + 1) /\ o \in Nat \ {0} /\ r + 1 # 0
    BY <2>0 DEF Pos
  <2>2. (d * o + (r + 1)) % o = r + 1
    BY <2>1, DivIs, Zenon
  <2> QED  BY <1>6, <2>1, <2>2, Zenon
<1>8. s = d * o + o - 1
  BY <1>6, <1>7 DEF Pos
<1> QED  BY <1>4, <1>5, <1>8, Zenon

(* A closing slot belongs to one marker of the queue pair. *)
LEMMA ClosedMarker ==
    ASSUME cfg \in Configs, NEW q \in Qps, NEW s \in 0..(Slots - 1), ChainAtomic(s), NEW m \in Markers
    PROVE  (QpOf(m) = q /\ LastSlot(m) = s) <=> m = MarkerOf(q, s \div cfg.ops)
<1>1. s \div cfg.ops \in 0..(cfg.chunks - 1) /\ s = (s \div cfg.ops) * cfg.ops + cfg.ops - 1
  BY ClosingSlot, Zenon
<1>2. ASSUME QpOf(m) = q, LastSlot(m) = s PROVE m = MarkerOf(q, s \div cfg.ops)
  <2>1. LastSlot(m) \div cfg.ops = m % cfg.chunks
    BY LastSlotCloses, Zenon
  <2>2. m = MarkerOf(QpOf(m), m % cfg.chunks)
    BY MarkerParts, Zenon
  <2> QED  BY <1>2, <2>1, <2>2, Zenon
<1>3. ASSUME m = MarkerOf(q, s \div cfg.ops) PROVE QpOf(m) = q /\ LastSlot(m) = s
  <2>1. QpOf(m) = q /\ m % cfg.chunks = s \div cfg.ops
    BY <1>1, <1>3, MarkerPlace, Zenon
  <2> QED  BY <1>1, <2>1, Zenon DEF LastSlot, FirstSlot
<1> QED  BY <1>2, <1>3, Zenon

-----------------------------------------------------------------------------
(* How often a slot has been written.                                      *)

RoundsAt(L, s) == (L + Slots - 1 - s) \div Slots

LEMMA RoundsAre ==
    ASSUME cfg' = cfg, NEW q, NEW s
    PROVE  Rounds(q, s) = RoundsAt(landed[q], s) /\ Rounds(q, s)' = RoundsAt(landed'[q], s)
  BY Zenon DEF Rounds, RoundsAt, Slots

LEMMA RoundsOf ==
    ASSUME cfg \in Configs, NEW L \in Nat, NEW s \in 0..(Slots - 1)
    PROVE  /\ RoundsAt(L, s) \in Nat
           /\ RoundsAt(L, s) = (L \div Slots) + (IF s < L % Slots THEN 1 ELSE 0)
<1>1. PICK S \in Nat \ {0} : S = Slots
  BY Sizes DEF Pos
<1>2. (L + S - 1 - s) \div S = (L \div S) + (IF s < L % S THEN 1 ELSE 0)
  BY <1>1, RoundsIs, Zenon
<1>3. L \div S \in Nat
  OBVIOUS
<1>4. (L \div S) + (IF s < L % S THEN 1 ELSE 0) \in Nat
  BY <1>3
<1> QED  BY <1>1, <1>2, <1>4, Zenon DEF RoundsAt

LEMMA RoundsGrow ==
    ASSUME cfg \in Configs, NEW L \in Nat, NEW s \in 0..(Slots - 1)
    PROVE  RoundsAt(L + 1, s) = RoundsAt(L, s) + (IF s = L % Slots THEN 1 ELSE 0)
<1>1. PICK S \in Nat \ {0} : S = Slots
  BY Sizes DEF Pos
<1>2. s \in 0..(S - 1)
  BY <1>1, Zenon
<1>3. (L + 1 + S - 1 - s) \div S = (L + S - 1 - s) \div S + (IF s = L % S THEN 1 ELSE 0)
  BY <1>2, RoundsNext, Zenon
<1> QED  BY <1>1, <1>3, Zenon DEF RoundsAt

LEMMA RoundsOrder ==
    ASSUME cfg \in Configs, NEW L \in Nat, NEW s \in 0..(Slots - 1), NEW t \in 0..(Slots - 1), s <= t
    PROVE  RoundsAt(L, t) <= RoundsAt(L, s)
<1>1. PICK S \in Nat \ {0} : S = Slots
  BY Sizes DEF Pos
<1>2. (L + S - 1 - t) \div S <= (L + S - 1 - s) \div S
  BY <1>1, RoundsFall, Zenon
<1> QED  BY <1>1, <1>2, Zenon DEF RoundsAt

-----------------------------------------------------------------------------
(* The operations on the wire.                                             *)

Chain(q, ops, L, N) ==
  /\ \A i \in 1..Len(ops) : Formed(q, ops[i])
  /\ \A i \in 1..(Len(ops) - 1) : Follows(ops[i], ops[i + 1])
  /\ IF ops = <<>> THEN L = N
     ELSE /\ ops[1].nr = IF ops[1].op = "add" THEN L - 1 ELSE L
          /\ ops[Len(ops)].nr = N - 1
          /\ ops[Len(ops)].op = "data" => ~ Closes(ops[Len(ops)].nr)

LEMMA SequenceNow ==
    ASSUME NEW q
    PROVE  InSequence(q) <=>
             /\ ctx[q].recv_off = ctx[q].scnt % Slots
             /\ ctx[q].send_off = (ctx[q].scnt \div Slots) % 3
             /\ Chain(q, wire[q], landed[q], ctx[q].scnt)
  BY Zenon DEF InSequence, Chain

LEMMA SequenceNext ==
    ASSUME cfg' = cfg, NEW q
    PROVE  InSequence(q)' <=>
             /\ ctx'[q].recv_off = ctx'[q].scnt % Slots
             /\ ctx'[q].send_off = (ctx'[q].scnt \div Slots) % 3
             /\ Chain(q, wire'[q], landed'[q], ctx'[q].scnt)
<1>1. Slots' = Slots
  BY Zenon DEF Slots
<1>2. ASSUME NEW n PROVE Closes(n)' <=> Closes(n)
  BY <1>1, Zenon DEF Closes, ChainAtomic
<1>3. ASSUME NEW w PROVE Formed(q, w)' <=> Formed(q, w)
  BY <1>1, <1>2, Zenon DEF Formed, MarkerOf
<1>4. ASSUME NEW w, NEW x PROVE Follows(w, x)' <=> Follows(w, x)
  BY <1>2, Zenon DEF Follows
<1> QED  BY <1>1, <1>2, <1>3, <1>4, Zenon DEF InSequence, Chain

LEMMA ChainHead ==
    ASSUME NEW q, NEW ops \in Seq(Op), NEW L \in Nat, NEW N \in Nat, Chain(q, ops, L, N), ops # <<>>,
           Head(ops).op = "data"
    PROVE  /\ Formed(q, Head(ops)) /\ Head(ops).nr = L
           /\ Chain(q, Tail(ops), L + 1, N)
           /\ Closes(L) => Tail(ops) # <<>> /\ Head(Tail(ops)).op = "add" /\ Head(Tail(ops)).nr = L
                           /\ Formed(q, Head(Tail(ops)))
           /\ ~ Closes(L) /\ Tail(ops) # <<>> => Head(Tail(ops)).op = "data"
<1> DEFINE t == Tail(ops)
<1>1. Head(ops) = ops[1] /\ Len(ops) \in Nat /\ Len(ops) >= 1 /\ t \in Seq(Op)
  OBVIOUS
<1>2. Len(t) = Len(ops) - 1 /\ \A i \in 1..Len(t) : t[i] = ops[i + 1]
  OBVIOUS
<1> HIDE DEF t
<1>3. Formed(q, ops[1]) /\ ops[1].nr = L /\ ops[1].op = "data"
  BY <1>1 DEF Chain
<1>4. ASSUME t # <<>>
      PROVE  /\ Head(t) = ops[2] /\ Len(t) >= 1 /\ Follows(ops[1], ops[2]) /\ Formed(q, ops[2])
             /\ t[1] = ops[2] /\ t[Len(t)] = ops[Len(ops)]
  <2>1. Len(t) >= 1 /\ Head(t) = t[1]
    BY <1>1, <1>4
  <2>2. 1 \in 1..(Len(ops) - 1) /\ 2 \in 1..Len(ops)
    BY <1>1, <1>2, <2>1
  <2>3. Follows(ops[1], ops[1 + 1]) /\ Formed(q, ops[2])
    BY <2>2, Zenon DEF Chain
  <2>4. 1 + 1 = 2 /\ t[1] = ops[2] /\ t[Len(t)] = ops[Len(ops)]
    BY <1>1, <1>2, <2>1
  <2> QED  BY <2>1, <2>3, <2>4, Zenon
<1>5. ASSUME t = <<>> PROVE Len(ops) = 1
  <2>1. Len(t) = 0
    BY <1>5
  <2> QED  BY <1>1, <1>2, <2>1
<1>6. \A i \in 1..Len(t) : Formed(q, t[i])
  BY <1>1, <1>2 DEF Chain
<1>7. \A i \in 1..(Len(t) - 1) : Follows(t[i], t[i + 1])
  <2> TAKE i \in 1..(Len(t) - 1)
  <2>1. i + 1 \in 1..(Len(ops) - 1) /\ t[i] = ops[i + 1] /\ t[i + 1] = ops[(i + 1) + 1]
    BY <1>1, <1>2
  <2> QED  BY <2>1, Zenon DEF Chain
<1>8. /\ ops[Len(ops)].nr = N - 1
      /\ ops[Len(ops)].op = "data" => ~ Closes(ops[Len(ops)].nr)
  BY Zenon DEF Chain
<1>9. CASE t = <<>>
  <2>0. ops[1].nr = N - 1 /\ ~ Closes(ops[1].nr)
    BY <1>3, <1>5, <1>8, <1>9, Zenon
  <2>1. ~ Closes(L) /\ L + 1 = N
    BY <1>3, <2>0
  <2> QED  BY <1>1, <1>3, <1>6, <1>7, <1>9, <2>1, Zenon DEF t, Chain
<1>10. CASE t # <<>>
  <2>1. IF Closes(L) THEN ops[2].op = "add" /\ ops[2].nr = L ELSE ops[2].op = "data" /\ ops[2].nr = L + 1
    BY <1>3, <1>4, <1>10, Zenon DEF Follows
  <2>2. L = L + 1 - 1
    OBVIOUS
  <2>3. t[1].nr = IF t[1].op = "add" THEN L + 1 - 1 ELSE L + 1
    BY <1>4, <1>10, <2>1, <2>2
  <2> DEFINE M == L + 1
  <2> HIDE DEF M
  <2>4. t[Len(t)].nr = N - 1 /\ (t[Len(t)].op = "data" => ~ Closes(t[Len(t)].nr))
    BY <1>4, <1>8, <1>10, Zenon
  <2>5. t[1].nr = IF t[1].op = "add" THEN M - 1 ELSE M
    BY <2>3 DEF M
  <2>6. Chain(q, t, M, N)
    BY <1>6, <1>7, <1>10, <2>4, <2>5, Zenon DEF Chain
  <2> QED  BY <1>1, <1>3, <1>4, <1>10, <2>1, <2>6, Zenon DEF t, M
<1> QED  BY <1>9, <1>10, Zenon DEF t

LEMMA ChainHeadAdd ==
    ASSUME NEW q, NEW ops \in Seq(Op), NEW L \in Nat, NEW N \in Nat, Chain(q, ops, L, N), ops # <<>>,
           Head(ops).op = "add"
    PROVE  /\ Formed(q, Head(ops)) /\ Head(ops).nr = L - 1
           /\ Chain(q, Tail(ops), L, N)
           /\ Tail(ops) # <<>> => Head(Tail(ops)).op = "data"
<1> DEFINE t == Tail(ops)
<1>1. Head(ops) = ops[1] /\ Len(ops) \in Nat /\ Len(ops) >= 1 /\ t \in Seq(Op)
  OBVIOUS
<1>2. Len(t) = Len(ops) - 1 /\ \A i \in 1..Len(t) : t[i] = ops[i + 1]
  OBVIOUS
<1> HIDE DEF t
<1>3. Formed(q, ops[1]) /\ ops[1].nr = L - 1 /\ ops[1].op = "add"
  BY <1>1 DEF Chain
<1>4. ASSUME t # <<>>
      PROVE  /\ Head(t) = ops[2] /\ Len(t) >= 1 /\ Follows(ops[1], ops[2])
             /\ t[1] = ops[2] /\ t[Len(t)] = ops[Len(ops)]
  <2>1. Len(t) >= 1 /\ Head(t) = t[1]
    BY <1>1, <1>4
  <2>2. 1 \in 1..(Len(ops) - 1)
    BY <1>1, <1>2, <2>1
  <2>3. Follows(ops[1], ops[1 + 1])
    BY <2>2, Zenon DEF Chain
  <2>4. 1 + 1 = 2 /\ t[1] = ops[2] /\ t[Len(t)] = ops[Len(ops)]
    BY <1>1, <1>2, <2>1
  <2> QED  BY <2>1, <2>3, <2>4, Zenon
<1>6. \A i \in 1..Len(t) : Formed(q, t[i])
  BY <1>1, <1>2 DEF Chain
<1>7. \A i \in 1..(Len(t) - 1) : Follows(t[i], t[i + 1])
  <2> TAKE i \in 1..(Len(t) - 1)
  <2>1. i + 1 \in 1..(Len(ops) - 1) /\ t[i] = ops[i + 1] /\ t[i + 1] = ops[(i + 1) + 1]
    BY <1>1, <1>2
  <2> QED  BY <2>1, Zenon DEF Chain
<1>8. /\ ops[Len(ops)].nr = N - 1
      /\ ops[Len(ops)].op = "data" => ~ Closes(ops[Len(ops)].nr)
  BY Zenon DEF Chain
<1>9. CASE t = <<>>
  <2>0. Len(t) = 0
    BY <1>9
  <2>1. Len(ops) = 1
    BY <1>1, <1>2, <2>0
  <2>2. L = N
    BY <1>3, <1>8, <2>1
  <2> QED  BY <1>1, <1>3, <1>6, <1>7, <1>9, <2>2, Zenon DEF t, Chain
<1>10. CASE t # <<>>
  <2>1. "add" # "data"
    OBVIOUS
  <2>2. ops[2].op = "data" /\ ops[2].nr = (L - 1) + 1
    BY <1>3, <1>4, <1>10, <2>1, Zenon DEF Follows
  <2>3. t[1].nr = IF t[1].op = "add" THEN L - 1 ELSE L
    BY <1>4, <1>10, <2>2
  <2> QED  BY <1>1, <1>3, <1>4, <1>6, <1>7, <1>8, <1>10, <2>2, <2>3, Zenon DEF t, Chain
<1> QED  BY <1>9, <1>10, Zenon DEF t

LEMMA EmptySeq ==
    ASSUME NEW S, NEW s \in Seq(S), Len(s) = 0
    PROVE  s = <<>>
  OBVIOUS

LEMMA ChainPut ==
    ASSUME NEW q, NEW ops \in Seq(Op), NEW L \in Nat, NEW N \in Nat, Chain(q, ops, L, N),
           NEW d, d.op = "data", d.nr = N, Formed(q, d),
           NEW a, a.op = "add", a.nr = N, Closes(N) => Formed(q, a),
           NEW nx, Len(nx) = Len(ops) + (IF Closes(N) THEN 2 ELSE 1), nx # <<>>,
           \A i \in 1..Len(ops) : nx[i] = ops[i],
           nx[Len(ops) + 1] = d, Closes(N) => nx[Len(ops) + 2] = a
    PROVE  Chain(q, nx, L, N + 1)
<1>1. PICK n \in Nat : n = Len(ops)
  OBVIOUS
<1>2. /\ Len(nx) = n + (IF Closes(N) THEN 2 ELSE 1) /\ \A i \in 1..n : nx[i] = ops[i]
      /\ nx[n + 1] = d /\ (Closes(N) => nx[n + 2] = a)
  BY <1>1, Zenon
<1>3. \A i \in 1..Len(nx) : Formed(q, nx[i])
  <2> TAKE i \in 1..Len(nx)
  <2>1. i \in 1..n \/ i = n + 1 \/ (Closes(N) /\ i = n + 2)
    BY <1>2
  <2>2. ASSUME i \in 1..n PROVE Formed(q, nx[i])
    BY <1>1, <1>2, <2>2, Zenon DEF Chain
  <2> QED  BY <1>2, <2>1, <2>2, Zenon
<1>4. n > 0 => ops # <<>> /\ ops[n].nr = N - 1 /\ (ops[n].op = "data" => ~ Closes(ops[n].nr))
  <2>1. n > 0 => ops # <<>>
    BY <1>1
  <2> QED  BY <1>1, <2>1, Zenon DEF Chain
<1>5. n > 0 => Follows(ops[n], d)
  <2> HAVE n > 0
  <2>1. ops[n].nr + 1 = N
    BY <1>4
  <2> QED  BY <1>4, <2>1, Zenon DEF Follows
<1>6. Closes(N) => Follows(d, a)
  BY Zenon DEF Follows
<1>7. \A i \in 1..(Len(nx) - 1) : Follows(nx[i], nx[i + 1])
  <2> TAKE i \in 1..(Len(nx) - 1)
  <2>1. CASE i \in 1..(n - 1)
    <3>1. Follows(ops[i], ops[i + 1])
      BY <1>1, <2>1, Zenon DEF Chain
    <3>2. i \in 1..n /\ i + 1 \in 1..n
      BY <2>1
    <3> QED  BY <1>2, <3>1, <3>2, Zenon
  <2>2. CASE i = n /\ n > 0
    <3>1. n \in 1..n
      BY <2>2
    <3> QED  BY <1>2, <1>5, <2>2, <3>1, Zenon
  <2>3. CASE i = n + 1 /\ Closes(N)
    <3>1. i + 1 = n + 2
      BY <2>3
    <3> QED  BY <1>2, <1>6, <2>3, <3>1, Zenon
  <2>4. i \in 1..(n - 1) \/ (i = n /\ n > 0) \/ (i = n + 1 /\ Closes(N))
    BY <1>2
  <2> QED  BY <2>1, <2>2, <2>3, <2>4, Zenon
<1>8. nx[1].nr = IF nx[1].op = "add" THEN L - 1 ELSE L
  <2>1. CASE n = 0
    <3>1. ops = <<>>
      BY <1>1, <2>1, EmptySeq, Zenon
    <3>2. nx[1] = d
      BY <1>2, <2>1
    <3>3. L = N
      BY <3>1, Zenon DEF Chain
    <3> QED  BY <3>2, <3>3
  <2>2. CASE n > 0
    <3>1. nx[1] = ops[1]
      BY <1>2, <2>2
    <3> QED  BY <1>4, <2>2, <3>1, Zenon DEF Chain
  <2> QED  BY <2>1, <2>2
<1>9. nx[Len(nx)].nr = N + 1 - 1 /\ (nx[Len(nx)].op = "data" => ~ Closes(nx[Len(nx)].nr))
  <2>1. CASE Closes(N)
    <3>1. nx[Len(nx)] = a
      BY <1>2, <2>1
    <3> QED  BY <3>1
  <2>2. CASE ~ Closes(N)
    <3>1. nx[Len(nx)] = d
      BY <1>2, <2>2
    <3> QED  BY <2>2, <3>1
  <2> QED  BY <2>1, <2>2
<1> DEFINE M == N + 1
<1> HIDE DEF M
<1>10. nx[Len(nx)].nr = M - 1
  BY <1>9 DEF M
<1>11. Chain(q, nx, L, M)
  BY <1>3, <1>7, <1>8, <1>9, <1>10, Zenon DEF Chain
<1> QED  BY <1>11, Zenon DEF M

-----------------------------------------------------------------------------
(* Types.                                                                  *)

LEMMA SeqAt ==
    ASSUME NEW S, NEW w \in Seq(S), NEW i \in 1..Len(w)
    PROVE  w[i] \in S
  OBVIOUS

LEMMA TypesQp ==
    ASSUME TypeOK, NEW q \in Qps
    PROVE  /\ ctx[q].scnt \in Nat /\ ctx[q].ccnt \in Nat /\ ctx[q].recv_off \in Nat
           /\ ctx[q].send_off \in Nat /\ wire[q] \in Seq(Op) /\ landed[q] \in Nat /\ cqe[q] \in Int
           /\ flush[q].slot \in Int /\ flush[q].value \in 0..Garbage
           /\ mem[q] \in [0..(Slots - 1) -> 0..Garbage]
  BY Zenon DEF TypeOK

LEMMA TypesCfg ==
    ASSUME TypeOK
    PROVE  /\ cfg \in Configs /\ faults \in Nat /\ stop_flag \in BOOLEAN /\ lapped \in BOOLEAN
           /\ stats.validated \in Nat /\ stats.skipped \in Nat /\ stats.errors \in Nat
           /\ DOMAIN ctx = Qps /\ DOMAIN wire = Qps /\ DOMAIN landed = Qps /\ DOMAIN cqe = Qps
           /\ DOMAIN flush = Qps /\ DOMAIN mem = Qps
           /\ DOMAIN tail_markers = Markers /\ DOMAIN returns = Markers /\ DOMAIN last_seen = Markers
  BY Zenon DEF TypeOK

LEMMA TypesMarker ==
    ASSUME TypeOK, NEW m \in Markers
    PROVE  /\ tail_markers[m] \in Nat /\ returns[m] \in Nat /\ last_seen[m] \in Nat
           /\ at_stop[m] \in Nat /\ Marker(m) \in Nat
  BY Zenon DEF TypeOK, Marker

LEMMA TypesThread ==
    ASSUME TypeOK, NEW v \in Validators
    PROVE  /\ validators[v].pc \in {"none", "created", "look", "again", "scan", "retry", "snap", "ended"}
           /\ validators[v].own_markers \in Seq(Markers) /\ validators[v].at \in Pos
           /\ validators[v].k \in Nat /\ validators[v].val \in Nat /\ validators[v].spin \in Nat
           /\ validators[v].found \in BOOLEAN /\ validators[v].draining \in BOOLEAN
           /\ v \in 0..(get_num_validators(cfg) - 1)
  BY Zenon DEF TypeOK, Validators, Pos

NetOK ==
  /\ ctx \in [Qps -> [scnt : Nat, ccnt : Nat, recv_off : Nat, send_off : Nat]]
  /\ wire \in [Qps -> Seq(Op)]
  /\ cqe \in [Qps -> Int] /\ landed \in [Qps -> Nat]
  /\ mem \in [Qps -> [0..(Slots - 1) -> 0..Garbage]]
  /\ flush \in [Qps -> [slot : Int, value : 0..Garbage]]
  /\ tail_markers \in [Markers -> Nat] /\ returns \in [Markers -> Nat]
  /\ faults \in Nat
ThreadState ==
  [pc : {"none", "created", "look", "again", "scan", "retry", "snap", "ended"},
   own_markers : Seq(Markers), at : Nat \ {0}, k : Nat, val : Nat, spin : Nat,
   found : BOOLEAN, draining : BOOLEAN]
TeamOK ==
  /\ validators \in [0..(get_num_validators(cfg) - 1) -> ThreadState]
  /\ last_seen \in [Markers -> Nat] /\ at_stop \in [Markers -> Nat]
  /\ stats \in [validated : Nat, skipped : Nat, errors : Nat]
  /\ stop_flag \in BOOLEAN /\ lapped \in BOOLEAN
  /\ main \in {"starting", "waiting", "run", "failing", "destroying", "joining",
               "passed", "not passed", "failed", "destroyed"}

LEMMA TypeParts ==
    TypeOK <=> cfg \in Configs /\ NetOK /\ TeamOK
  BY Zenon DEF TypeOK, NetOK, TeamOK, ThreadState

LEMMA TypePartsNext ==
    ASSUME cfg' = cfg, cfg \in Configs, NetOK', TeamOK'
    PROVE  TypeOK'
  BY Zenon DEF TypeOK, NetOK, TeamOK, ThreadState

LEMMA Places ==
    ASSUME cfg' = cfg
    PROVE  /\ Qps' = Qps /\ Slots' = Slots /\ Markers' = Markers /\ TotalMarkers' = TotalMarkers
           /\ \A m : QpOf(m)' = QpOf(m) /\ FirstSlot(m)' = FirstSlot(m) /\ LastSlot(m)' = LastSlot(m)
           /\ \A s : ChainAtomic(s)' <=> ChainAtomic(s)
           /\ \A q, c : MarkerOf(q, c)' = MarkerOf(q, c)
           /\ get_num_validators(cfg)' = get_num_validators(cfg)
  BY Zenon DEF Qps, Slots, Markers, TotalMarkers, QpOf, FirstSlot, LastSlot, ChainAtomic, MarkerOf

LEMMA TeamSame ==
    ASSUME cfg' = cfg, TeamOK, UNCHANGED <<threads, stop_flag, main, at_stop>>
    PROVE  TeamOK'
  BY Places, Zenon DEF TeamOK, ThreadState, threads

NetInv == MarkersCount /\ \A q \in Qps : InSequence(q) /\ InMemory(q)

(* What memory holds after L messages, the last of them perhaps on its way, of
   which n were damaged. *)
ReachedAt(L, f, s) == RoundsAt(L, s) - (IF f.slot = s THEN 1 ELSE 0)
Holds(L, f, cells, n) ==
  /\ f # NoMessage => /\ f.slot \in 0..(Slots - 1) /\ ChainAtomic(f.slot) /\ RoundsAt(L, f.slot) > 0
  /\ n = 0 => /\ \A s \in 0..(Slots - 1) : cells[s] = Pattern(ReachedAt(L, f, s))
              /\ f # NoMessage => f.value = Pattern(RoundsAt(L, f.slot))

LEMMA ReachedAre ==
    ASSUME cfg' = cfg, NEW q, NEW s
    PROVE  /\ Reached(q, s) = ReachedAt(landed[q], flush[q], s)
           /\ Reached(q, s)' = ReachedAt(landed'[q], flush'[q], s)
  BY RoundsAre, Zenon DEF Reached, ReachedAt

LEMMA MemoryIs ==
    ASSUME cfg' = cfg, NEW q
    PROVE  /\ InMemory(q) <=> Holds(landed[q], flush[q], mem[q], faults)
           /\ InMemory(q)' <=> Holds(landed'[q], flush'[q], mem'[q], faults')
<1>1. InMemory(q) <=> Holds(landed[q], flush[q], mem[q], faults)
  BY Zenon DEF InMemory, Holds, Reached, ReachedAt, Rounds, RoundsAt
<1>2. InMemory(q)' <=> Holds(landed'[q], flush'[q], mem'[q], faults')
  BY Zenon DEF InMemory, Holds, Reached, ReachedAt, Rounds, RoundsAt, Slots, ChainAtomic
<1> QED  BY <1>1, <1>2, Zenon

(* What a marker lacks while its fetch-and-add is the next operation. *)
Due(ops, m) == IF ops # <<>> /\ Head(ops).op = "add" /\ Head(ops).marker = m THEN 1 ELSE 0

LEMMA AddedIs ==
    ASSUME cfg' = cfg, NEW m
    PROVE  /\ Added(m) = RoundsAt(landed[QpOf(m)], LastSlot(m)) - Due(wire[QpOf(m)], m)
           /\ Added(m)' = RoundsAt(landed'[QpOf(m)], LastSlot(m)) - Due(wire'[QpOf(m)], m)
<1>1. Added(m) = RoundsAt(landed[QpOf(m)], LastSlot(m)) - Due(wire[QpOf(m)], m)
  BY Zenon DEF Added, AddDue, Due, Rounds, RoundsAt
<1>2. Added(m)' = RoundsAt(landed'[QpOf(m)], LastSlot(m)) - Due(wire'[QpOf(m)], m)
  BY Zenon DEF Added, AddDue, Due, Rounds, RoundsAt, Slots, QpOf, LastSlot, FirstSlot
<1> QED  BY <1>1, <1>2, Zenon

LEMMA MarkersCountIs ==
    ASSUME cfg' = cfg
    PROVE  MarkersCount' <=>
             \A m \in Markers :
               /\ tail_markers'[m] = Added(m)' + (IF cfg.mode = "READ" THEN 1 ELSE 0)
               /\ cfg.mode = "READ" => returns'[m] = Added(m)'
  BY Places, Zenon DEF MarkersCount

LEMMA NetSame ==
    ASSUME cfg' = cfg, UNCHANGED <<client, fabric>>
    PROVE  /\ NetOK => NetOK'
           /\ NetInv => NetInv'
           /\ \A m : Marker(m)' = Marker(m)
           /\ \A q, s : Reached(q, s)' = Reached(q, s)
<1>1. NetOK => NetOK'
  BY Places, Zenon DEF NetOK, client, fabric
<1>2. /\ ctx' = ctx /\ wire' = wire /\ landed' = landed /\ mem' = mem /\ flush' = flush
      /\ tail_markers' = tail_markers /\ returns' = returns /\ faults' = faults
  BY Zenon DEF client, fabric
<1>3. \A q, s : Rounds(q, s)' = Rounds(q, s) /\ Reached(q, s)' = Reached(q, s)
  BY <1>2, RoundsAre, ReachedAre, Zenon
<1>4. ASSUME NEW q PROVE InSequence(q)' <=> InSequence(q)
  BY <1>2, SequenceNow, SequenceNext, Zenon
<1>5. ASSUME NEW q PROVE InMemory(q)' <=> InMemory(q)
  BY <1>2, MemoryIs, Zenon
<1>6. \A m : Marker(m)' = Marker(m)
  BY <1>2, Zenon DEF Marker
<1>7. MarkersCount' <=> MarkersCount
  BY <1>2, AddedIs, MarkersCountIs, Zenon DEF MarkersCount
<1> QED  BY <1>1, <1>3, <1>4, <1>5, <1>6, <1>7, Places, Zenon DEF NetInv

TeamInv ==
  /\ OneOwner /\ Started /\ NoFalseAlarm
  /\ \A v \in Validators : Looking(v) /\ Draining(v)
  /\ \A m \in Markers : last_seen[m] <= Marker(m) /\ at_stop[m] <= Marker(m)
  /\ AddsUpTo(Seen, stats.validated + stats.skipped)

(* The invariants in terms of a thread's state x and of what was seen, ls. *)
Busy(x) == x.pc \in {"scan", "retry", "snap"}
OwnOf(x) == x.own_markers[x.at]
LookingAt(x, ls) ==
  /\ ~ Busy(x) => x.k = 0
  /\ Busy(x) => /\ x.at <= Len(x.own_markers) /\ x.val \in (ls[OwnOf(x)] + 1)..Marker(OwnOf(x))
                /\ x.k < cfg.ops
  /\ x.pc = "again" => x.at <= Len(x.own_markers)
  /\ x.pc = "snap" /\ faults = 0 /\ cfg.ops >= TailSlots =>
       Reached(QpOf(OwnOf(x)), FirstSlot(OwnOf(x)) + x.k) > x.val
DrainingAt(x, ls) ==
  /\ x.draining => stop_flag /\ x.pc # "again"
  /\ x.pc = "ended" => x.draining /\ x.at > Len(x.own_markers)
  /\ x.draining => /\ \A i \in 1..Len(x.own_markers) :
                        i < x.at => ls[x.own_markers[i]] >= at_stop[x.own_markers[i]]
                   /\ Busy(x) => x.val >= at_stop[OwnOf(x)]
OneOwnerOf(vs) ==
  /\ \A m \in Markers : \E v \in DOMAIN vs : \E i \in 1..Len(vs[v].own_markers) : vs[v].own_markers[i] = m
  /\ \A v, w \in DOMAIN vs : \A i \in 1..Len(vs[v].own_markers), j \in 1..Len(vs[w].own_markers) :
       vs[v].own_markers[i] = vs[w].own_markers[j] => v = w /\ i = j
SeenOf(vs, ls) ==
  [m \in Markers |->
     IF \E v \in DOMAIN vs : Busy(vs[v]) /\ OwnOf(vs[v]) = m
     THEN vs[CHOOSE v \in DOMAIN vs : Busy(vs[v]) /\ OwnOf(vs[v]) = m].val - 1 ELSE ls[m]]

-----------------------------------------------------------------------------
(* The start.                                                              *)

LEMMA TeamSize ==
    ASSUME cfg \in Configs
    PROVE  get_num_validators(cfg) \in Nat \ {0} /\ get_num_validators(cfg) <= TotalMarkers
<1>1. PICK T \in Nat \ {0}, q \in Nat \ {0}, c \in Nat : T = TotalMarkers /\ q = cfg.num_qps /\ c = cfg.cores
  BY Sizes DEF Pos
<1>2. PICK p \in Nat : p = IF cfg.mode = "READ" THEN 3 ELSE 2
  OBVIOUS
<1>3. q * p \in Nat
  BY <1>1, <1>2
<1>4. PICK w \in Nat : w = IF q * p < 4 THEN 4 ELSE q * p
  BY <1>3
<1>5. PICK h \in Nat : h = c \div 2
  OBVIOUS
<1>6. PICK f \in Nat : f = Least(Least(Least(w, h), 32), T) /\ f <= T
  BY <1>4, <1>5 DEF Least
<1>7. get_num_validators(cfg) = IF f < 1 THEN 1 ELSE f
  BY <1>1, <1>2, <1>4, <1>5, <1>6, Zenon DEF get_num_validators, TotalMarkers
<1>8. (IF f < 1 THEN 1 ELSE f) \in Nat \ {0} /\ (IF f < 1 THEN 1 ELSE f) <= T
  BY <1>6
<1> QED  BY <1>1, <1>7, <1>8, Zenon

(* The shares of n threads follow each other: b markers each, and one more for
   the first r. *)
ShareOf(v, b, r) == b + (IF v < r THEN 1 ELSE 0)
BeforeOf(v, b, r) == v * b + Least(v, r)

LEMMA SharesFollow ==
    ASSUME NEW b \in Nat \ {0}, NEW r \in Nat, NEW v \in Nat, NEW w \in Nat, v < w
    PROVE  BeforeOf(v, b, r) + ShareOf(v, b, r) <= BeforeOf(w, b, r)
<1>1. PICK d \in Nat : w = v + 1 + d
  <2>1. w - v - 1 \in Nat /\ w = v + 1 + (w - v - 1)
    OBVIOUS
  <2> QED  BY <2>1, Zenon
<1>2. w * b = v * b + b + d * b
  BY <1>1
<1>3. d * b \in Nat /\ v * b \in Nat
  OBVIOUS
<1>4. PICK x \in Nat, y \in Nat : x = v * b /\ y = d * b
  BY <1>3, Zenon
<1>5. Least(v, r) + (IF v < r THEN 1 ELSE 0) <= Least(w, r)
  BY DEF Least
<1>6. PICK lv \in Nat, lw \in Nat : lv = Least(v, r) /\ lw = Least(w, r)
  BY DEF Least
<1>7. x + lv + (b + (IF v < r THEN 1 ELSE 0)) <= x + b + y + lw
  BY <1>5, <1>6
<1>8. /\ BeforeOf(v, b, r) + ShareOf(v, b, r) = x + lv + (b + (IF v < r THEN 1 ELSE 0))
      /\ BeforeOf(w, b, r) = x + b + y + lw
  BY <1>2, <1>4, <1>6, Zenon DEF BeforeOf, ShareOf
<1> QED  BY <1>7, <1>8, Zenon

LEMMA SharesCover ==
    ASSUME NEW n \in Nat \ {0}, NEW b \in Nat \ {0}, NEW r \in 0..(n - 1), NEW j \in 0..(n * b + r - 1)
    PROVE  \E v \in 0..(n - 1) : BeforeOf(v, b, r) <= j /\ j < BeforeOf(v, b, r) + ShareOf(v, b, r)
<1>1. j \in Nat /\ r \in Nat /\ n * b \in Nat /\ r * b \in Nat /\ j < n * b + r
  OBVIOUS
<1>2. CASE j < r * b + r
  <2>1. PICK v \in Nat, e \in Nat : v = j \div (b + 1) /\ e = j % (b + 1)
    OBVIOUS
  <2>2. j = v * (b + 1) + e /\ e < b + 1
    <3>1. PICK M \in Nat \ {0} : M = b + 1
      OBVIOUS
    <3>2. j = (j \div M) * M + (j % M) /\ j % M \in 0..(M - 1)
      BY <1>1, DivMod
    <3>3. j = v * M + e /\ e \in 0..(M - 1)
      BY <2>1, <3>1, <3>2, Zenon
    <3>4. e < M
      BY <3>3
    <3> QED  BY <3>1, <3>3, <3>4, Zenon
  <2>3. v * (b + 1) = v * b + v /\ v * b \in Nat
    OBVIOUS
  <2>4. v < r
    <3>1. SUFFICES ASSUME v >= r PROVE FALSE
      BY <1>1
    <3>2. v * b >= r * b
      BY <1>1, <3>1
    <3> QED  BY <1>1, <1>2, <2>2, <2>3, <3>1, <3>2
  <2>5. BeforeOf(v, b, r) = v * b + v /\ ShareOf(v, b, r) = b + 1
    BY <2>4 DEF BeforeOf, ShareOf, Least
  <2>6. v \in 0..(n - 1)
    BY <2>4
  <2>7. v * b + v <= j /\ j < (v * b + v) + (b + 1)
    BY <2>2, <2>3
  <2> QED  BY <2>5, <2>6, <2>7, Zenon
<1>3. CASE j >= r * b + r
  <2>1. PICK d \in Nat : j = (r * b + r) + d
    <3>1. j - (r * b + r) \in Nat /\ j = (r * b + r) + (j - (r * b + r))
      BY <1>1, <1>3
    <3> QED  BY <3>1, Zenon
  <2>2. PICK v \in Nat, e \in Nat : v = d \div b /\ e = d % b
    OBVIOUS
  <2>3. d = v * b + e /\ e < b
    BY <2>2, DivMod
  <2>4. (r + v) * b = r * b + v * b /\ v * b \in Nat
    OBVIOUS
  <2>5. r + v < n
    <3>1. SUFFICES ASSUME r + v >= n PROVE FALSE
      BY <1>1
    <3>2. (r + v) * b >= n * b
      BY <1>1, <3>1
    <3> QED  BY <1>1, <2>1, <2>3, <2>4, <3>2
  <2>6. BeforeOf(r + v, b, r) = (r + v) * b + r /\ ShareOf(r + v, b, r) = b
    BY DEF BeforeOf, ShareOf, Least
  <2>7. r + v \in 0..(n - 1)
    BY <2>5
  <2>8. (r + v) * b + r <= j /\ j < ((r + v) * b + r) + b
    BY <1>1, <2>1, <2>3, <2>4
  <2> QED  BY <2>6, <2>7, <2>8, Zenon
<1> QED  BY <1>1, <1>2, <1>3

(* Every marker has one place in the order in which they are dealt. *)
LEMMA OrderIs ==
    ASSUME cfg \in Configs
    PROVE  /\ LogicalOrder \in [1..TotalMarkers -> Markers]
           /\ \A m \in Markers : \E i \in 1..TotalMarkers : LogicalOrder[i] = m
           /\ \A i, j \in 1..TotalMarkers : LogicalOrder[i] = LogicalOrder[j] => i = j
<1>1. PICK Q \in Pos, C \in Pos, T \in Pos : Q = cfg.num_qps /\ C = cfg.chunks /\ T = TotalMarkers /\ T = Q * C
  BY Sizes, Zenon DEF TotalMarkers
<1>2. Q * C = C * Q
  BY <1>1 DEF Pos
<1>3. Q \in Nat \ {0} /\ C \in Nat \ {0} /\ T \in Nat \ {0}
  BY <1>1, Zenon DEF Pos
<1>4. ASSUME NEW i \in 1..T
      PROVE  /\ LogicalOrder[i] = ((i - 1) % Q) * C + ((i - 1) \div Q)
             /\ (i - 1) % Q \in 0..(Q - 1) /\ (i - 1) \div Q \in 0..(C - 1)
             /\ i - 1 = ((i - 1) \div Q) * Q + ((i - 1) % Q)
             /\ LogicalOrder[i] \in Markers
  <2>1. LogicalOrder[i] = ((i - 1) % Q) * C + ((i - 1) \div Q)
    BY <1>1, <1>4, Zenon DEF LogicalOrder, MarkerOf
  <2>2. PICK x \in 0..(C * Q - 1) : x = i - 1
    BY <1>1, <1>2, <1>3, <1>4
  <2>3. /\ (i - 1) % Q \in 0..(Q - 1) /\ (i - 1) \div Q \in 0..(C - 1)
        /\ i - 1 = ((i - 1) \div Q) * Q + ((i - 1) % Q)
    <3>1. x % Q \in 0..(Q - 1) /\ x \div Q \in 0..(C - 1) /\ x = (x \div Q) * Q + (x % Q)
      BY <1>1, OutOfBase, Zenon
    <3> QED  BY <2>2, <3>1, Zenon
  <2>4. ((i - 1) % Q) * C + ((i - 1) \div Q) \in 0..(Q * C - 1)
    BY <1>1, <2>3, InBase, Zenon
  <2> QED  BY <1>1, <2>1, <2>3, <2>4, Zenon DEF Markers
<1>5. LogicalOrder \in [1..TotalMarkers -> Markers]
  <2>1. \A i \in 1..TotalMarkers : LogicalOrder[i] \in Markers
    BY <1>1, <1>4, Zenon
  <2>2. LogicalOrder = [i \in 1..TotalMarkers |-> LogicalOrder[i]]
    BY Zenon DEF LogicalOrder
  <2> QED  BY <2>1, <2>2, Zenon
<1>6. ASSUME NEW m \in Markers PROVE \E i \in 1..TotalMarkers : LogicalOrder[i] = m
  <2>1. m \in 0..(Q * C - 1)
    BY <1>1, <1>6, Zenon DEF Markers
  <2>2. PICK a \in 0..(Q - 1), c \in 0..(C - 1) : m = a * C + c
    BY <1>1, <2>1, OutOfBase, Zenon
  <2>3. c * Q + a \in 0..(C * Q - 1)
    BY <1>1, <2>2, InBase, Zenon
  <2>4. PICK i \in Nat : i = c * Q + a + 1
    BY <2>2, <2>3, <1>3
  <2>5. i \in 1..T /\ i - 1 = c * Q + a
    BY <1>1, <1>2, <1>3, <2>3, <2>4
  <2>6. (i - 1) \div Q = c /\ (i - 1) % Q = a
    <3>1. c \in Int
      BY <1>3
    <3>2. (c * Q + a) \div Q = c /\ (c * Q + a) % Q = a
      BY <1>3, <2>2, <3>1, DivIs, Zenon
    <3> QED  BY <2>5, <3>2, Zenon
  <2>7. LogicalOrder[i] = m
    BY <1>4, <2>2, <2>5, <2>6, Zenon
  <2> QED  BY <1>1, <2>5, <2>7, Zenon
<1>7. ASSUME NEW i \in 1..TotalMarkers, NEW j \in 1..TotalMarkers, LogicalOrder[i] = LogicalOrder[j]
      PROVE  i = j
  <2>1. PICK a \in 0..(Q - 1), c \in 0..(C - 1) : a = (i - 1) % Q /\ c = (i - 1) \div Q
    BY <1>1, <1>4, <1>7, Zenon
  <2>2. PICK e \in 0..(Q - 1), f \in 0..(C - 1) : e = (j - 1) % Q /\ f = (j - 1) \div Q
    BY <1>1, <1>4, <1>7, Zenon
  <2>3. a * C + c = e * C + f /\ i - 1 = c * Q + a /\ j - 1 = f * Q + e
    BY <1>1, <1>4, <1>7, <2>1, <2>2, Zenon
  <2>4. a \in Int /\ e \in Int
    BY <1>3
  <2>5. a = e /\ c = f
    <3>1. /\ (a * C + c) \div C = a /\ (a * C + c) % C = c
          /\ (e * C + f) \div C = e /\ (e * C + f) % C = f
      BY <1>3, <2>1, <2>2, <2>4, DivIs, Zenon
    <3> QED  BY <2>3, <3>1, Zenon
  <2>6. i \in Int /\ j \in Int /\ i - 1 = j - 1
    BY <1>1, <1>3, <1>7, <2>3, <2>5
  <2> QED  BY <2>6
<1> QED  BY <1>5, <1>6, <1>7, Zenon

LEMMA ListIs ==
    ASSUME NEW S, NEW n \in Nat, NEW f \in [1..n -> S]
    PROVE  f \in Seq(S) /\ Len(f) = n
  OBVIOUS

(* The markers are dealt to the threads, each to one. *)
LEMMA DealtParts ==
    ASSUME cfg \in Configs, NEW n \in Nat \ {0}, n <= TotalMarkers
    PROVE  /\ \A v \in 0..(n - 1) : Share(v, n) \in Nat /\ Dealt(v, n) \subseteq Markers
           /\ \A m \in Markers : \E v \in 0..(n - 1) : m \in Dealt(v, n)
           /\ \A v, w \in 0..(n - 1) : \A m \in Dealt(v, n) : m \in Dealt(w, n) => v = w
<1>1. PICK T \in Nat \ {0} : T = TotalMarkers /\ n <= T
  BY Sizes, Zenon DEF Pos
<1>2. PICK b \in Int, r \in 0..(n - 1) : b = T \div n /\ r = T % n /\ T = b * n + r
  <2>1. T \div n \in Int /\ T % n \in 0..(n - 1) /\ T = (T \div n) * n + (T % n)
    <3>1. T \in Int
      OBVIOUS
    <3> QED  BY <3>1, DivMod, Zenon
  <2> QED  BY <1>1, <2>1, Zenon
<1>3. b \in Nat \ {0}
  <2>1. SUFFICES ASSUME b <= 0 PROVE FALSE
    BY <1>2
  <2>2. b * n <= 0
    BY <1>2, <2>1
  <2>3. b * n \in Int
    BY <1>2
  <2> QED  BY <1>1, <1>2, <2>2, <2>3
<1>4. ASSUME NEW v \in 0..(n - 1)
      PROVE  /\ v \in Nat /\ ShareOf(v, b, r) \in Nat /\ BeforeOf(v, b, r) \in Nat
             /\ Share(v, n) = ShareOf(v, b, r) /\ Before(v, n) = BeforeOf(v, b, r)
  <2>1. Share(v, n) = ShareOf(v, b, r) /\ Before(v, n) = BeforeOf(v, b, r)
    BY <1>1, <1>2, Zenon DEF Share, Before, ShareOf, BeforeOf
  <2>2. v \in Nat /\ v * b \in Nat
    BY <1>3
  <2>3. Least(v, r) \in Nat /\ ShareOf(v, b, r) \in Nat
    BY <1>2, <1>3, <2>2 DEF Least, ShareOf
  <2>4. BeforeOf(v, b, r) \in Nat
    BY <2>2, <2>3 DEF BeforeOf
  <2> QED  BY <2>1, <2>2, <2>3, <2>4, Zenon
<1>5. ASSUME NEW v \in 0..(n - 1) PROVE BeforeOf(v, b, r) + ShareOf(v, b, r) <= T
  <2>1. v \in Nat /\ n \in Nat /\ v < n
    OBVIOUS
  <2>2. BeforeOf(v, b, r) + ShareOf(v, b, r) <= BeforeOf(n, b, r)
    BY <1>2, <1>3, <2>1, SharesFollow
  <2>3. Least(n, r) = r
    BY <1>2 DEF Least
  <2>4. n * b = b * n
    BY <1>3
  <2>5. BeforeOf(n, b, r) = T
    BY <1>2, <2>3, <2>4, Zenon DEF BeforeOf
  <2> QED  BY <2>2, <2>5, Zenon
<1>6. ASSUME NEW v \in 0..(n - 1)
      PROVE  /\ (Before(v, n) + 1)..(Before(v, n) + Share(v, n)) \subseteq 1..T
             /\ \A m : m \in Dealt(v, n) <=>
                  \E i \in (Before(v, n) + 1)..(Before(v, n) + Share(v, n)) : m = LogicalOrder[i]
  <2>1. PICK x \in Nat, y \in Nat : x = Before(v, n) /\ y = Share(v, n) /\ x + y <= T
    BY <1>4, <1>5, Zenon
  <2>2. (x + 1)..(x + y) \subseteq 1..T
    BY <1>1, <2>1
  <2> QED  BY <2>1, <2>2, Zenon DEF Dealt
<1>7. ASSUME NEW v \in 0..(n - 1) PROVE Share(v, n) \in Nat /\ Dealt(v, n) \subseteq Markers
  <2>1. \A i \in 1..T : LogicalOrder[i] \in Markers
    BY <1>1, OrderIs, Zenon
  <2>2. ASSUME NEW m \in Dealt(v, n) PROVE m \in Markers
    <3>1. PICK i \in (Before(v, n) + 1)..(Before(v, n) + Share(v, n)) : m = LogicalOrder[i]
      BY <1>6, <1>7, <2>2, Zenon
    <3>2. i \in 1..T
      BY <1>6, <1>7, <3>1, Zenon
    <3> QED  BY <2>1, <3>1, <3>2, Zenon
  <2> QED  BY <1>4, <1>7, <2>2, Zenon
<1>8. ASSUME NEW m \in Markers PROVE \E v \in 0..(n - 1) : m \in Dealt(v, n)
  <2>1. PICK i \in 1..T : m = LogicalOrder[i]
    BY <1>1, <1>8, OrderIs, Zenon
  <2>2. i - 1 \in 0..(n * b + r - 1)
    BY <1>1, <1>2
  <2>3. PICK v \in 0..(n - 1) : BeforeOf(v, b, r) <= i - 1 /\ i - 1 < BeforeOf(v, b, r) + ShareOf(v, b, r)
    BY <1>3, <2>2, SharesCover, Zenon
  <2>4. PICK x \in Nat, y \in Nat : x = Before(v, n) /\ y = Share(v, n) /\ x <= i - 1 /\ i - 1 < x + y
    BY <1>4, <2>3, Zenon
  <2>5. i \in (x + 1)..(x + y)
    BY <1>1, <2>1, <2>4
  <2> QED  BY <1>6, <2>1, <2>4, <2>5, Zenon
<1>9. ASSUME NEW v \in 0..(n - 1), NEW w \in 0..(n - 1), NEW m \in Dealt(v, n), m \in Dealt(w, n)
      PROVE  v = w
  <2>1. PICK i \in (Before(v, n) + 1)..(Before(v, n) + Share(v, n)) : m = LogicalOrder[i]
    BY <1>6, <1>9, Zenon
  <2>2. PICK j \in (Before(w, n) + 1)..(Before(w, n) + Share(w, n)) : m = LogicalOrder[j]
    BY <1>6, <1>9, Zenon
  <2>3. i = j
    BY <1>1, <1>6, <1>9, <2>1, <2>2, OrderIs, Zenon
  <2>4. PICK x \in Nat, y \in Nat : x = Before(v, n) /\ y = Share(v, n)
    BY <1>4, <1>9, Zenon
  <2>5. PICK p \in Nat, s \in Nat : p = Before(w, n) /\ s = Share(w, n)
    BY <1>4, <1>9, Zenon
  <2>6. i \in (x + 1)..(x + y) /\ i \in (p + 1)..(p + s)
    BY <2>1, <2>2, <2>3, <2>4, <2>5, Zenon
  <2>7. x < p + s /\ p < x + y
    BY <2>6
  <2>8. ~ (x + y <= p) /\ ~ (p + s <= x)
    BY <2>7
  <2>9. v \in Nat /\ w \in Nat /\ r \in Nat
    BY <1>2, <1>9
  <2>10. v < w => x + y <= p
    <3>1. v < w => BeforeOf(v, b, r) + ShareOf(v, b, r) <= BeforeOf(w, b, r)
      BY <1>3, <2>9, SharesFollow, Zenon
    <3>2. /\ x = BeforeOf(v, b, r) /\ y = ShareOf(v, b, r)
          /\ p = BeforeOf(w, b, r) /\ s = ShareOf(w, b, r)
      BY <1>4, <1>9, <2>4, <2>5, Zenon
    <3> QED  BY <3>1, <3>2, Zenon
  <2>11. w < v => p + s <= x
    <3>1. w < v => BeforeOf(w, b, r) + ShareOf(w, b, r) <= BeforeOf(v, b, r)
      BY <1>3, <2>9, SharesFollow, Zenon
    <3>2. /\ x = BeforeOf(v, b, r) /\ y = ShareOf(v, b, r)
          /\ p = BeforeOf(w, b, r) /\ s = ShareOf(w, b, r)
      BY <1>4, <1>9, <2>4, <2>5, Zenon
    <3> QED  BY <3>1, <3>2, Zenon
  <2> QED  BY <2>8, <2>9, <2>10, <2>11
<1> QED  BY <1>7, <1>8, <1>9, Zenon

(* The list has the markers dealt to v among n threads, each of them once. *)
ListsDealt(list, v, n) ==
  /\ list \in Seq(Markers)
  /\ \A i \in 1..Len(list) : list[i] \in Dealt(v, n)
  /\ \A m \in Dealt(v, n) : \E i \in 1..Len(list) : list[i] = m
  /\ \A i, j \in 1..Len(list) : list[i] = list[j] => i = j

LEMMA ListsOf ==
    ASSUME NEW v, NEW n, n = get_num_validators(cfg), Share(v, n) \in Nat, Dealt(v, n) \subseteq Markers,
           NEW list \in distribute_markers(v)
    PROVE  ListsDealt(list, v, n)
<1>1. PICK k \in Nat, D \in {Dealt(v, n)} : k = Share(v, n) /\ D = Dealt(v, n) /\ D \subseteq Markers
  BY Zenon
<1>2. /\ list \in [1..k -> D]
      /\ \A m \in D : \E i \in 1..k : list[i] = m
      /\ \A i, j \in 1..k : i < j => list[i] < list[j]
  BY <1>1, Zenon DEF distribute_markers
<1>3. list \in [1..k -> Markers]
  BY <1>1, <1>2
<1>4. list \in Seq(Markers) /\ Len(list) = k
  BY <1>3, ListIs, Zenon
<1>5. \A i \in 1..k : list[i] \in Int
  <2>1. Markers \subseteq Int
    BY DEF Markers
  <2> QED  BY <1>3, <2>1, Zenon
<1>6. \A i, j \in 1..k : list[i] = list[j] => i = j
  <2>1. SUFFICES ASSUME NEW i \in 1..k, NEW j \in 1..k, list[i] = list[j] PROVE i = j
    BY Zenon
  <2>2. PICK y \in Int : y = list[i] /\ y = list[j]
    BY <1>5, <2>1, Zenon
  <2>3. ~ (y < y)
    BY <2>2
  <2>4. ~ (i < j) /\ ~ (j < i)
    BY <1>2, <2>1, <2>2, <2>3, Zenon
  <2>5. i \in Int /\ j \in Int
    OBVIOUS
  <2> QED  BY <2>4, <2>5
<1> QED  BY <1>1, <1>2, <1>4, <1>6, Zenon DEF ListsDealt

LEMMA NothingYet ==
    ASSUME cfg \in Configs, NEW s \in 0..(Slots - 1)
    PROVE  RoundsAt(0, s) = 0
<1>1. PICK S \in Nat \ {0} : S = Slots
  BY Sizes, Zenon DEF Pos
<1>2. RoundsAt(0, s) = (0 \div S) + (IF s < 0 % S THEN 1 ELSE 0)
  BY <1>1, RoundsOf, Zenon
<1>3. 0 \div S = 0 /\ 0 % S = 0
  <2>1. (0 * S + 0) \div S = 0 /\ (0 * S + 0) % S = 0
    BY DivIs
  <2>2. 0 * S + 0 = 0
    OBVIOUS
  <2> QED  BY <2>1, <2>2, Zenon
<1> QED  BY <1>1, <1>2, <1>3

LEMMA InitNet ==
    ASSUME Init
    PROVE  NetOK /\ NetInv /\ \A m \in Markers : Marker(m) = 0
<1>1. /\ cfg \in Configs
      /\ ctx = [q \in Qps |-> [scnt |-> 0, ccnt |-> 0, recv_off |-> 0, send_off |-> 0]]
      /\ wire = [q \in Qps |-> <<>>]
      /\ cqe = [q \in Qps |-> 0]
      /\ landed = [q \in Qps |-> 0]
      /\ mem = [q \in Qps |-> [s \in 0..(Slots - 1) |-> 0]]
      /\ flush = [q \in Qps |-> NoMessage]
      /\ tail_markers = [m \in Markers |-> IF cfg.mode = "READ" THEN 1 ELSE 0]
      /\ returns = [m \in Markers |-> 0]
      /\ faults = 0
  BY Zenon DEF Init
<1>2. NetOK
  <2>1. [scnt |-> 0, ccnt |-> 0, recv_off |-> 0, send_off |-> 0]
          \in [scnt : Nat, ccnt : Nat, recv_off : Nat, send_off : Nat]
    OBVIOUS
  <2>2. ctx \in [Qps -> [scnt : Nat, ccnt : Nat, recv_off : Nat, send_off : Nat]]
    BY <1>1, <2>1, Zenon
  <2>3. <<>> \in Seq(Op) /\ 0 \in Int /\ 0 \in Nat /\ 1 \in Nat /\ 0 \in 0..Garbage
    BY DEF Garbage
  <2>4. NoMessage \in [slot : Int, value : 0..Garbage]
    BY DEF NoMessage, Garbage
  <2>5. /\ wire \in [Qps -> Seq(Op)] /\ cqe \in [Qps -> Int] /\ landed \in [Qps -> Nat]
        /\ flush \in [Qps -> [slot : Int, value : 0..Garbage]] /\ faults \in Nat
    BY <1>1, <2>3, <2>4, Zenon
  <2>6. mem \in [Qps -> [0..(Slots - 1) -> 0..Garbage]]
    BY <1>1, <2>3, Zenon
  <2>7. tail_markers \in [Markers -> Nat] /\ returns \in [Markers -> Nat]
    BY <1>1, <2>3, Zenon
  <2> QED  BY <2>2, <2>5, <2>6, <2>7, Zenon DEF NetOK
<1>3. ASSUME NEW q \in Qps
      PROVE  /\ ctx[q] = [scnt |-> 0, ccnt |-> 0, recv_off |-> 0, send_off |-> 0]
             /\ wire[q] = <<>> /\ landed[q] = 0 /\ flush[q] = NoMessage
             /\ \A s \in 0..(Slots - 1) : mem[q][s] = 0
  BY <1>1, Zenon
<1>4. MarkersCount
  <2>1. SUFFICES ASSUME NEW m \in Markers
                 PROVE  /\ tail_markers[m] = Added(m) + (IF cfg.mode = "READ" THEN 1 ELSE 0)
                        /\ cfg.mode = "READ" => returns[m] = Added(m)
    BY Zenon DEF MarkersCount
  <2>2. QpOf(m) \in Qps /\ LastSlot(m) \in 0..(Slots - 1)
    BY <1>1, <2>1, MarkerParts, LastSlotCloses, Zenon
  <2>3. Rounds(QpOf(m), LastSlot(m)) = 0
    <3>1. RoundsAt(0, LastSlot(m)) = 0
      BY <1>1, <2>2, NothingYet, Zenon
    <3> QED  BY <1>3, <2>2, <3>1, Zenon DEF Rounds, RoundsAt
  <2>4. ~ AddDue(QpOf(m))
    BY <1>3, <2>2, Zenon DEF AddDue
  <2>5. Added(m) = 0 - 0
    BY <2>3, <2>4, Zenon DEF Added
  <2>6. tail_markers[m] = (IF cfg.mode = "READ" THEN 1 ELSE 0) /\ returns[m] = 0
    BY <1>1, <2>1, Zenon
  <2> QED  BY <2>5, <2>6
<1>5. ASSUME NEW q \in Qps PROVE InSequence(q)
  <2>1. 0 % Slots = 0 /\ (0 \div Slots) % 3 = 0
    <3>1. PICK S \in Nat \ {0} : S = Slots
      BY <1>1, Sizes, Zenon DEF Pos
    <3>2. (0 * S + 0) \div S = 0 /\ (0 * S + 0) % S = 0
      BY DivIs
    <3>3. 0 * S + 0 = 0 /\ 0 % 3 = 0
      OBVIOUS
    <3> QED  BY <3>1, <3>2, <3>3, Zenon
  <2>2. ctx[q].scnt = 0 /\ ctx[q].recv_off = 0 /\ ctx[q].send_off = 0
    BY <1>3, <1>5
  <2>3. Chain(q, <<>>, 0, 0)
    BY DEF Chain
  <2> QED  BY <1>3, <1>5, <2>1, <2>2, <2>3, SequenceNow, Zenon
<1>6. ASSUME NEW q \in Qps PROVE InMemory(q)
  <2>1. flush[q] = NoMessage
    BY <1>3, <1>6, Zenon
  <2>2. ASSUME NEW s \in 0..(Slots - 1) PROVE mem[q][s] = Pattern(Reached(q, s))
    <3>1. mem[q][s] = 0 /\ landed[q] = 0
      BY <1>3, <1>6, <2>2, Zenon
    <3>2. Rounds(q, s) = 0
      <4>1. RoundsAt(0, s) = 0
        BY <1>1, <2>2, NothingYet, Zenon
      <4> QED  BY <3>1, <4>1, Zenon DEF Rounds, RoundsAt
    <3>3. flush[q].slot # s
      BY <2>1 DEF NoMessage
    <3>4. Reached(q, s) = 0 - 0
      BY <3>2, <3>3, Zenon DEF Reached
    <3>5. 0 - 0 = 0
      OBVIOUS
    <3> QED  BY <3>1, <3>4, <3>5, Zenon DEF Pattern
  <2> QED  BY <2>1, <2>2, Zenon DEF InMemory
<1>7. ASSUME NEW m \in Markers PROVE Marker(m) = 0
  <2>1. cfg.mode = "READ" \/ cfg.mode = "WRITE"
    BY <1>1, Sizes
  <2>2. "WRITE" # "READ"
    OBVIOUS
  <2> QED  BY <1>1, <1>7, <2>1, <2>2, Zenon DEF Marker
<1> QED  BY <1>2, <1>4, <1>5, <1>6, <1>7, Zenon DEF NetInv

LEMMA AddsZero ==
    ASSUME cfg \in Configs, NEW f, \A m \in Markers : f[m] = 0
    PROVE  AddsUpTo(f, 0)
<1>1. TotalMarkers \in Nat
  BY Sizes DEF Pos
<1>2. PICK sum : sum = [i \in 0..TotalMarkers |-> 0]
  BY Zenon
<1>3. 0 \in 0..0
  OBVIOUS
<1>4. sum \in [0..TotalMarkers -> 0..0]
  BY <1>2, <1>3, Zenon
<1>5. 0 \in 0..TotalMarkers /\ TotalMarkers \in 0..TotalMarkers
  BY <1>1
<1>6. sum[0] = 0 /\ sum[TotalMarkers] = 0
  BY <1>2, <1>5, Zenon
<1>7. ASSUME NEW m \in Markers PROVE sum[m + 1] = sum[m] + f[m]
  <2>1. m \in 0..TotalMarkers /\ m + 1 \in 0..TotalMarkers
    BY <1>1 DEF Markers
  <2>2. sum[m + 1] = 0 /\ sum[m] = 0 /\ f[m] = 0
    BY <1>2, <1>7, <2>1, Zenon
  <2> QED  BY <2>2
<1> QED  BY <1>4, <1>6, <1>7, Zenon DEF AddsUpTo

NewThread(list) ==
  [pc |-> "none", own_markers |-> list, at |-> 1, k |-> 0, val |-> 0,
   spin |-> 0, found |-> FALSE, draining |-> FALSE]

LEMMA NewThreadIs ==
    ASSUME NEW list \in Seq(Markers)
    PROVE  /\ NewThread(list) \in ThreadState
           /\ NewThread(list).pc = "none" /\ NewThread(list).own_markers = list
           /\ NewThread(list).k = 0 /\ ~ NewThread(list).draining
  BY DEF NewThread, ThreadState

LEMMA InitTeam ==
    ASSUME Init
    PROVE  TeamOK /\ TeamInv
<1>1. /\ cfg \in Configs
      /\ last_seen = [m \in Markers |-> 0]
      /\ stats = [validated |-> 0, skipped |-> 0, errors |-> 0]
      /\ stop_flag = FALSE /\ main = "starting" /\ faults = 0 /\ lapped = FALSE
      /\ at_stop = [m \in Markers |-> 0]
  BY Zenon DEF Init
<1>2. PICK n \in Nat \ {0} : n = get_num_validators(cfg) /\ n <= TotalMarkers
  BY <1>1, TeamSize, Zenon
<1>3. PICK own \in [0..(n - 1) -> UNION {distribute_markers(v) : v \in 0..(n - 1)}] :
        /\ \A v \in 0..(n - 1) : own[v] \in distribute_markers(v)
        /\ validators = [v \in 0..(n - 1) |-> NewThread(own[v])]
  BY <1>2, Zenon DEF Init, NewThread
<1>4. /\ \A v \in 0..(n - 1) : Share(v, n) \in Nat /\ Dealt(v, n) \subseteq Markers
      /\ \A m \in Markers : \E v \in 0..(n - 1) : m \in Dealt(v, n)
      /\ \A v, w \in 0..(n - 1) : \A m \in Dealt(v, n) : m \in Dealt(w, n) => v = w
  BY <1>1, <1>2, DealtParts, Zenon
<1>5. ASSUME NEW v \in 0..(n - 1)
      PROVE  /\ own[v] \in Seq(Markers)
             /\ \A i \in 1..Len(own[v]) : own[v][i] \in Dealt(v, n)
             /\ \A m \in Dealt(v, n) : \E i \in 1..Len(own[v]) : own[v][i] = m
             /\ \A i, j \in 1..Len(own[v]) : own[v][i] = own[v][j] => i = j
  <2>1. Share(v, n) \in Nat /\ Dealt(v, n) \subseteq Markers
    BY <1>4, <1>5, Zenon
  <2>2. own[v] \in distribute_markers(v) /\ n = get_num_validators(cfg)
    BY <1>2, <1>3, <1>5, Zenon
  <2>3. ListsDealt(own[v], v, n)
    BY <2>1, <2>2, ListsOf, Zenon
  <2> QED  BY <2>3, Zenon DEF ListsDealt
<1>6. DOMAIN validators = 0..(n - 1) /\ Validators = 0..(n - 1)
  BY <1>3, Zenon DEF Validators
<1>7. ASSUME NEW v \in 0..(n - 1)
      PROVE  /\ validators[v] \in ThreadState /\ validators[v].own_markers = own[v]
             /\ validators[v].pc = "none" /\ validators[v].k = 0 /\ ~ validators[v].draining
  <2>1. validators[v] = NewThread(own[v])
    BY <1>3, <1>7, Zenon
  <2>2. own[v] \in Seq(Markers)
    BY <1>5, <1>7, Zenon
  <2>3. PICK list \in Seq(Markers) : list = own[v]
    BY <2>2, Zenon
  <2>4. /\ NewThread(list) \in ThreadState
        /\ NewThread(list).pc = "none" /\ NewThread(list).own_markers = list
        /\ NewThread(list).k = 0 /\ ~ NewThread(list).draining
    BY NewThreadIs, Zenon
  <2> QED  BY <2>1, <2>3, <2>4, Zenon
<1>8. OneOwner
  <2>1. ASSUME NEW m \in Markers
        PROVE  \E v \in Validators : \E i \in 1..Len(validators[v].own_markers) :
                 validators[v].own_markers[i] = m
    <3>1. PICK v \in 0..(n - 1) : m \in Dealt(v, n)
      BY <1>4, <2>1, Zenon
    <3>2. PICK i \in 1..Len(own[v]) : own[v][i] = m
      BY <1>5, <3>1, Zenon
    <3> QED  BY <1>6, <1>7, <3>1, <3>2, Zenon
  <2>2. ASSUME NEW v \in Validators, NEW w \in Validators,
               NEW i \in 1..Len(validators[v].own_markers), NEW j \in 1..Len(validators[w].own_markers),
               validators[v].own_markers[i] = validators[w].own_markers[j]
        PROVE  v = w /\ i = j
    <3>1. v \in 0..(n - 1) /\ w \in 0..(n - 1)
      BY <1>6, <2>2, Zenon
    <3>2. i \in 1..Len(own[v]) /\ j \in 1..Len(own[w]) /\ own[v][i] = own[w][j]
      BY <1>7, <2>2, <3>1, Zenon
    <3>3. own[v][i] \in Dealt(v, n) /\ own[v][i] \in Dealt(w, n)
      BY <1>5, <3>1, <3>2, Zenon
    <3>4. v = w
      BY <1>4, <3>1, <3>3, Zenon
    <3> QED  BY <1>5, <3>1, <3>2, <3>4, Zenon
  <2> QED  BY <2>1, <2>2, Zenon DEF OneOwner
<1>9. TeamOK
  <2>1. validators \in [0..(n - 1) -> ThreadState]
    <3>1. validators = [v \in 0..(n - 1) |-> validators[v]]
      BY <1>3, Zenon
    <3> QED  BY <1>7, <3>1, Zenon
  <2>2. stats \in [validated : Nat, skipped : Nat, errors : Nat]
    BY <1>1
  <2>3. 0 \in Nat
    OBVIOUS
  <2>4. last_seen \in [Markers -> Nat] /\ at_stop \in [Markers -> Nat]
    BY <1>1, <2>3, Zenon
  <2>5. /\ stop_flag \in BOOLEAN /\ lapped \in BOOLEAN
        /\ main \in {"starting", "waiting", "run", "failing", "destroying", "joining",
                     "passed", "not passed", "failed", "destroyed"}
    BY <1>1, Zenon
  <2> QED  BY <1>2, <2>1, <2>2, <2>4, <2>5, Zenon DEF TeamOK
<1>10. Started
  <2>1. Created = 0..(0 - 1)
    <3>1. Created = {}
      BY <1>6, <1>7, Zenon DEF Created
    <3>2. 0..(0 - 1) = {}
      OBVIOUS
    <3> QED  BY <3>1, <3>2, Zenon
  <2>2. 0 \in Validators
    <3>1. 0 \in 0..(n - 1)
      BY <1>2
    <3> QED  BY <1>6, <3>1, Zenon
  <2>3. \E i \in Validators : Created = 0..(i - 1)
    BY <2>1, <2>2, Zenon
  <2>4. /\ stop_flag = (main \notin {"starting", "waiting", "run"})
        /\ main \notin {"waiting", "run", "joining", "destroying", "passed", "not passed"}
        /\ main \notin {"passed", "not passed"}
    BY <1>1, Zenon
  <2> QED  BY <2>3, <2>4, Zenon DEF Started
<1>11. NoFalseAlarm
  <2>1. stats.errors = 0
    BY <1>1
  <2>2. ~ (stats.errors > 0)
    BY <2>1
  <2> QED  BY <2>2, Zenon DEF NoFalseAlarm
<1>12. ASSUME NEW v \in Validators PROVE Looking(v) /\ Draining(v)
  <2>1. validators[v].pc = "none" /\ validators[v].k = 0 /\ ~ validators[v].draining
    BY <1>6, <1>7, <1>12, Zenon
  <2>2. ~ Scanning(v) /\ validators[v].pc # "again" /\ validators[v].pc # "snap" /\ validators[v].pc # "ended"
    BY <2>1 DEF Scanning
  <2> QED  BY <2>1, <2>2, Zenon DEF Looking, Draining
<1>13. ASSUME NEW m \in Markers PROVE last_seen[m] <= Marker(m) /\ at_stop[m] <= Marker(m)
  <2>1. last_seen[m] = 0 /\ at_stop[m] = 0 /\ Marker(m) = 0
    BY <1>1, <1>13, InitNet, Zenon
  <2>2. 0 <= 0
    OBVIOUS
  <2> QED  BY <2>1, <2>2, Zenon
<1>14. AddsUpTo(Seen, stats.validated + stats.skipped)
  <2>1. ASSUME NEW m \in Markers PROVE Seen[m] = 0
    <3>1. ~ Handled(m)
      <4>1. \A v \in Validators : ~ Scanning(v)
        BY <1>6, <1>7, Zenon DEF Scanning
      <4> QED  BY <4>1, Zenon DEF Handled
    <3>2. last_seen[m] = 0
      BY <1>1, <2>1, Zenon
    <3> QED  BY <2>1, <3>1, <3>2, Zenon DEF Seen
  <2>2. stats.validated + stats.skipped = 0
    BY <1>1
  <2>3. AddsUpTo(Seen, 0)
    BY <1>1, <2>1, AddsZero, Zenon
  <2> QED  BY <2>2, <2>3, Zenon
<1> QED  BY <1>8, <1>9, <1>10, <1>11, <1>12, <1>13, <1>14, Zenon DEF TeamInv

-----------------------------------------------------------------------------
(* Steps of the sender and the fabric.                                     *)

(* The facts a thread relies on: markers and rounds only go forward. *)
Forward ==
  /\ \A m \in Markers : Marker(m)' >= Marker(m)
  /\ \A p \in Qps, s \in 0..(Slots - 1) : Reached(p, s)' >= Reached(p, s)
  /\ faults' = 0 => faults = 0

LEMMA SameRound ==
    ASSUME TypeOK, cfg' = cfg, UNCHANGED <<landed, flush, tail_markers, returns, faults>>
    PROVE  Forward
<1>1. ASSUME NEW m \in Markers PROVE Marker(m)' = Marker(m) /\ Marker(m) \in Nat
  BY TypesMarker, Zenon DEF Marker
<1>2. ASSUME NEW p \in Qps, NEW s \in 0..(Slots - 1)
      PROVE  Reached(p, s)' = Reached(p, s) /\ Reached(p, s) \in Int
  <2>1. landed[p] \in Nat /\ cfg \in Configs
    BY TypesQp, TypesCfg, Zenon
  <2>2. RoundsAt(landed[p], s) \in Nat
    BY <2>1, RoundsOf, Zenon
  <2>3. Reached(p, s)' = Reached(p, s) /\ Reached(p, s) = ReachedAt(landed[p], flush[p], s)
    BY ReachedAre, Zenon
  <2> QED  BY <2>2, <2>3 DEF ReachedAt
<1>3. \A m \in Markers : Marker(m)' >= Marker(m)
  BY <1>1
<1>4. \A p \in Qps, s \in 0..(Slots - 1) : Reached(p, s)' >= Reached(p, s)
  BY <1>2
<1> QED  BY <1>3, <1>4, Zenon DEF Forward

LEMMA NextPlace ==
    ASSUME cfg \in Configs, NEW n \in Nat
    PROVE  /\ n % Slots \in 0..(Slots - 1) /\ n \div Slots \in Nat
           /\ (n + 1) % Slots = (IF (n % Slots) + 1 = Slots THEN 0 ELSE (n % Slots) + 1)
           /\ (n + 1) \div Slots = (n \div Slots) + (IF (n % Slots) + 1 = Slots THEN 1 ELSE 0)
<1>1. PICK S \in Nat \ {0} : S = Slots
  BY Sizes DEF Pos
<1>2. PICK d \in Int, r \in 0..(S - 1) : d = n \div S /\ r = n % S /\ n = d * S + r
  BY DivMod
<1>3. d \in Nat
  BY <1>2
<1>4. CASE r + 1 = S
  <2>1. n + 1 = (d + 1) * S + 0 /\ d + 1 \in Int /\ 0 \in 0..(S - 1)
    BY <1>2, <1>4
  <2>2. ((d + 1) * S + 0) \div S = d + 1 /\ ((d + 1) * S + 0) % S = 0
    BY <2>1, DivIs, Zenon
  <2>3. (n + 1) \div S = d + 1 /\ (n + 1) % S = 0
    BY <2>1, <2>2, Zenon
  <2> QED  BY <1>1, <1>2, <1>3, <1>4, <2>3, Zenon
<1>5. CASE r + 1 # S
  <2>1. n + 1 = d * S + (r + 1) /\ r + 1 \in 0..(S - 1)
    BY <1>2, <1>5
  <2>2. (d * S + (r + 1)) \div S = d /\ (d * S + (r + 1)) % S = r + 1
    BY <2>1, DivIs, Zenon
  <2>3. (n + 1) \div S = d /\ (n + 1) % S = r + 1 /\ d = d + 0
    BY <2>1, <2>2
  <2> QED  BY <1>1, <1>2, <1>3, <1>5, <2>3, Zenon
<1> QED  BY <1>4, <1>5, Zenon

LEMMA NextPattern ==
    ASSUME NEW d \in Nat
    PROVE  ((d % 3) + 1) % 3 = (d + 1) % 3 /\ 1 + ((d % 3) % 3) = 1 + (d % 3)
  OBVIOUS

(* The operations that a post puts on the wire. *)
DataOf(q) ==
  [op |-> "data", nr |-> ctx[q].scnt, slot |-> ctx[q].recv_off,
   value |-> validation_cycle_to_pattern(ctx[q].send_off), signaled |-> Signaled(ctx[q].scnt)]
AddOf(q) ==
  [op |-> "add", nr |-> ctx[q].scnt, marker |-> MarkerOf(q, ctx[q].recv_off \div cfg.ops)]

LEMMA PostIs ==
    ASSUME TypeOK, NEW q \in Qps, Post(q)
    PROVE  /\ wire' = [wire EXCEPT ![q] = wire[q] \o <<DataOf(q)>>
                                           \o IF ChainAtomic(ctx[q].recv_off) THEN <<AddOf(q)>> ELSE <<>>]
           /\ ctx'[q].scnt = ctx[q].scnt + 1
           /\ ctx'[q].recv_off = (IF ctx[q].recv_off + 1 = Slots THEN 0 ELSE ctx[q].recv_off + 1)
           /\ ctx'[q].send_off =
                (IF ctx[q].recv_off + 1 = Slots THEN (ctx[q].send_off + 1) % 3 ELSE ctx[q].send_off)
           /\ \A p \in Qps \ {q} : ctx'[p] = ctx[p]
           /\ ctx' \in [Qps -> [scnt : Nat, ccnt : Nat, recv_off : Nat, send_off : Nat]]
           /\ UNCHANGED <<cfg, cqe, fabric, threads, stop_flag, main, at_stop>>
<1> DEFINE me == ctx[q]
           recv == IF me.recv_off + 1 = Slots THEN 0 ELSE me.recv_off + 1
           send == IF me.recv_off + 1 = Slots THEN (me.send_off + 1) % 3 ELSE me.send_off
           new == [me EXCEPT !.scnt = me.scnt + 1, !.recv_off = recv, !.send_off = send]
<1>1. ctx' = [ctx EXCEPT ![q] = new]
  BY Zenon DEF Post
<1>2. ctx \in [Qps -> [scnt : Nat, ccnt : Nat, recv_off : Nat, send_off : Nat]]
  BY Zenon DEF TypeOK
<1>3. me \in [scnt : Nat, ccnt : Nat, recv_off : Nat, send_off : Nat]
  BY <1>2
<1>4. /\ new.scnt = me.scnt + 1 /\ new.recv_off = recv /\ new.send_off = send
      /\ new \in [scnt : Nat, ccnt : Nat, recv_off : Nat, send_off : Nat]
  <2>1. me.scnt + 1 \in Nat /\ recv \in Nat /\ send \in Nat
    BY <1>3
  <2> HIDE DEF recv, send
  <2> QED  BY <1>3, <2>1, Zenon
<1> HIDE DEF new
<1>5. ctx'[q] = new /\ \A p \in Qps \ {q} : ctx'[p] = ctx[p]
  BY <1>1, <1>2
<1>6. ctx' \in [Qps -> [scnt : Nat, ccnt : Nat, recv_off : Nat, send_off : Nat]]
  BY <1>1, <1>2, <1>4
<1>7. wire' = [wire EXCEPT ![q] = wire[q] \o <<DataOf(q)>>
                                    \o IF ChainAtomic(ctx[q].recv_off) THEN <<AddOf(q)>> ELSE <<>>]
  BY Zenon DEF Post, DataOf, AddOf
<1>8. UNCHANGED <<cfg, cqe, fabric, threads, stop_flag, main, at_stop>>
  BY Zenon DEF Post
<1> QED  BY <1>4, <1>5, <1>6, <1>7, <1>8, Zenon

LEMMA PostOps ==
    ASSUME TypeOK, NEW q \in Qps, InSequence(q)
    PROVE  /\ DataOf(q) \in Op /\ AddOf(q) \in Op
           /\ DataOf(q).op = "data" /\ DataOf(q).nr = ctx[q].scnt /\ Formed(q, DataOf(q))
           /\ AddOf(q).op = "add" /\ AddOf(q).nr = ctx[q].scnt
           /\ Closes(ctx[q].scnt) => Formed(q, AddOf(q))
           /\ Closes(ctx[q].scnt) <=> ChainAtomic(ctx[q].recv_off)
<1>1. cfg \in Configs /\ ctx[q].scnt \in Nat
  BY TypesCfg, TypesQp, Zenon
<1>2. PICK n \in Nat, r \in {ctx[q].recv_off}, g \in {ctx[q].send_off} :
        /\ n = ctx[q].scnt /\ r = ctx[q].recv_off /\ g = ctx[q].send_off
        /\ r = n % Slots /\ g = (n \div Slots) % 3
  BY <1>1, SequenceNow, Zenon
<1>3. n % Slots \in 0..(Slots - 1) /\ n \div Slots \in Nat
  BY <1>1, NextPlace, Zenon
<1>4. cfg.ops \in Pos /\ cfg.chunks \in Pos /\ Slots \in Pos /\ q \in Nat
  BY <1>1, Sizes DEF Qps, Pos
<1>5. r \in Nat
  BY <1>2, <1>3, <1>4 DEF Pos
<1>6. validation_cycle_to_pattern(g) = validation_cycle_to_pattern(n \div Slots)
      /\ validation_cycle_to_pattern(g) \in 1..3
  <2>1. PICK d \in Nat : d = n \div Slots
    BY <1>3, Zenon
  <2>2. g = d % 3
    BY <1>2, <2>1, Zenon
  <2>3. 1 + ((d % 3) % 3) = 1 + (d % 3) /\ 1 + (d % 3) \in 1..3
    OBVIOUS
  <2> QED  BY <2>1, <2>2, <2>3, Zenon DEF validation_cycle_to_pattern
<1>7. MarkerOf(q, r \div cfg.ops) \in Nat
  <2>1. PICK o \in Nat \ {0}, c \in Nat \ {0} : o = cfg.ops /\ c = cfg.chunks
    BY <1>4 DEF Pos
  <2>2. r \div o \in Nat
    BY <1>5
  <2>3. q * c \in Nat
    BY <1>4
  <2>4. q * c + (r \div o) \in Nat
    BY <2>2, <2>3
  <2> QED  BY <2>1, <2>4, Zenon DEF MarkerOf
<1>8. DataOf(q) = [op |-> "data", nr |-> n, slot |-> r, value |-> validation_cycle_to_pattern(g),
                   signaled |-> Signaled(n)]
  BY <1>2, Zenon DEF DataOf
<1>9. AddOf(q) = [op |-> "add", nr |-> n, marker |-> MarkerOf(q, r \div cfg.ops)]
  BY <1>2, Zenon DEF AddOf
<1>10. Signaled(n) \in BOOLEAN
  BY Zenon DEF Signaled
<1>11. DataOf(q) \in Op
  <2>1. [op |-> "data", nr |-> n, slot |-> r, value |-> validation_cycle_to_pattern(g),
         signaled |-> Signaled(n)] \in [op : {"data"}, nr : Nat, slot : Nat, value : 1..3, signaled : BOOLEAN]
    BY <1>5, <1>6, <1>10
  <2> QED  BY <1>8, <2>1, Zenon DEF Op
<1>12. AddOf(q) \in Op
  <2>1. [op |-> "add", nr |-> n, marker |-> MarkerOf(q, r \div cfg.ops)] \in [op : {"add"}, nr : Nat, marker : Nat]
    BY <1>7
  <2> QED  BY <1>9, <2>1, Zenon DEF Op
<1>13. /\ DataOf(q).op = "data" /\ DataOf(q).nr = n /\ DataOf(q).slot = r
       /\ DataOf(q).value = validation_cycle_to_pattern(g)
       /\ AddOf(q).op = "add" /\ AddOf(q).nr = n /\ AddOf(q).marker = MarkerOf(q, r \div cfg.ops)
  BY <1>8, <1>9
<1>14. Formed(q, DataOf(q))
  BY <1>2, <1>6, <1>13, Zenon DEF Formed
<1>15. Closes(n) => Formed(q, AddOf(q))
  <2>1. "add" # "data"
    OBVIOUS
  <2> QED  BY <1>2, <1>13, <2>1, Zenon DEF Formed
<1> QED  BY <1>2, <1>11, <1>12, <1>13, <1>14, <1>15, Zenon DEF Closes

(* What one or two more elements make of a sequence. *)
LEMMA PutTwo ==
    ASSUME NEW S, NEW s \in Seq(S), NEW d \in S, NEW a \in S, NEW c \in BOOLEAN,
           NEW nx, nx = s \o <<d>> \o IF c THEN <<a>> ELSE <<>>
    PROVE  /\ nx \in Seq(S) /\ Len(nx) = Len(s) + (IF c THEN 2 ELSE 1) /\ nx # <<>>
           /\ \A i \in 1..Len(s) : nx[i] = s[i]
           /\ nx[Len(s) + 1] = d /\ (c => nx[Len(s) + 2] = a)
           /\ s = <<>> => Head(nx) = d
           /\ s # <<>> => Head(nx) = Head(s)
<1> DEFINE t == s \o <<d>>
<1>1. /\ t \in Seq(S) /\ Len(t) = Len(s) + 1 /\ t[Len(s) + 1] = d /\ Len(s) \in Nat
      /\ \A i \in 1..Len(s) : t[i] = s[i]
  OBVIOUS
<1>2. s = <<>> => Len(s) = 0
  OBVIOUS
<1>3. s # <<>> => Len(s) > 0 /\ Head(s) = s[1]
  OBVIOUS
<1>4. nx = t \o IF c THEN <<a>> ELSE <<>>
  OBVIOUS
<1> HIDE DEF t
<1>5. CASE c
  <2>1. nx = t \o <<a>>
    BY <1>5, <1>4
  <2>2. /\ nx \in Seq(S) /\ Len(nx) = Len(t) + 1 /\ nx[Len(t) + 1] = a
        /\ \A i \in 1..Len(t) : nx[i] = t[i]
    BY <1>1, <2>1
  <2>3. /\ Len(nx) = Len(s) + 2 /\ nx[Len(s) + 2] = a /\ nx[Len(s) + 1] = d
        /\ \A i \in 1..Len(s) : nx[i] = s[i]
    BY <1>1, <2>2
  <2>4. nx # <<>> /\ Head(nx) = nx[1]
    BY <2>2, <2>3
  <2>5. /\ s = <<>> => Head(nx) = d
        /\ s # <<>> => Head(nx) = Head(s)
    <3>0. Len(s) = 0 => Len(s) + 1 = 1
      OBVIOUS
    <3>1. Len(s) = 0 => nx[1] = d
      BY <2>3, <3>0, Zenon
    <3>2. Len(s) > 0 => nx[1] = s[1]
      BY <1>1, <2>3
    <3> QED  BY <1>2, <1>3, <2>4, <3>1, <3>2, Zenon
  <2> QED  BY <1>5, <2>2, <2>3, <2>4, <2>5, Zenon
<1>6. CASE ~ c
  <2>1. nx = t
    BY <1>1, <1>6, <1>4
  <2>4. nx # <<>> /\ Head(nx) = nx[1]
    BY <1>1, <2>1
  <2>5. /\ s = <<>> => Head(nx) = d
        /\ s # <<>> => Head(nx) = Head(s)
    BY <1>1, <1>2, <1>3, <2>1, <2>4
  <2> QED  BY <1>1, <1>6, <2>1, <2>4, <2>5
<1> QED  BY <1>5, <1>6, Zenon

LEMMA PostStep ==
    ASSUME TypeOK, NetInv, NEW q \in Qps, Post(q)
    PROVE  NetOK' /\ NetInv' /\ Forward
<1> DEFINE nx == wire'[q]
<1>1. /\ wire' = [wire EXCEPT ![q] = wire[q] \o <<DataOf(q)>>
                                       \o IF ChainAtomic(ctx[q].recv_off) THEN <<AddOf(q)>> ELSE <<>>]
      /\ ctx'[q].scnt = ctx[q].scnt + 1
      /\ ctx'[q].recv_off = (IF ctx[q].recv_off + 1 = Slots THEN 0 ELSE ctx[q].recv_off + 1)
      /\ ctx'[q].send_off =
           (IF ctx[q].recv_off + 1 = Slots THEN (ctx[q].send_off + 1) % 3 ELSE ctx[q].send_off)
      /\ \A p \in Qps \ {q} : ctx'[p] = ctx[p]
      /\ ctx' \in [Qps -> [scnt : Nat, ccnt : Nat, recv_off : Nat, send_off : Nat]]
      /\ UNCHANGED <<cfg, cqe, fabric, threads, stop_flag, main, at_stop>>
  BY PostIs, Zenon
<1>2. cfg' = cfg /\ UNCHANGED <<cqe, landed, mem, flush, tail_markers, returns, faults>>
  BY <1>1, Zenon DEF fabric
<1>3. InSequence(q)
  BY Zenon DEF NetInv
<1>4. /\ cfg \in Configs /\ wire \in [Qps -> Seq(Op)] /\ wire[q] \in Seq(Op) /\ landed[q] \in Nat
      /\ ctx[q].scnt \in Nat
  BY TypesCfg, TypesQp, Zenon DEF TypeOK
<1>5. /\ DataOf(q) \in Op /\ AddOf(q) \in Op
      /\ DataOf(q).op = "data" /\ DataOf(q).nr = ctx[q].scnt /\ Formed(q, DataOf(q))
      /\ AddOf(q).op = "add" /\ AddOf(q).nr = ctx[q].scnt
      /\ Closes(ctx[q].scnt) => Formed(q, AddOf(q))
      /\ Closes(ctx[q].scnt) <=> ChainAtomic(ctx[q].recv_off)
  BY <1>3, PostOps, Zenon
<1>6. /\ nx = wire[q] \o <<DataOf(q)>> \o IF ChainAtomic(ctx[q].recv_off) THEN <<AddOf(q)>> ELSE <<>>
      /\ \A p \in Qps \ {q} : wire'[p] = wire[p]
  BY <1>1, <1>4, Zenon
<1>7. ChainAtomic(ctx[q].recv_off) \in BOOLEAN
  BY Zenon DEF ChainAtomic
<1> HIDE DEF nx
<1>8. /\ nx \in Seq(Op) /\ Len(nx) = Len(wire[q]) + (IF ChainAtomic(ctx[q].recv_off) THEN 2 ELSE 1)
      /\ nx # <<>>
      /\ \A i \in 1..Len(wire[q]) : nx[i] = wire[q][i]
      /\ nx[Len(wire[q]) + 1] = DataOf(q)
      /\ (ChainAtomic(ctx[q].recv_off) => nx[Len(wire[q]) + 2] = AddOf(q))
      /\ wire[q] = <<>> => Head(nx) = DataOf(q)
      /\ wire[q] # <<>> => Head(nx) = Head(wire[q])
  <2>1. CASE ChainAtomic(ctx[q].recv_off)
    <3>1. nx = wire[q] \o <<DataOf(q)>> \o IF TRUE THEN <<AddOf(q)>> ELSE <<>>
      BY <1>6, <2>1
    <3>2. /\ nx \in Seq(Op) /\ Len(nx) = Len(wire[q]) + (IF TRUE THEN 2 ELSE 1) /\ nx # <<>>
          /\ \A i \in 1..Len(wire[q]) : nx[i] = wire[q][i]
          /\ nx[Len(wire[q]) + 1] = DataOf(q) /\ (TRUE => nx[Len(wire[q]) + 2] = AddOf(q))
          /\ wire[q] = <<>> => Head(nx) = DataOf(q)
          /\ wire[q] # <<>> => Head(nx) = Head(wire[q])
      BY <1>4, <1>5, <3>1, PutTwo, SMTT(20)
    <3> QED  BY <2>1, <3>2, Zenon
  <2>2. CASE ~ ChainAtomic(ctx[q].recv_off)
    <3>1. nx = wire[q] \o <<DataOf(q)>> \o IF FALSE THEN <<AddOf(q)>> ELSE <<>>
      BY <1>6, <2>2
    <3>2. /\ nx \in Seq(Op) /\ Len(nx) = Len(wire[q]) + (IF FALSE THEN 2 ELSE 1) /\ nx # <<>>
          /\ \A i \in 1..Len(wire[q]) : nx[i] = wire[q][i]
          /\ nx[Len(wire[q]) + 1] = DataOf(q) /\ (FALSE => nx[Len(wire[q]) + 2] = AddOf(q))
          /\ wire[q] = <<>> => Head(nx) = DataOf(q)
          /\ wire[q] # <<>> => Head(nx) = Head(wire[q])
      BY <1>4, <1>5, <3>1, PutTwo, SMTT(20)
    <3> QED  BY <2>2, <3>2, Zenon
  <2> QED  BY <2>1, <2>2, Zenon
<1>9. wire' \in [Qps -> Seq(Op)]
  BY <1>1, <1>4, <1>6, <1>8, Zenon DEF nx
<1>10. NetOK'
  BY <1>1, <1>2, <1>9, Places, Zenon DEF TypeOK, NetOK
<1>11. InSequence(q)'
  <2>1. Chain(q, wire[q], landed[q], ctx[q].scnt)
    BY <1>3, SequenceNow, Zenon
  <2>2. Len(nx) = Len(wire[q]) + (IF Closes(ctx[q].scnt) THEN 2 ELSE 1)
    BY <1>5, <1>8, Zenon
  <2>3. Chain(q, nx, landed[q], ctx[q].scnt + 1)
    BY <1>4, <1>5, <1>8, <2>1, <2>2, ChainPut, Zenon
  <2>4. ctx[q].recv_off = ctx[q].scnt % Slots /\ ctx[q].send_off = (ctx[q].scnt \div Slots) % 3
    BY <1>3, SequenceNow, Zenon
  <2>5. PICK n \in Nat : n = ctx[q].scnt
    BY <1>4, Zenon
  <2>6. /\ n \div Slots \in Nat
        /\ (n + 1) % Slots = (IF (n % Slots) + 1 = Slots THEN 0 ELSE (n % Slots) + 1)
        /\ (n + 1) \div Slots = (n \div Slots) + (IF (n % Slots) + 1 = Slots THEN 1 ELSE 0)
    BY <1>4, NextPlace, Zenon
  <2>7. ctx'[q].recv_off = (n + 1) % Slots
    BY <1>1, <2>4, <2>5, <2>6, Zenon
  <2>8. ctx'[q].send_off = ((n + 1) \div Slots) % 3
    <3>1. PICK d \in Nat : d = n \div Slots
      BY <2>6, Zenon
    <3>2. ((d % 3) + 1) % 3 = (d + 1) % 3 /\ d % 3 = (d + 0) % 3
      BY NextPattern
    <3>3. ctx'[q].send_off = IF (n % Slots) + 1 = Slots THEN ((d % 3) + 1) % 3 ELSE d % 3
      BY <1>1, <2>4, <2>5, <3>1, Zenon
    <3> QED  BY <2>6, <3>1, <3>2, <3>3, Zenon
  <2> QED  BY <1>1, <1>2, <2>3, <2>5, <2>7, <2>8, SequenceNext, Zenon DEF nx
<1>12. ASSUME NEW p \in Qps PROVE InSequence(p)' /\ InMemory(p)'
  <2>1. InMemory(p)'
    BY <1>2, MemoryIs, Zenon DEF NetInv
  <2>2. ASSUME p # q PROVE InSequence(p)'
    <3>1. InSequence(p) /\ ctx'[p] = ctx[p] /\ wire'[p] = wire[p]
      BY <1>1, <1>6, <2>2, Zenon DEF NetInv
    <3> QED  BY <1>2, <3>1, SequenceNow, SequenceNext, Zenon
  <2> QED  BY <1>11, <2>1, <2>2, Zenon
<1>13. ASSUME NEW m \in Markers PROVE Added(m)' = Added(m)
  <2>1. QpOf(m) \in Qps
    BY <1>4, MarkerParts, Zenon
  <2>2. Due(nx, m) = Due(wire[q], m)
    <3>1. "add" # "data"
      OBVIOUS
    <3> QED  BY <1>5, <1>8, <3>1, Zenon DEF Due
  <2>3. Due(wire'[QpOf(m)], m) = Due(wire[QpOf(m)], m)
    BY <1>6, <2>1, <2>2, Zenon DEF nx
  <2> QED  BY <1>2, <2>3, AddedIs, Zenon
<1>14. MarkersCount'
  BY <1>2, <1>13, MarkersCountIs, Zenon DEF NetInv, MarkersCount
<1>15. Forward
  BY <1>2, SameRound, Zenon
<1> QED  BY <1>2, <1>10, <1>12, <1>14, <1>15, Places, Zenon DEF NetInv

LEMMA PollStep ==
    ASSUME TypeOK, NetInv, NEW q \in Qps, Poll(q)
    PROVE  NetOK' /\ NetInv' /\ Forward
<1>1. /\ cfg' = cfg /\ UNCHANGED <<wire, landed, mem, flush, tail_markers, returns, faults>>
      /\ cqe' = [cqe EXCEPT ![q] = @ - 1]
      /\ ctx' = [ctx EXCEPT ![q].ccnt = Least(@ + cfg.cq_mod, cfg.iters)]
  BY Zenon DEF Poll, fabric
<1>2. cfg \in Configs
  BY TypesCfg, Zenon
<1>3. ctx \in [Qps -> [scnt : Nat, ccnt : Nat, recv_off : Nat, send_off : Nat]] /\ cqe \in [Qps -> Int]
  BY Zenon DEF TypeOK
<1>4. cfg.cq_mod \in Nat /\ cfg.iters \in Nat
  BY <1>2, Sizes DEF Pos
<1>5. PICK c \in Nat : ctx' = [ctx EXCEPT ![q].ccnt = c]
  <2>1. ctx[q].ccnt \in Nat
    BY <1>3
  <2>2. Least(ctx[q].ccnt + cfg.cq_mod, cfg.iters) \in Nat
    BY <1>4, <2>1 DEF Least
  <2> QED  BY <1>1, <2>2, Zenon
<1>6. /\ ctx' \in [Qps -> [scnt : Nat, ccnt : Nat, recv_off : Nat, send_off : Nat]]
      /\ \A p \in Qps : /\ ctx'[p].scnt = ctx[p].scnt /\ ctx'[p].recv_off = ctx[p].recv_off
                        /\ ctx'[p].send_off = ctx[p].send_off
  BY <1>3, <1>5
<1>7. cqe' \in [Qps -> Int]
  BY <1>1, <1>3
<1>8. NetOK'
  BY <1>1, <1>6, <1>7, Places, Zenon DEF TypeOK, NetOK
<1>9. ASSUME NEW p \in Qps PROVE InSequence(p)' /\ InMemory(p)'
  <2>1. InMemory(p)'
    BY <1>1, MemoryIs, Zenon DEF NetInv
  <2>2. InSequence(p)
    BY Zenon DEF NetInv
  <2> QED  BY <1>1, <1>6, <2>1, <2>2, SequenceNow, SequenceNext, Zenon
<1>10. MarkersCount'
  BY <1>1, AddedIs, MarkersCountIs, Zenon DEF NetInv, MarkersCount
<1>11. Forward
  BY <1>1, SameRound, Zenon
<1> QED  BY <1>1, <1>8, <1>9, <1>10, <1>11, Places, Zenon DEF NetInv

(* The message that arrives is the next, for the next slot. *)
LEMMA NextMessage ==
    ASSUME TypeOK, NEW q \in Qps, InSequence(q), wire[q] # <<>>, Head(wire[q]).op = "data"
    PROVE  /\ Head(wire[q]).slot = landed[q] % Slots /\ landed[q] % Slots \in 0..(Slots - 1)
           /\ Head(wire[q]).value \in 1..3 /\ Head(wire[q]).signaled \in BOOLEAN
           /\ Head(wire[q]).value = Pattern(RoundsAt(landed[q], landed[q] % Slots) + 1)
           /\ Chain(q, Tail(wire[q]), landed[q] + 1, ctx[q].scnt)
           /\ ChainAtomic(landed[q] % Slots) =>
                /\ Tail(wire[q]) # <<>> /\ Head(Tail(wire[q])).op = "add"
                /\ Head(Tail(wire[q])).marker = MarkerOf(q, (landed[q] % Slots) \div cfg.ops)
           /\ ~ ChainAtomic(landed[q] % Slots) /\ Tail(wire[q]) # <<>> =>
                Head(Tail(wire[q])).op = "data"
<1>1. cfg \in Configs /\ wire[q] \in Seq(Op) /\ landed[q] \in Nat /\ ctx[q].scnt \in Nat
  BY TypesCfg, TypesQp, Zenon
<1>2. PICK L \in Nat : L = landed[q]
  BY <1>1, Zenon
<1>3. Chain(q, wire[q], L, ctx[q].scnt)
  BY <1>2, SequenceNow, Zenon
<1>4. /\ Formed(q, Head(wire[q])) /\ Head(wire[q]).nr = L
      /\ Chain(q, Tail(wire[q]), L + 1, ctx[q].scnt)
      /\ Closes(L) => Tail(wire[q]) # <<>> /\ Head(Tail(wire[q])).op = "add"
                      /\ Head(Tail(wire[q])).nr = L /\ Formed(q, Head(Tail(wire[q])))
      /\ ~ Closes(L) /\ Tail(wire[q]) # <<>> => Head(Tail(wire[q])).op = "data"
  BY <1>1, <1>3, ChainHead, Zenon
<1>5. Head(wire[q]).slot = L % Slots /\ Head(wire[q]).value = validation_cycle_to_pattern(L \div Slots)
  BY <1>4, Zenon DEF Formed
<1>6. Head(wire[q]) \in Op
  BY <1>1
<1>7. Head(wire[q]).value \in 1..3 /\ Head(wire[q]).signaled \in BOOLEAN
  BY <1>6 DEF Op
<1>8. L % Slots \in 0..(Slots - 1) /\ L \div Slots \in Nat
  BY <1>1, NextPlace, Zenon
<1>9. RoundsAt(L, L % Slots) = L \div Slots
  <2>1. RoundsAt(L, L % Slots) = (L \div Slots) + (IF L % Slots < L % Slots THEN 1 ELSE 0)
    BY <1>1, <1>8, RoundsOf, Zenon
  <2>2. ~ (L % Slots < L % Slots)
    BY <1>8
  <2> QED  BY <1>8, <2>1, <2>2
<1>10. Pattern(RoundsAt(L, L % Slots) + 1) = validation_cycle_to_pattern(L \div Slots)
  <2>1. PICK d \in Nat : d = L \div Slots
    BY <1>8, Zenon
  <2>2. d + 1 # 0 /\ d + 1 - 1 = d
    OBVIOUS
  <2>3. Pattern(d + 1) = validation_cycle_to_pattern(d)
    BY <2>2 DEF Pattern, validation_cycle_to_pattern
  <2> QED  BY <1>9, <2>1, <2>3, Zenon
<1>11. Closes(L) => Head(Tail(wire[q])).marker = MarkerOf(q, (L % Slots) \div cfg.ops)
  <2>1. "add" # "data"
    OBVIOUS
  <2> QED  BY <1>4, <2>1, Zenon DEF Formed
<1> QED  BY <1>2, <1>4, <1>5, <1>7, <1>8, <1>10, <1>11, Zenon DEF Closes

(* An arrival of a round's last message makes its fetch-and-add the next
   operation, so that no marker changes its place. *)
LEMMA AddedOnArrival ==
    ASSUME TypeOK, NEW q \in Qps, InSequence(q), wire[q] # <<>>, Head(wire[q]).op = "data",
           cfg' = cfg, landed' = [landed EXCEPT ![q] = @ + 1], wire' = [wire EXCEPT ![q] = Tail(@)],
           NEW m \in Markers
    PROVE  Added(m)' = Added(m)
<1>1. cfg \in Configs /\ landed[q] \in Nat /\ DOMAIN wire = Qps /\ DOMAIN landed = Qps
  BY TypesCfg, TypesQp, Zenon
<1>2. QpOf(m) \in Qps
  BY <1>1, MarkerParts, Zenon
<1>3. CASE QpOf(m) # q
  <2>1. wire'[QpOf(m)] = wire[QpOf(m)] /\ landed'[QpOf(m)] = landed[QpOf(m)]
    BY <1>1, <1>2, <1>3, Zenon
  <2> QED  BY <2>1, AddedIs, Zenon
<1>4. CASE QpOf(m) = q
  <2> DEFINE L == landed[q]
             s == L % Slots
  <2>1. wire'[q] = Tail(wire[q]) /\ landed'[q] = L + 1
    BY <1>1, Zenon
  <2>2. /\ s \in 0..(Slots - 1)
        /\ ChainAtomic(s) => /\ Tail(wire[q]) # <<>> /\ Head(Tail(wire[q])).op = "add"
                             /\ Head(Tail(wire[q])).marker = MarkerOf(q, s \div cfg.ops)
        /\ ~ ChainAtomic(s) /\ Tail(wire[q]) # <<>> => Head(Tail(wire[q])).op = "data"
    BY NextMessage, Zenon
  <2>3. LastSlot(m) \in 0..(Slots - 1) /\ ChainAtomic(LastSlot(m))
    BY <1>1, LastSlotCloses, Zenon
  <2>4. RoundsAt(L, LastSlot(m)) \in Nat
    BY <1>1, <2>3, RoundsOf, Zenon
  <2>5. RoundsAt(L + 1, LastSlot(m)) = RoundsAt(L, LastSlot(m)) + (IF LastSlot(m) = s THEN 1 ELSE 0)
    BY <1>1, <2>3, RoundsGrow, Zenon
  <2>6. "add" # "data"
    OBVIOUS
  <2>7. Due(wire[q], m) = 0
    BY <2>6, Zenon DEF Due
  <2>8. Due(Tail(wire[q]), m) = IF LastSlot(m) = s THEN 1 ELSE 0
    <3>1. CASE ChainAtomic(s)
      <4>1. LastSlot(m) = s <=> m = MarkerOf(q, s \div cfg.ops)
        BY <1>1, <1>4, <2>2, <3>1, ClosedMarker, Zenon
      <4> QED  BY <2>2, <3>1, <4>1, Zenon DEF Due
    <3>2. CASE ~ ChainAtomic(s)
      <4>1. LastSlot(m) # s
        BY <2>3, <3>2, Zenon
      <4> QED  BY <2>2, <2>6, <3>2, <4>1, Zenon DEF Due
    <3> QED  BY <3>1, <3>2, Zenon
  <2>9. Added(m) = RoundsAt(L, LastSlot(m)) - 0
    BY <1>4, <2>7, AddedIs, Zenon
  <2>10. Added(m)' = RoundsAt(L + 1, LastSlot(m)) - (IF LastSlot(m) = s THEN 1 ELSE 0)
    BY <1>4, <2>1, <2>8, AddedIs, Zenon
  <2>11. PICK a \in Nat : a = RoundsAt(L, LastSlot(m))
    BY <2>4, Zenon
  <2>12. CASE LastSlot(m) = s
    <3>1. Added(m) = a - 0 /\ Added(m)' = (a + 1) - 1
      BY <2>5, <2>9, <2>10, <2>11, <2>12, Zenon
    <3> QED  BY <3>1
  <2>13. CASE LastSlot(m) # s
    <3>1. Added(m) = a - 0 /\ Added(m)' = (a + 0) - 0
      BY <2>5, <2>9, <2>10, <2>11, <2>13, Zenon
    <3> QED  BY <3>1
  <2> QED  BY <2>12, <2>13, Zenon
<1> QED  BY <1>3, <1>4, Zenon

(* What is in memory after an arrival, written at once or on its way. *)
LEMMA HoldsOnArrival ==
    ASSUME cfg \in Configs, NEW L \in Nat, NEW cells, NEW n, Holds(L, NoMessage, cells, n),
           NEW value, NEW n2, n2 = 0 => n = 0 /\ value = Pattern(RoundsAt(L, L % Slots) + 1),
           NEW f2, NEW cells2,
           \/ f2 = NoMessage /\ (\A s \in 0..(Slots - 1) : cells2[s] = IF s = L % Slots THEN value ELSE cells[s])
           \/ f2 = [slot |-> L % Slots, value |-> value] /\ ChainAtomic(L % Slots) /\ cells2 = cells
    PROVE  /\ Holds(L + 1, f2, cells2, n2)
           /\ \A s \in 0..(Slots - 1) : ReachedAt(L + 1, f2, s) >= ReachedAt(L, NoMessage, s)
<1> DEFINE z == L % Slots
<1>1. z \in 0..(Slots - 1)
  BY NextPlace, Zenon
<1> HIDE DEF z
<1>2. ASSUME NEW s \in 0..(Slots - 1)
      PROVE  /\ RoundsAt(L, s) \in Nat
             /\ RoundsAt(L + 1, s) = RoundsAt(L, s) + (IF s = z THEN 1 ELSE 0)
             /\ ReachedAt(L, NoMessage, s) = RoundsAt(L, s)
  <2>1. RoundsAt(L, s) \in Nat
    BY RoundsOf, Zenon
  <2>2. RoundsAt(L + 1, s) = RoundsAt(L, s) + (IF s = z THEN 1 ELSE 0)
    BY RoundsGrow, Zenon DEF z
  <2>3. NoMessage.slot # s
    BY DEF NoMessage
  <2>4. PICK a \in Nat : a = RoundsAt(L, s)
    BY <2>1, Zenon
  <2>5. a - 0 = a
    OBVIOUS
  <2>6. ReachedAt(L, NoMessage, s) = RoundsAt(L, s)
    BY <2>3, <2>4, <2>5, Zenon DEF ReachedAt
  <2> QED  BY <2>1, <2>2, <2>6, Zenon
<1>3. n2 = 0 => /\ \A s \in 0..(Slots - 1) : cells[s] = Pattern(RoundsAt(L, s))
                /\ value = Pattern(RoundsAt(L + 1, z))
  <2> HAVE n2 = 0
  <2>1. n = 0 /\ value = Pattern(RoundsAt(L, z) + 1)
    BY Zenon DEF z
  <2>2. \A s \in 0..(Slots - 1) : cells[s] = Pattern(ReachedAt(L, NoMessage, s))
    BY <2>1, Zenon DEF Holds
  <2> QED  BY <1>1, <1>2, <2>1, <2>2, Zenon
<1>4. CASE f2 = NoMessage /\ (\A s \in 0..(Slots - 1) : cells2[s] = IF s = z THEN value ELSE cells[s])
  <2>1. ASSUME NEW s \in 0..(Slots - 1)
        PROVE  /\ ReachedAt(L + 1, f2, s) = RoundsAt(L + 1, s)
               /\ RoundsAt(L + 1, s) >= RoundsAt(L, s)
               /\ n2 = 0 => cells2[s] = Pattern(RoundsAt(L + 1, s))
    <3>1. NoMessage.slot # s
      BY DEF NoMessage
    <3>2. PICK a \in Nat : a = RoundsAt(L, s)
      BY <1>2, Zenon
    <3>3. RoundsAt(L + 1, s) \in Nat /\ RoundsAt(L + 1, s) >= RoundsAt(L, s)
      BY <1>2, <3>2
    <3>4. RoundsAt(L + 1, s) - 0 = RoundsAt(L + 1, s)
      BY <3>3
    <3>5. ReachedAt(L + 1, f2, s) = RoundsAt(L + 1, s)
      BY <1>4, <3>1, <3>4, Zenon DEF ReachedAt
    <3>6. s # z => RoundsAt(L + 1, s) = RoundsAt(L, s)
      BY <1>2, <3>2
    <3> QED  BY <1>3, <1>4, <3>3, <3>5, <3>6, Zenon
  <2> QED  BY <1>2, <1>4, <2>1, Zenon DEF Holds
<1>5. CASE f2 = [slot |-> z, value |-> value] /\ ChainAtomic(z) /\ cells2 = cells
  <2>1. ASSUME NEW s \in 0..(Slots - 1)
        PROVE  ReachedAt(L + 1, f2, s) = RoundsAt(L, s) /\ RoundsAt(L, s) >= RoundsAt(L, s)
    <3>1. PICK a \in Nat : a = RoundsAt(L, s)
      BY <1>2, Zenon
    <3>2. f2.slot = z
      BY <1>5
    <3>3. RoundsAt(L + 1, s) = a + (IF s = z THEN 1 ELSE 0)
      BY <1>2, <3>1, Zenon
    <3>4. (a + (IF s = z THEN 1 ELSE 0)) - (IF z = s THEN 1 ELSE 0) = a /\ a >= a
      OBVIOUS
    <3>5. ReachedAt(L + 1, f2, s) = RoundsAt(L + 1, s) - (IF z = s THEN 1 ELSE 0)
      BY <3>2, Zenon DEF ReachedAt
    <3> QED  BY <3>1, <3>3, <3>4, <3>5
  <2>2. f2.slot = z /\ f2.value = value /\ f2 # NoMessage
    <3>1. f2.slot = z /\ f2.value = value
      BY <1>5
    <3>2. NoMessage.slot # z
      BY <1>1 DEF NoMessage
    <3> QED  BY <3>1, <3>2, Zenon
  <2>3. RoundsAt(L + 1, z) > 0
    <3>1. PICK a \in Nat : a = RoundsAt(L, z)
      BY <1>1, <1>2, Zenon
    <3>2. RoundsAt(L + 1, z) = a + 1
      BY <1>1, <1>2, <3>1, Zenon
    <3> QED  BY <3>2
  <2>4. n2 = 0 => /\ \A s \in 0..(Slots - 1) : cells2[s] = Pattern(ReachedAt(L + 1, f2, s))
                  /\ f2.value = Pattern(RoundsAt(L + 1, f2.slot))
    BY <1>3, <1>5, <2>1, <2>2, Zenon
  <2>5. Holds(L + 1, f2, cells2, n2)
    BY <1>1, <1>5, <2>2, <2>3, <2>4, Zenon DEF Holds
  <2> QED  BY <1>2, <2>1, <2>5, Zenon
<1> QED  BY <1>4, <1>5, Zenon DEF z

LEMMA ArrivesStep ==
    ASSUME TypeOK, NetInv, NEW q \in Qps, NEW value \in 0..Garbage, Arrives(q, value), faults' \in Nat,
           faults' = 0 => faults = 0 /\ value = Head(wire[q]).value
    PROVE  NetOK' /\ NetInv' /\ Forward
<1> DEFINE d == Head(wire[q])
           L == landed[q]
<1>1. /\ wire[q] # <<>> /\ d.op = "data" /\ flush[q] = NoMessage
      /\ landed' = [landed EXCEPT ![q] = @ + 1]
      /\ cqe' = [cqe EXCEPT ![q] = @ + (IF d.signaled THEN 1 ELSE 0)]
      /\ wire' = [wire EXCEPT ![q] = Tail(@)]
      /\ \/ mem' = [mem EXCEPT ![q][d.slot] = value] /\ flush' = flush
         \/ /\ ChainAtomic(d.slot) /\ flush' = [flush EXCEPT ![q] = [slot |-> d.slot, value |-> value]]
            /\ mem' = mem
      /\ cfg' = cfg /\ ctx' = ctx /\ tail_markers' = tail_markers /\ returns' = returns
  BY Zenon DEF Arrives
<1>2. InSequence(q) /\ InMemory(q)
  BY Zenon DEF NetInv
<1>3. /\ cfg \in Configs /\ wire[q] \in Seq(Op) /\ L \in Nat /\ ctx[q].scnt \in Nat
      /\ mem[q] \in [0..(Slots - 1) -> 0..Garbage]
  BY TypesCfg, TypesQp, Zenon
<1>4. /\ d.slot = L % Slots /\ L % Slots \in 0..(Slots - 1) /\ d.signaled \in BOOLEAN
      /\ d.value = Pattern(RoundsAt(L, L % Slots) + 1)
      /\ Chain(q, Tail(wire[q]), L + 1, ctx[q].scnt)
  BY <1>1, <1>2, NextMessage, Zenon
<1>5. /\ wire \in [Qps -> Seq(Op)] /\ landed \in [Qps -> Nat] /\ cqe \in [Qps -> Int]
      /\ mem \in [Qps -> [0..(Slots - 1) -> 0..Garbage]]
      /\ flush \in [Qps -> [slot : Int, value : 0..Garbage]]
  BY Zenon DEF TypeOK
<1>6. Tail(wire[q]) \in Seq(Op)
  BY <1>1, <1>3
<1>7. /\ wire' \in [Qps -> Seq(Op)] /\ wire'[q] = Tail(wire[q])
      /\ \A p \in Qps \ {q} : wire'[p] = wire[p]
  BY <1>1, <1>5, <1>6, Zenon
<1>8. /\ landed' \in [Qps -> Nat] /\ landed'[q] = L + 1
      /\ \A p \in Qps \ {q} : landed'[p] = landed[p]
  BY <1>1, <1>5
<1>9. cqe' \in [Qps -> Int]
  BY <1>1, <1>5
<1>10. Slots \in Nat
  BY <1>3, Sizes DEF Pos
<1>11. /\ mem' \in [Qps -> [0..(Slots - 1) -> 0..Garbage]]
       /\ \A p \in Qps \ {q} : mem'[p] = mem[p]
  <2>1. CASE mem' = mem
    BY <1>5, <2>1, Zenon
  <2>2. CASE mem' = [mem EXCEPT ![q][d.slot] = value]
    <3>1. [mem[q] EXCEPT ![d.slot] = value] \in [0..(Slots - 1) -> 0..Garbage]
      BY <1>3, <1>4, Zenon
    <3>2. mem' = [mem EXCEPT ![q] = [mem[q] EXCEPT ![d.slot] = value]]
      BY <2>2
    <3> QED  BY <1>5, <3>1, <3>2, Zenon
  <2> QED  BY <1>1, <2>1, <2>2, Zenon
<1>12. /\ flush' \in [Qps -> [slot : Int, value : 0..Garbage]]
       /\ \A p \in Qps \ {q} : flush'[p] = flush[p]
  <2>1. L % Slots \in Int
    BY <1>4, <1>10
  <2>2. [slot |-> d.slot, value |-> value] \in [slot : Int, value : 0..Garbage]
    BY <1>4, <2>1
  <2> QED  BY <1>1, <1>5, <2>2, Zenon
<1>13. NetOK'
  <2>1. /\ ctx' \in [Qps -> [scnt : Nat, ccnt : Nat, recv_off : Nat, send_off : Nat]]
        /\ tail_markers' \in [Markers -> Nat] /\ returns' \in [Markers -> Nat]
    BY <1>1, Zenon DEF TypeOK
  <2> QED  BY <1>1, <1>7, <1>8, <1>9, <1>11, <1>12, <2>1, Places, Zenon DEF NetOK
<1>14. /\ Holds(L + 1, flush'[q], mem'[q], faults')
       /\ \A s \in 0..(Slots - 1) : ReachedAt(L + 1, flush'[q], s) >= ReachedAt(L, NoMessage, s)
  <2>1. Holds(L, NoMessage, mem[q], faults)
    BY <1>1, <1>2, MemoryIs, Zenon
  <2>2. faults' = 0 => faults = 0 /\ value = Pattern(RoundsAt(L, L % Slots) + 1)
    BY <1>4, Zenon
  <2>3. ASSUME mem' = [mem EXCEPT ![q][d.slot] = value] /\ flush' = flush
        PROVE  /\ flush'[q] = NoMessage
               /\ \A s \in 0..(Slots - 1) : mem'[q][s] = IF s = L % Slots THEN value ELSE mem[q][s]
    <3>1. mem'[q] = [mem[q] EXCEPT ![d.slot] = value]
      BY <1>5, <2>3
    <3>2. \A s \in 0..(Slots - 1) : mem'[q][s] = IF s = L % Slots THEN value ELSE mem[q][s]
      BY <1>3, <1>4, <3>1, Zenon
    <3> QED  BY <1>1, <2>3, <3>2, Zenon
  <2>4. ASSUME /\ ChainAtomic(d.slot) /\ flush' = [flush EXCEPT ![q] = [slot |-> d.slot, value |-> value]]
               /\ mem' = mem
        PROVE  /\ flush'[q] = [slot |-> L % Slots, value |-> value] /\ ChainAtomic(L % Slots)
               /\ mem'[q] = mem[q]
    <3>1. flush'[q] = [slot |-> L % Slots, value |-> value]
      BY <1>4, <1>5, <2>4, Zenon
    <3> QED  BY <1>4, <2>4, <3>1, Zenon
  <2>5. \/ /\ flush'[q] = NoMessage
           /\ \A s \in 0..(Slots - 1) : mem'[q][s] = IF s = L % Slots THEN value ELSE mem[q][s]
        \/ /\ flush'[q] = [slot |-> L % Slots, value |-> value] /\ ChainAtomic(L % Slots)
           /\ mem'[q] = mem[q]
    BY <1>1, <2>3, <2>4, Zenon
  <2>6. PICK l \in Nat, f2 \in {flush'[q]}, cells \in {mem[q]}, cells2 \in {mem'[q]}, n \in {faults}, n2 \in {faults'} :
          l = L /\ f2 = flush'[q] /\ cells = mem[q] /\ cells2 = mem'[q] /\ n = faults /\ n2 = faults'
    BY <1>3, Zenon
  <2>7. Holds(l, NoMessage, cells, n) /\ (n2 = 0 => n = 0 /\ value = Pattern(RoundsAt(l, l % Slots) + 1))
    BY <2>1, <2>2, <2>6, Zenon
  <2>8. \/ /\ f2 = NoMessage
           /\ \A s \in 0..(Slots - 1) : cells2[s] = IF s = l % Slots THEN value ELSE cells[s]
        \/ f2 = [slot |-> l % Slots, value |-> value] /\ ChainAtomic(l % Slots) /\ cells2 = cells
    BY <2>5, <2>6, Zenon
  <2>9. /\ Holds(l + 1, f2, cells2, n2)
        /\ \A s \in 0..(Slots - 1) : ReachedAt(l + 1, f2, s) >= ReachedAt(l, NoMessage, s)
    BY <1>3, <2>7, <2>8, HoldsOnArrival, Zenon
  <2> QED  BY <2>6, <2>9, Zenon
<1>15. ASSUME NEW p \in Qps PROVE InSequence(p)' /\ InMemory(p)'
  <2>1. CASE p = q
    <3>1. InMemory(p)'
      BY <1>1, <1>8, <1>14, <2>1, MemoryIs, Zenon
    <3>2. ctx[q].recv_off = ctx[q].scnt % Slots /\ ctx[q].send_off = (ctx[q].scnt \div Slots) % 3
      BY <1>2, SequenceNow, Zenon
    <3>3. InSequence(q)'
      BY <1>1, <1>4, <1>7, <1>8, <3>2, SequenceNext, Zenon
    <3> QED  BY <2>1, <3>1, <3>3, Zenon
  <2>2. CASE p # q
    <3>1. InSequence(p) /\ InMemory(p)
      BY Zenon DEF NetInv
    <3>2. /\ wire'[p] = wire[p] /\ landed'[p] = landed[p] /\ mem'[p] = mem[p] /\ flush'[p] = flush[p]
          /\ ctx'[p] = ctx[p]
      BY <1>1, <1>7, <1>8, <1>11, <1>12, <2>2, Zenon
    <3>3. InSequence(p)'
      BY <1>1, <3>1, <3>2, SequenceNow, SequenceNext, Zenon
    <3>4. Holds(landed[p], flush[p], mem[p], faults)
      BY <1>1, <3>1, MemoryIs, Zenon
    <3>5. Holds(landed[p], flush[p], mem[p], faults')
      BY <3>4, Zenon DEF Holds
    <3> QED  BY <1>1, <3>2, <3>3, <3>5, MemoryIs, Zenon
  <2> QED  BY <2>1, <2>2, Zenon
<1>16. MarkersCount'
  <2>1. \A m \in Markers : Added(m)' = Added(m)
    BY <1>1, <1>2, AddedOnArrival, Zenon
  <2> QED  BY <1>1, <2>1, MarkersCountIs, Zenon DEF NetInv, MarkersCount
<1>17. Forward
  <2>1. ASSUME NEW m \in Markers PROVE Marker(m)' >= Marker(m)
    <3>1. Marker(m)' = Marker(m) /\ Marker(m) \in Nat
      BY <1>1, TypesMarker, Zenon DEF Marker
    <3> QED  BY <3>1
  <2>2. ASSUME NEW p \in Qps, NEW s \in 0..(Slots - 1) PROVE Reached(p, s)' >= Reached(p, s)
    <3>1. CASE p = q
      BY <1>1, <1>8, <1>14, <3>1, ReachedAre, Zenon
    <3>2. CASE p # q
      <4>0. landed'[p] = landed[p] /\ flush'[p] = flush[p] /\ cfg' = cfg
        BY <1>1, <1>8, <1>12, <3>2, Zenon
      <4>1. Reached(p, s)' = Reached(p, s) /\ Reached(p, s) = ReachedAt(landed[p], flush[p], s)
        BY <4>0, ReachedAre, Zenon
      <4>2. RoundsAt(landed[p], s) \in Nat
        BY <1>3, TypesQp, RoundsOf, Zenon
      <4> QED  BY <4>1, <4>2 DEF ReachedAt
    <3> QED  BY <3>1, <3>2, Zenon
  <2> QED  BY <2>1, <2>2, Zenon DEF Forward
<1> QED  BY <1>1, <1>13, <1>15, <1>16, <1>17, Places, Zenon DEF NetInv

LEMMA LandStep ==
    ASSUME TypeOK, NetInv, NEW q \in Qps, Land(q) \/ Damage(q)
    PROVE  NetOK' /\ NetInv' /\ Forward
<1>1. faults \in Nat /\ InSequence(q)
  BY TypesCfg, Zenon DEF NetInv
<1>2. ASSUME wire[q] # <<>>, Head(wire[q]).op = "data"
      PROVE  /\ Head(wire[q]).value \in 0..Garbage /\ Garbage \in 0..Garbage
             /\ mem[q][Head(wire[q]).slot] \in 0..Garbage
  <2>1. /\ Head(wire[q]).slot = landed[q] % Slots /\ landed[q] % Slots \in 0..(Slots - 1)
        /\ Head(wire[q]).value \in 1..3
    BY <1>1, <1>2, NextMessage, Zenon
  <2>2. mem[q] \in [0..(Slots - 1) -> 0..Garbage]
    BY TypesQp, Zenon
  <2>3. mem[q][Head(wire[q]).slot] \in 0..Garbage
    BY <2>1, <2>2, Zenon
  <2>4. 1..3 \subseteq 0..Garbage /\ Garbage \in 0..Garbage
    BY DEF Garbage
  <2> QED  BY <2>1, <2>3, <2>4, Zenon
<1>3. ASSUME NEW value, Arrives(q, value) PROVE wire[q] # <<>> /\ Head(wire[q]).op = "data"
  BY <1>3, Zenon DEF Arrives
<1>4. CASE Land(q)
  <2>1. Arrives(q, Head(wire[q]).value) /\ faults' = faults
    BY <1>4, Zenon DEF Land
  <2>2. Head(wire[q]).value \in 0..Garbage
    BY <1>2, <1>3, <2>1, Zenon
  <2>3. faults' \in Nat /\ (faults' = 0 => faults = 0 /\ Head(wire[q]).value = Head(wire[q]).value)
    BY <1>1, <2>1, Zenon
  <2> QED  BY <2>1, <2>2, <2>3, ArrivesStep, Zenon
<1>5. CASE Damage(q)
  <2>1. PICK value \in 0..Garbage : Arrives(q, value)
    BY <1>2, <1>3, <1>5, Zenon DEF Damage
  <2>2. faults' = faults + 1
    BY <1>5, Zenon DEF Damage
  <2>3. faults' \in Nat /\ faults' # 0
    BY <1>1, <2>2
  <2> QED  BY <2>1, <2>3, ArrivesStep, Zenon
<1> QED  BY <1>4, <1>5, Zenon

LEMMA HoldsOnFlush ==
    ASSUME cfg \in Configs, NEW L \in Nat, NEW f, NEW cells, NEW n, Holds(L, f, cells, n), f # NoMessage,
           NEW cells2, \A s \in 0..(Slots - 1) : cells2[s] = IF s = f.slot THEN f.value ELSE cells[s]
    PROVE  /\ Holds(L, NoMessage, cells2, n)
           /\ \A s \in 0..(Slots - 1) : ReachedAt(L, NoMessage, s) >= ReachedAt(L, f, s)
<1>1. ASSUME NEW s \in 0..(Slots - 1)
      PROVE  /\ ReachedAt(L, NoMessage, s) = RoundsAt(L, s)
             /\ RoundsAt(L, s) >= ReachedAt(L, f, s)
             /\ n = 0 => cells2[s] = Pattern(RoundsAt(L, s))
  <2>1. PICK a \in Nat : a = RoundsAt(L, s)
    BY RoundsOf, Zenon
  <2>2. NoMessage.slot # s
    BY DEF NoMessage
  <2>3. a - 0 = a /\ a >= a - 0 /\ a >= a - 1
    OBVIOUS
  <2>4. ReachedAt(L, NoMessage, s) = RoundsAt(L, s)
    BY <2>1, <2>2, <2>3, Zenon DEF ReachedAt
  <2>5. RoundsAt(L, s) >= ReachedAt(L, f, s)
    BY <2>1, <2>3, Zenon DEF ReachedAt
  <2>6. ASSUME n = 0, s # f.slot PROVE cells2[s] = Pattern(RoundsAt(L, s))
    <3>1. ReachedAt(L, f, s) = RoundsAt(L, s)
      BY <2>1, <2>3, <2>6, Zenon DEF ReachedAt
    <3> QED  BY <2>6, <3>1, Zenon DEF Holds
  <2>7. ASSUME n = 0, s = f.slot PROVE cells2[s] = Pattern(RoundsAt(L, s))
    BY <2>7, Zenon DEF Holds
  <2> QED  BY <2>4, <2>5, <2>6, <2>7, Zenon
<1> QED  BY <1>1, Zenon DEF Holds

LEMMA FlushedStep ==
    ASSUME TypeOK, NetInv, NEW q \in Qps, Flushed(q)
    PROVE  NetOK' /\ NetInv' /\ Forward
<1> DEFINE f == flush[q]
           L == landed[q]
<1>1. /\ f # NoMessage /\ mem' = [mem EXCEPT ![q][f.slot] = f.value]
      /\ flush' = [flush EXCEPT ![q] = NoMessage]
      /\ cfg' = cfg /\ ctx' = ctx /\ wire' = wire /\ cqe' = cqe /\ landed' = landed
      /\ tail_markers' = tail_markers /\ returns' = returns /\ faults' = faults
  BY Zenon DEF Flushed, client
<1>2. InSequence(q) /\ InMemory(q)
  BY Zenon DEF NetInv
<1>3. /\ cfg \in Configs /\ L \in Nat /\ mem[q] \in [0..(Slots - 1) -> 0..Garbage] /\ f.value \in 0..Garbage
  BY TypesCfg, TypesQp, Zenon
<1>4. Holds(L, f, mem[q], faults) /\ f.slot \in 0..(Slots - 1)
  BY <1>1, <1>2, MemoryIs, Zenon DEF Holds
<1>5. /\ mem \in [Qps -> [0..(Slots - 1) -> 0..Garbage]]
      /\ flush \in [Qps -> [slot : Int, value : 0..Garbage]]
  BY Zenon DEF TypeOK
<1>6. /\ mem' \in [Qps -> [0..(Slots - 1) -> 0..Garbage]]
      /\ mem'[q] = [mem[q] EXCEPT ![f.slot] = f.value]
      /\ \A p \in Qps \ {q} : mem'[p] = mem[p]
  <2>1. [mem[q] EXCEPT ![f.slot] = f.value] \in [0..(Slots - 1) -> 0..Garbage]
    BY <1>3, <1>4, Zenon
  <2>2. mem' = [mem EXCEPT ![q] = [mem[q] EXCEPT ![f.slot] = f.value]]
    BY <1>1
  <2> QED  BY <1>5, <2>1, <2>2, Zenon
<1>7. /\ flush' \in [Qps -> [slot : Int, value : 0..Garbage]] /\ flush'[q] = NoMessage
      /\ \A p \in Qps \ {q} : flush'[p] = flush[p]
  <2>1. NoMessage \in [slot : Int, value : 0..Garbage]
    BY DEF NoMessage, Garbage
  <2> QED  BY <1>1, <1>5, <2>1, Zenon
<1>8. NetOK'
  <2>1. NetOK
    BY TypeParts, Zenon
  <2> QED  BY <1>1, <1>6, <1>7, <2>1, Places, Zenon DEF NetOK
<1>9. \A s \in 0..(Slots - 1) : mem'[q][s] = IF s = f.slot THEN f.value ELSE mem[q][s]
  BY <1>3, <1>6, Zenon
<1>10. /\ Holds(L, NoMessage, mem'[q], faults)
       /\ \A s \in 0..(Slots - 1) : ReachedAt(L, NoMessage, s) >= ReachedAt(L, f, s)
  <2>1. PICK l \in Nat, g \in {f}, cells \in {mem[q]}, cells2 \in {mem'[q]}, n \in {faults} :
          l = L /\ g = f /\ cells = mem[q] /\ cells2 = mem'[q] /\ n = faults
    BY <1>3, Zenon
  <2>2. /\ Holds(l, g, cells, n) /\ g # NoMessage
        /\ \A s \in 0..(Slots - 1) : cells2[s] = IF s = g.slot THEN g.value ELSE cells[s]
    BY <1>1, <1>4, <1>9, <2>1, Zenon
  <2>3. /\ Holds(l, NoMessage, cells2, n)
        /\ \A s \in 0..(Slots - 1) : ReachedAt(l, NoMessage, s) >= ReachedAt(l, g, s)
    <3>1. cfg \in Configs
      BY <1>3, Zenon
    <3> QED  BY <2>2, <3>1, HoldsOnFlush
  <2> QED  BY <2>1, <2>3, Zenon
<1>11. ASSUME NEW p \in Qps PROVE InSequence(p)' /\ InMemory(p)'
  <2>1. InSequence(p) /\ InMemory(p)
    BY Zenon DEF NetInv
  <2>2. InSequence(p)'
    BY <1>1, <2>1, SequenceNow, SequenceNext, Zenon
  <2>3. ASSUME p # q PROVE InMemory(p)'
    BY <1>1, <1>6, <1>7, <2>1, <2>3, MemoryIs, Zenon
  <2>4. InMemory(q)'
    BY <1>1, <1>7, <1>10, MemoryIs, Zenon
  <2> QED  BY <2>2, <2>3, <2>4, Zenon
<1>12. MarkersCount'
  BY <1>1, AddedIs, MarkersCountIs, Zenon DEF NetInv, MarkersCount
<1>13. Forward
  <2>1. ASSUME NEW m \in Markers PROVE Marker(m)' >= Marker(m)
    <3>1. Marker(m)' = Marker(m) /\ Marker(m) \in Nat
      BY <1>1, TypesMarker, Zenon DEF Marker
    <3> QED  BY <3>1
  <2>2. ASSUME NEW p \in Qps, NEW s \in 0..(Slots - 1) PROVE Reached(p, s)' >= Reached(p, s)
    <3>1. CASE p = q
      <4>1. landed'[q] = L /\ flush'[q] = NoMessage /\ cfg' = cfg
        BY <1>1, <1>7, Zenon
      <4>2. Reached(q, s)' = ReachedAt(L, NoMessage, s) /\ Reached(q, s) = ReachedAt(L, f, s)
        BY <4>1, ReachedAre, Zenon
      <4> QED  BY <1>10, <3>1, <4>2, Zenon
    <3>2. CASE p # q
      <4>1. landed'[p] = landed[p] /\ flush'[p] = flush[p] /\ cfg' = cfg
        BY <1>1, <1>7, <3>2, Zenon
      <4>2. Reached(p, s)' = Reached(p, s) /\ Reached(p, s) = ReachedAt(landed[p], flush[p], s)
        BY <4>1, ReachedAre, Zenon
      <4>3. RoundsAt(landed[p], s) \in Nat
        BY <1>3, TypesQp, RoundsOf, Zenon
      <4> QED  BY <4>2, <4>3 DEF ReachedAt
    <3> QED  BY <3>1, <3>2, Zenon
  <2> QED  BY <1>1, <2>1, <2>2, Zenon DEF Forward
<1> QED  BY <1>1, <1>8, <1>11, <1>12, <1>13, Places, Zenon DEF NetInv

(* The fetch-and-add that is executed is the one for the last round that has
   arrived. *)
LEMMA NextAdd ==
    ASSUME TypeOK, NEW q \in Qps, InSequence(q), wire[q] # <<>>, Head(wire[q]).op = "add"
    PROVE  /\ Head(wire[q]).marker \in Markers /\ QpOf(Head(wire[q]).marker) = q
           /\ Chain(q, Tail(wire[q]), landed[q], ctx[q].scnt)
           /\ Tail(wire[q]) # <<>> => Head(Tail(wire[q])).op = "data"
<1>1. cfg \in Configs /\ wire[q] \in Seq(Op) /\ landed[q] \in Nat /\ ctx[q].scnt \in Nat
  BY TypesCfg, TypesQp, Zenon
<1>2. Chain(q, wire[q], landed[q], ctx[q].scnt)
  BY SequenceNow, Zenon
<1>3. /\ Formed(q, Head(wire[q])) /\ Chain(q, Tail(wire[q]), landed[q], ctx[q].scnt)
      /\ Tail(wire[q]) # <<>> => Head(Tail(wire[q])).op = "data"
  BY <1>1, <1>2, ChainHeadAdd, Zenon
<1>4. Head(wire[q]) \in Op
  BY <1>1
<1>5. Head(wire[q]).nr \in Nat
  BY <1>4 DEF Op
<1>6. PICK n \in Nat : n = Head(wire[q]).nr
  BY <1>5, Zenon
<1>7. n % Slots \in 0..(Slots - 1)
  BY <1>1, NextPlace, Zenon
<1>8. "add" # "data"
  OBVIOUS
<1>9. Closes(n) /\ Head(wire[q]).marker = MarkerOf(q, (n % Slots) \div cfg.ops)
  BY <1>3, <1>6, <1>8, Zenon DEF Formed
<1>10. (n % Slots) \div cfg.ops \in 0..(cfg.chunks - 1)
  BY <1>1, <1>7, <1>9, ClosingSlot, Zenon DEF Closes
<1>11. Head(wire[q]).marker \in Markers /\ QpOf(Head(wire[q]).marker) = q
  BY <1>1, <1>9, <1>10, MarkerPlace, Zenon
<1> QED  BY <1>3, <1>11, Zenon

LEMMA FetchAndAddStep ==
    ASSUME TypeOK, NetInv, NEW q \in Qps, FetchAndAdd(q)
    PROVE  NetOK' /\ NetInv' /\ Forward
<1> DEFINE a == Head(wire[q]).marker
<1>1. /\ wire[q] # <<>> /\ Head(wire[q]).op = "add"
      /\ tail_markers' = [tail_markers EXCEPT ![a] = tail_markers[a] + 1]
      /\ returns' = [returns EXCEPT ![a] = tail_markers[a]]
      /\ wire' = [wire EXCEPT ![q] = Tail(wire[q])]
      /\ cfg' = cfg /\ ctx' = ctx /\ cqe' = cqe /\ landed' = landed /\ mem' = mem
      /\ flush' = flush /\ faults' = faults
  BY Zenon DEF FetchAndAdd
<1>2. InSequence(q) /\ MarkersCount
  BY Zenon DEF NetInv
<1>3. /\ a \in Markers /\ QpOf(a) = q /\ Chain(q, Tail(wire[q]), landed[q], ctx[q].scnt)
      /\ Tail(wire[q]) # <<>> => Head(Tail(wire[q])).op = "data"
  BY <1>1, <1>2, NextAdd, Zenon
<1>4. /\ cfg \in Configs /\ wire \in [Qps -> Seq(Op)] /\ wire[q] \in Seq(Op)
      /\ tail_markers \in [Markers -> Nat] /\ returns \in [Markers -> Nat]
  BY TypesCfg, TypesQp, Zenon DEF TypeOK
<1>5. Tail(wire[q]) \in Seq(Op)
  BY <1>1, <1>4
<1>6. /\ wire' \in [Qps -> Seq(Op)] /\ wire'[q] = Tail(wire[q])
      /\ \A p \in Qps \ {q} : wire'[p] = wire[p]
  BY <1>1, <1>4, <1>5, Zenon
<1>7. /\ tail_markers' \in [Markers -> Nat] /\ returns' \in [Markers -> Nat]
      /\ tail_markers'[a] = tail_markers[a] + 1 /\ returns'[a] = tail_markers[a]
      /\ \A m \in Markers \ {a} : tail_markers'[m] = tail_markers[m] /\ returns'[m] = returns[m]
  <2>1. tail_markers[a] \in Nat /\ tail_markers[a] + 1 \in Nat
    BY <1>3, <1>4
  <2> QED  BY <1>1, <1>3, <1>4, <2>1, Zenon
<1>8. NetOK'
  <2>1. NetOK
    BY TypeParts, Zenon
  <2> QED  BY <1>1, <1>6, <1>7, <2>1, Places, Zenon DEF NetOK
<1>9. ASSUME NEW p \in Qps PROVE InSequence(p)' /\ InMemory(p)'
  <2>1. InSequence(p) /\ InMemory(p)
    BY Zenon DEF NetInv
  <2>2. InMemory(p)'
    BY <1>1, <2>1, MemoryIs, Zenon
  <2>3. ASSUME p # q PROVE InSequence(p)'
    BY <1>1, <1>6, <2>1, <2>3, SequenceNow, SequenceNext, Zenon
  <2>4. InSequence(q)'
    <3>1. ctx[q].recv_off = ctx[q].scnt % Slots /\ ctx[q].send_off = (ctx[q].scnt \div Slots) % 3
      BY <1>2, SequenceNow, Zenon
    <3> QED  BY <1>1, <1>3, <1>6, <3>1, SequenceNext, Zenon
  <2> QED  BY <2>2, <2>3, <2>4, Zenon
<1>10. ASSUME NEW m \in Markers
       PROVE  Added(m) \in Int /\ Added(m)' = Added(m) + (IF m = a THEN 1 ELSE 0)
  <2>1. QpOf(m) \in Qps /\ LastSlot(m) \in 0..(Slots - 1)
    BY <1>4, MarkerParts, LastSlotCloses, Zenon
  <2>2. landed[QpOf(m)] \in Nat
    BY <2>1, TypesQp, Zenon
  <2>3. PICK r \in Nat : r = RoundsAt(landed[QpOf(m)], LastSlot(m))
    BY <1>4, <2>1, <2>2, RoundsOf, Zenon
  <2>4. Added(m) = r - Due(wire[QpOf(m)], m) /\ Added(m)' = r - Due(wire'[QpOf(m)], m)
    BY <1>1, <2>3, AddedIs, Zenon
  <2>5. "add" # "data"
    OBVIOUS
  <2>6. CASE m = a
    <3>1. Due(wire[q], m) = 1
      BY <1>1, <2>6, Zenon DEF Due
    <3>2. Due(wire'[q], m) = 0
      BY <1>3, <1>6, <2>5, Zenon DEF Due
    <3>3. Added(m) = r - 1 /\ Added(m)' = r - 0
      BY <1>3, <2>4, <2>6, <3>1, <3>2, Zenon
    <3> QED  BY <2>6, <3>3
  <2>7. CASE m # a
    <3>1. PICK d \in 0..1 : d = Due(wire[QpOf(m)], m)
      BY DEF Due
    <3>2. Due(wire'[QpOf(m)], m) = d
      <4>1. CASE QpOf(m) = q
        <5>1. Due(wire[q], m) = 0 /\ Due(wire'[q], m) = 0
          BY <1>3, <1>6, <2>5, <2>7, Zenon DEF Due
        <5> QED  BY <3>1, <4>1, <5>1, Zenon
      <4>2. CASE QpOf(m) # q
        BY <1>6, <2>1, <3>1, <4>2, Zenon
      <4> QED  BY <4>1, <4>2, Zenon
    <3>3. Added(m) = r - d /\ Added(m)' = r - d
      BY <2>4, <3>1, <3>2, Zenon
    <3> QED  BY <2>7, <3>3
  <2> QED  BY <2>6, <2>7, Zenon
<1>11. MarkersCount'
  <2> DEFINE e == IF cfg.mode = "READ" THEN 1 ELSE 0
  <2>1. SUFFICES ASSUME NEW m \in Markers
        PROVE  tail_markers'[m] = Added(m)' + e /\ (cfg.mode = "READ" => returns'[m] = Added(m)')
    BY <1>1, MarkersCountIs, Zenon
  <2>2. PICK x \in Int : x = Added(m) /\ Added(m)' = x + (IF m = a THEN 1 ELSE 0)
    BY <1>10, Zenon
  <2>3. tail_markers[m] = x + e /\ (cfg.mode = "READ" => returns[m] = x)
    BY <1>2, <2>2, Zenon DEF MarkersCount
  <2>4. CASE m = a
    <3>1. /\ tail_markers'[m] = (x + e) + 1 /\ returns'[m] = x + e /\ Added(m)' = x + 1
      BY <1>7, <2>2, <2>3, <2>4, Zenon
    <3> QED  BY <3>1
  <2>5. CASE m # a
    <3>1. tail_markers'[m] = x + e /\ returns'[m] = returns[m] /\ Added(m)' = x + 0
      BY <1>7, <2>2, <2>3, <2>5, Zenon
    <3>2. x + 0 = x
      OBVIOUS
    <3> QED  BY <2>3, <3>1, <3>2, Zenon
  <2> QED  BY <2>4, <2>5, Zenon
<1>12. Forward
  <2>1. ASSUME NEW m \in Markers PROVE Marker(m)' >= Marker(m)
    <3>1. CASE m # a
      <4>1. Marker(m)' = Marker(m) /\ Marker(m) \in Nat
        BY <1>1, <1>7, <3>1, TypesMarker, Zenon DEF Marker
      <4> QED  BY <4>1
    <3>2. CASE m = a
      <4>1. tail_markers[a] \in Nat /\ returns[a] \in Nat /\ Added(a) \in Int
        BY <1>3, <1>4, <1>10, Zenon
      <4>2. cfg.mode = "READ" => tail_markers[a] = Added(a) + 1 /\ returns[a] = Added(a)
        BY <1>2, <1>3, Zenon DEF MarkersCount
      <4>3. cfg.mode = "READ" => returns'[a] >= returns[a]
        BY <1>7, <4>1, <4>2
      <4>4. tail_markers'[a] >= tail_markers[a]
        BY <1>7, <4>1
      <4> QED  BY <1>1, <3>2, <4>3, <4>4, Zenon DEF Marker
    <3> QED  BY <3>1, <3>2, Zenon
  <2>2. ASSUME NEW p \in Qps, NEW s \in 0..(Slots - 1) PROVE Reached(p, s)' >= Reached(p, s)
    <3>1. Reached(p, s)' = Reached(p, s) /\ Reached(p, s) = ReachedAt(landed[p], flush[p], s)
      BY <1>1, ReachedAre, Zenon
    <3>2. RoundsAt(landed[p], s) \in Nat
      BY <1>4, TypesQp, RoundsOf, Zenon
    <3> QED  BY <3>1, <3>2 DEF ReachedAt
  <2> QED  BY <1>1, <2>1, <2>2, Zenon DEF Forward
<1> QED  BY <1>1, <1>8, <1>9, <1>11, <1>12, Places, Zenon DEF NetInv

LEMMA NetStep ==
    ASSUME TypeOK, NetInv, NEW q \in Qps, Post(q) \/ Poll(q) \/ Fabric(q)
    PROVE  /\ NetOK' /\ NetInv' /\ Forward
           /\ cfg' = cfg /\ UNCHANGED <<threads, stop_flag, main, at_stop>>
<1>1. NetOK' /\ NetInv' /\ Forward
  BY PostStep, PollStep, LandStep, FlushedStep, FetchAndAddStep, Zenon DEF Fabric
<1>2. cfg' = cfg /\ UNCHANGED <<threads, stop_flag, main, at_stop>>
  BY Zenon DEF Post, Poll, Fabric, Land, Damage, Arrives, Flushed, FetchAndAdd
<1> QED  BY <1>1, <1>2, Zenon

-----------------------------------------------------------------------------
(* The threads.                                                            *)

LEMMA LookingIs ==
    ASSUME NEW v
    PROVE  /\ Looking(v) <=> LookingAt(validators[v], last_seen)
           /\ Draining(v) <=> DrainingAt(validators[v], last_seen)
  BY Zenon DEF Looking, LookingAt, Draining, DrainingAt, Scanning, Busy, Own, OwnOf

LEMMA LookingNext ==
    ASSUME cfg' = cfg, UNCHANGED <<client, fabric, stop_flag, at_stop>>, NEW v
    PROVE  /\ Looking(v)' <=> LookingAt(validators'[v], last_seen')
           /\ Draining(v)' <=> DrainingAt(validators'[v], last_seen')
<1>1. /\ \A m : Marker(m)' = Marker(m)
      /\ \A q, s : Reached(q, s)' = Reached(q, s)
      /\ faults' = faults
  BY NetSame, Zenon DEF fabric
<1>2. Draining(v)' <=> DrainingAt(validators'[v], last_seen')
  BY Zenon DEF Draining, DrainingAt, Scanning, Busy, Own, OwnOf
<1>3. Own(v)' = OwnOf(validators'[v]) /\ (Scanning(v)' <=> Busy(validators'[v]))
  BY Zenon DEF Own, OwnOf, Scanning, Busy
<1>4. Marker(Own(v))' = Marker(OwnOf(validators'[v]))
  BY Zenon DEF Marker, Own, OwnOf, fabric
<1>5. /\ QpOf(Own(v))' = QpOf(OwnOf(validators'[v]))
      /\ FirstSlot(Own(v))' = FirstSlot(OwnOf(validators'[v]))
  BY Zenon DEF Own, OwnOf, QpOf, FirstSlot
<1>6. Reached(QpOf(Own(v)), FirstSlot(Own(v)) + validators[v].k)'
        = Reached(QpOf(OwnOf(validators'[v])), FirstSlot(OwnOf(validators'[v])) + validators'[v].k)
  BY <1>5, Zenon DEF Reached, Rounds, Slots, fabric
<1>7. Looking(v)' <=> LookingAt(validators'[v], last_seen')
  BY <1>1, <1>3, <1>4, <1>6, Zenon DEF Looking, LookingAt
<1> QED  BY <1>2, <1>7, Zenon

LEMMA OwnersAre ==
    ASSUME cfg' = cfg
    PROVE  /\ OneOwner <=> OneOwnerOf(validators)
           /\ OneOwner' <=> OneOwnerOf(validators')
           /\ Seen = SeenOf(validators, last_seen)
           /\ Seen' = SeenOf(validators', last_seen')
<1>1. OneOwner <=> OneOwnerOf(validators)
  BY Zenon DEF OneOwner, OneOwnerOf, Validators
<1>2. OneOwner' <=> OneOwnerOf(validators')
  BY Places, Zenon DEF OneOwner, OneOwnerOf, Validators
<1>3. Seen = SeenOf(validators, last_seen)
  BY Zenon DEF Seen, SeenOf, Handled, Reader, Scanning, Busy, Own, OwnOf, Validators
<1>4. Seen' = SeenOf(validators', last_seen')
  BY Zenon DEF Seen, SeenOf, Handled, Reader, Scanning, Busy, Own, OwnOf, Validators, Markers, TotalMarkers
<1> QED  BY <1>1, <1>2, <1>3, <1>4, Zenon

LEMMA AddsNext ==
    ASSUME cfg' = cfg
    PROVE  AddsUpTo(Seen, stats.validated + stats.skipped)' <=>
             AddsUpTo(SeenOf(validators', last_seen'), stats'.validated + stats'.skipped)
  BY OwnersAre, Places, Zenon DEF AddsUpTo

(* A thread that handles a marker has come to one of its own, and looks at a
   slot of its chunk. *)
LEMMA AtOwn ==
    ASSUME TypeOK, NEW v \in Validators, validators[v].at <= Len(validators[v].own_markers)
    PROVE  /\ validators[v].at \in 1..Len(validators[v].own_markers)
           /\ Own(v) \in Markers /\ QpOf(Own(v)) \in Qps
<1>1. validators[v].own_markers \in Seq(Markers) /\ validators[v].at \in Pos /\ cfg \in Configs
  BY TypesThread, TypesCfg, Zenon
<1>2. validators[v].at \in 1..Len(validators[v].own_markers)
  BY <1>1 DEF Pos
<1>3. Own(v) \in Markers
  BY <1>1, <1>2 DEF Own
<1> QED  BY <1>1, <1>2, <1>3, MarkerParts, Zenon

LEMMA AtSlot ==
    ASSUME TypeOK, NEW v \in Validators, Looking(v), Scanning(v)
    PROVE  /\ validators[v].at \in 1..Len(validators[v].own_markers)
           /\ Own(v) \in Markers /\ QpOf(Own(v)) \in Qps
           /\ FirstSlot(Own(v)) + validators[v].k \in 0..(Slots - 1)
           /\ FirstSlot(Own(v)) + validators[v].k <= LastSlot(Own(v))
<1>1. validators[v].at <= Len(validators[v].own_markers) /\ validators[v].k < cfg.ops
  BY Zenon DEF Looking
<1>2. /\ validators[v].at \in 1..Len(validators[v].own_markers)
      /\ Own(v) \in Markers /\ QpOf(Own(v)) \in Qps
  BY <1>1, AtOwn, Zenon
<1>3. cfg \in Configs /\ validators[v].k \in Nat
  BY TypesThread, TypesCfg, Zenon
<1>4. cfg.ops \in Nat
  BY <1>3, Sizes DEF Pos
<1>5. validators[v].k \in 0..(cfg.ops - 1)
  BY <1>1, <1>3, <1>4
<1> QED  BY <1>2, <1>3, <1>5, ChunkSlots, Zenon

LEMMA DrainingNext ==
    ASSUME stop_flag' = stop_flag, at_stop' = at_stop, NEW v
    PROVE  Draining(v)' <=> DrainingAt(validators'[v], last_seen')
  BY Zenon DEF Draining, DrainingAt, Scanning, Busy, Own, OwnOf

LEMMA TeamOnNet ==
    ASSUME TypeOK, TeamInv, cfg' = cfg, UNCHANGED <<threads, stop_flag, main, at_stop>>, Forward,
           faults' \in Nat, \A m \in Markers : Marker(m)' \in Nat,
           \A p \in Qps, s \in 0..(Slots - 1) : Reached(p, s) \in Int /\ Reached(p, s)' \in Int
    PROVE  TeamInv'
<1>1. /\ validators' = validators /\ last_seen' = last_seen /\ stats' = stats /\ lapped' = lapped
      /\ stop_flag' = stop_flag /\ main' = main /\ at_stop' = at_stop
  BY Zenon DEF threads
<1>2. Validators' = Validators
  BY <1>1, Zenon DEF Validators
<1>3. OneOwner'
  BY <1>1, OwnersAre, Zenon DEF TeamInv
<1>4. Started'
  BY <1>1, Zenon DEF TeamInv, Started, Created, Validators
<1>5. NoFalseAlarm'
  <2>1. faults \in Nat
    BY TypesCfg, Zenon
  <2>2. faults > 0 => faults' > 0
    BY <2>1 DEF Forward
  <2> QED  BY <1>1, <2>2, Zenon DEF TeamInv, NoFalseAlarm
<1>6. ASSUME NEW m \in Markers
      PROVE  last_seen'[m] <= Marker(m)' /\ at_stop'[m] <= Marker(m)'
  <2>1. /\ last_seen[m] \in Nat /\ at_stop[m] \in Nat /\ Marker(m) \in Nat
    BY TypesMarker, Zenon
  <2>2. last_seen[m] <= Marker(m) /\ at_stop[m] <= Marker(m) /\ Marker(m)' >= Marker(m)
    BY Zenon DEF TeamInv, Forward
  <2>3. last_seen[m] <= Marker(m)' /\ at_stop[m] <= Marker(m)'
    BY <2>1, <2>2
  <2> QED  BY <1>1, <2>3, Zenon
<1>7. AddsUpTo(Seen, stats.validated + stats.skipped)'
  BY <1>1, AddsNext, OwnersAre, Zenon DEF TeamInv
<1>8. ASSUME NEW v \in Validators PROVE Looking(v)' /\ Draining(v)'
  <2>1. Looking(v) /\ Draining(v)
    BY Zenon DEF TeamInv
  <2>2. Own(v)' = Own(v) /\ (Scanning(v)' <=> Scanning(v))
    BY <1>1, Zenon DEF Own, Scanning
  <2>3. Draining(v)'
    <3>1. stop_flag' = stop_flag /\ at_stop' = at_stop
      BY <1>1, Zenon
    <3>2. Draining(v)' <=> DrainingAt(validators'[v], last_seen')
      BY <3>1, DrainingNext, Zenon
    <3> QED  BY <1>1, <2>1, <3>2, LookingIs, Zenon
  <2>4. ASSUME ~ Scanning(v) PROVE Looking(v)'
    <3>1. validators[v].pc \notin {"scan", "retry", "snap"}
      BY <2>4, Zenon DEF Scanning
    <3>2. validators[v].pc # "snap" /\ ~ Scanning(v)'
      BY <1>1, <3>1, Zenon DEF Scanning
    <3> QED  BY <1>1, <2>1, <2>4, <3>2, Zenon DEF Looking
  <2>5. ASSUME Scanning(v) PROVE Looking(v)'
    <3>1. PICK m \in Markers, p \in Qps, s \in 0..(Slots - 1) :
            m = Own(v) /\ p = QpOf(Own(v)) /\ s = FirstSlot(Own(v)) + validators[v].k
      BY <2>1, <2>5, AtSlot, Zenon
    <3>2. /\ validators[v].val \in (last_seen[m] + 1)..Marker(m)
          /\ validators[v].at <= Len(validators[v].own_markers) /\ validators[v].k < cfg.ops
          /\ validators[v].pc = "snap" /\ faults = 0 /\ cfg.ops >= TailSlots =>
               Reached(p, s) > validators[v].val
      BY <2>1, <2>5, <3>1, Zenon DEF Looking
    <3>3. Marker(m)' >= Marker(m) /\ Reached(p, s)' >= Reached(p, s) /\ (faults' = 0 => faults = 0)
      BY Zenon DEF Forward
    <3>4. /\ Marker(m) \in Nat /\ Marker(m)' \in Nat /\ last_seen[m] \in Nat /\ validators[v].val \in Nat
          /\ Reached(p, s) \in Int /\ Reached(p, s)' \in Int
      BY TypesMarker, TypesThread, Zenon
    <3>5. validators[v].val \in (last_seen[m] + 1)..Marker(m)'
      BY <3>2, <3>3, <3>4
    <3>6. Reached(p, s) > validators[v].val => Reached(p, s)' > validators[v].val
      BY <3>3, <3>4
    <3>7. Marker(Own(v))' = Marker(m)' /\ Own(v)' = m
      BY <1>1, <3>1, Zenon DEF Marker, Own
    <3>8. Reached(QpOf(Own(v)), FirstSlot(Own(v)) + validators[v].k)' = Reached(p, s)'
      BY <1>1, <3>1, Zenon DEF Reached, Rounds, Slots, QpOf, FirstSlot, Own
    <3>9. /\ Scanning(v)' /\ last_seen'[Own(v)'] = last_seen[m]
      BY <1>1, <2>2, <2>5, <3>7, Zenon
    <3>10. validators'[v] = validators[v] /\ cfg' = cfg
      BY <1>1, Zenon
    <3>11. validators[v].pc # "again"
      BY <2>5 DEF Scanning
    <3>12. validators[v].pc = "snap" /\ faults' = 0 /\ cfg.ops >= TailSlots => Reached(p, s)' > validators[v].val
      BY <3>2, <3>3, <3>6, Zenon
    <3> QED  BY <3>2, <3>5, <3>7, <3>8, <3>9, <3>10, <3>11, <3>12, Zenon DEF Looking
  <2> QED  BY <2>3, <2>4, <2>5, Zenon
<1> QED  BY <1>2, <1>3, <1>4, <1>5, <1>6, <1>7, <1>8, Places, Zenon DEF TeamInv

(* Rounds that are counted. *)
LEMMA AddsGrow ==
    ASSUME cfg \in Configs, NEW f, NEW g, NEW a \in Markers, NEW d \in Nat, NEW t \in Nat, NEW u,
           AddsUpTo(f, t), \A m \in Markers : f[m] \in Int,
           \A m \in Markers : g[m] = f[m] + (IF m = a THEN d ELSE 0), u = t + d
    PROVE  AddsUpTo(g, u)
<1>1. PICK M \in Nat \ {0} : M = TotalMarkers /\ Markers = 0..(M - 1)
  BY Sizes DEF Pos, Markers
<1>2. PICK sum \in [0..M -> 0..t] :
        sum[0] = 0 /\ sum[M] = t /\ \A m \in 0..(M - 1) : sum[m + 1] = sum[m] + f[m]
  BY <1>1, Zenon DEF AddsUpTo
<1> DEFINE sum2 == [i \in 0..M |-> sum[i] + (IF i > a THEN d ELSE 0)]
<1>3. a \in 0..(M - 1)
  BY <1>1
<1>4. \A i \in 0..M : sum[i] \in 0..t
  BY <1>2
<1>5. sum2 \in [0..M -> 0..u]
  BY <1>3, <1>4
<1>6. sum2[0] = 0 /\ sum2[M] = u
  BY <1>2, <1>3
<1>7. ASSUME NEW m \in 0..(M - 1) PROVE sum2[m + 1] = sum2[m] + g[m]
  <2>1. /\ sum[m + 1] = sum[m] + f[m] /\ sum[m] \in Nat /\ f[m] \in Int
        /\ g[m] = f[m] + (IF m = a THEN d ELSE 0)
        /\ m \in 0..M /\ m + 1 \in 0..M
    BY <1>1, <1>2, <1>4
  <2>2. /\ sum2[m + 1] = sum[m + 1] + (IF m + 1 > a THEN d ELSE 0)
        /\ sum2[m] = sum[m] + (IF m > a THEN d ELSE 0)
    BY <2>1, Zenon
  <2> HIDE DEF sum2
  <2>3. PICK x \in Nat, y \in Int : x = sum[m] /\ y = f[m]
    BY <2>1, Zenon
  <2>4. /\ sum2[m + 1] = (x + y) + (IF m + 1 > a THEN d ELSE 0)
        /\ sum2[m] = x + (IF m > a THEN d ELSE 0) /\ g[m] = y + (IF m = a THEN d ELSE 0)
    BY <2>1, <2>2, <2>3, Zenon
  <2>5. /\ m < a => ~(m + 1 > a) /\ ~(m > a) /\ m # a
        /\ m > a => m + 1 > a /\ m # a
        /\ m = a => m + 1 > a /\ ~(m > a)
        /\ m < a \/ m = a \/ m > a
    BY <1>3
  <2> QED  BY <2>4, <2>5
<1> HIDE DEF sum2
<1> QED  BY <1>1, <1>5, <1>6, <1>7, Zenon DEF AddsUpTo

LEMMA AddsSame ==
    ASSUME NEW f, NEW g, NEW t, AddsUpTo(f, t), \A m \in Markers : g[m] = f[m]
    PROVE  AddsUpTo(g, t)
  BY Zenon DEF AddsUpTo

LEMMA OwnerUnique ==
    ASSUME NEW vs, OneOwnerOf(vs), NEW v \in DOMAIN vs, NEW w \in DOMAIN vs,
           NEW i \in 1..Len(vs[v].own_markers), NEW j \in 1..Len(vs[w].own_markers),
           vs[v].own_markers[i] = vs[w].own_markers[j]
    PROVE  v = w /\ i = j
  BY DEF OneOwnerOf

Placed(vs) == \A u \in DOMAIN vs : Busy(vs[u]) => vs[u].at \in 1..Len(vs[u].own_markers)

LEMMA PlacedAt ==
    ASSUME NEW vs, Placed(vs), NEW u \in DOMAIN vs, Busy(vs[u])
    PROVE  vs[u].at \in 1..Len(vs[u].own_markers)
  BY Zenon DEF Placed

LEMMA OneReader ==
    ASSUME NEW vs, OneOwnerOf(vs), Placed(vs), NEW v \in DOMAIN vs, NEW i \in 1..Len(vs[v].own_markers),
           NEW u \in DOMAIN vs, Busy(vs[u]), OwnOf(vs[u]) = vs[v].own_markers[i]
    PROVE  u = v
<1>1. vs[u].at \in 1..Len(vs[u].own_markers) /\ vs[u].own_markers[vs[u].at] = vs[v].own_markers[i]
  BY PlacedAt, Zenon DEF OwnOf
<1> QED  BY <1>1, OwnerUnique

LEMMA SeenIdle ==
    ASSUME NEW vs, NEW ls, NEW m \in Markers, \A u \in DOMAIN vs : ~ (Busy(vs[u]) /\ OwnOf(vs[u]) = m)
    PROVE  SeenOf(vs, ls)[m] = ls[m]
  BY Zenon DEF SeenOf

(* What is counted for a marker depends on its owner alone. *)
LEMMA SeenBusy ==
    ASSUME NEW vs, NEW ls, OneOwnerOf(vs), Placed(vs), NEW v \in DOMAIN vs, Busy(vs[v]),
           OwnOf(vs[v]) \in Markers
    PROVE  SeenOf(vs, ls)[OwnOf(vs[v])] = vs[v].val - 1
<1> DEFINE m == OwnOf(vs[v])
           r == CHOOSE w \in DOMAIN vs : Busy(vs[w]) /\ OwnOf(vs[w]) = m
<1>1. r \in DOMAIN vs /\ Busy(vs[r]) /\ OwnOf(vs[r]) = m
  BY Zenon
<1>2. r = v
  <2> HIDE DEF r
  <2>1. vs[v].at \in 1..Len(vs[v].own_markers)
    BY PlacedAt, Zenon
  <2>2. OwnOf(vs[r]) = vs[v].own_markers[vs[v].at]
    BY <1>1, Zenon DEF OwnOf
  <2> QED  BY <1>1, <2>1, <2>2, OneReader, Zenon
<1> QED  BY <1>2, Zenon DEF SeenOf

(* Thread v has marker m at place i of its list, the place it is busy at if it is busy. *)
ReadsAt(vs, v, i, m) ==
  /\ OneOwnerOf(vs) /\ Placed(vs) /\ v \in DOMAIN vs /\ i \in 1..Len(vs[v].own_markers)
  /\ vs[v].own_markers[i] = m /\ (Busy(vs[v]) => vs[v].at = i)

LEMMA SeenAt ==
    ASSUME NEW vs, NEW v, NEW i, NEW m \in Markers, ReadsAt(vs, v, i, m), NEW ls
    PROVE  /\ Busy(vs[v]) => SeenOf(vs, ls)[m] = vs[v].val - 1
           /\ ~ Busy(vs[v]) => SeenOf(vs, ls)[m] = ls[m]
<1>0. /\ OneOwnerOf(vs) /\ Placed(vs) /\ v \in DOMAIN vs /\ i \in 1..Len(vs[v].own_markers)
      /\ vs[v].own_markers[i] = m /\ (Busy(vs[v]) => vs[v].at = i)
  BY Zenon DEF ReadsAt
<1>1. ASSUME Busy(vs[v]) PROVE SeenOf(vs, ls)[m] = vs[v].val - 1
  <2>1. OwnOf(vs[v]) = m
    BY <1>0, <1>1, Zenon DEF OwnOf
  <2> QED  BY <1>0, <1>1, <2>1, SeenBusy, Zenon
<1>2. ASSUME ~ Busy(vs[v]) PROVE SeenOf(vs, ls)[m] = ls[m]
  <2>1. ASSUME NEW u \in DOMAIN vs, Busy(vs[u]), OwnOf(vs[u]) = m PROVE FALSE
    <3>1. u = v
      BY <1>0, <2>1, OneReader, Zenon
    <3> QED  BY <1>2, <2>1, <3>1, Zenon
  <2>2. \A u \in DOMAIN vs : ~ (Busy(vs[u]) /\ OwnOf(vs[u]) = m)
    BY <2>1, Zenon
  <2> QED  BY <2>2, SeenIdle, Zenon
<1> QED  BY <1>1, <1>2, Zenon

(* Of the threads only v moves. *)
OneMoves(vs, ws, v) ==
  /\ v \in DOMAIN vs /\ DOMAIN ws = DOMAIN vs /\ \A u \in DOMAIN vs \ {v} : ws[u] = vs[u]
  /\ OneOwnerOf(vs) /\ Placed(vs) /\ OneOwnerOf(ws) /\ Placed(ws)

(* A step of one thread leaves the count of every marker that it handles
   neither before nor after it. *)
LEMMA SeenOther ==
    ASSUME NEW vs, NEW ws, NEW v, OneMoves(vs, ws, v), NEW ls, NEW ls2,
           NEW m \in Markers, ls2[m] = ls[m], ~ (Busy(vs[v]) /\ OwnOf(vs[v]) = m),
           ~ (Busy(ws[v]) /\ OwnOf(ws[v]) = m)
    PROVE  SeenOf(ws, ls2)[m] = SeenOf(vs, ls)[m]
<1>1. v \in DOMAIN vs /\ DOMAIN ws = DOMAIN vs /\ \A u \in DOMAIN vs \ {v} : ws[u] = vs[u]
  BY Zenon DEF OneMoves
<1>2. OneOwnerOf(vs) /\ Placed(vs) /\ OneOwnerOf(ws) /\ Placed(ws)
  BY Zenon DEF OneMoves
<1>3. CASE \E u \in DOMAIN vs : Busy(vs[u]) /\ OwnOf(vs[u]) = m
  <2>1. PICK u \in DOMAIN vs : Busy(vs[u]) /\ OwnOf(vs[u]) = m
    BY <1>3, Zenon
  <2>2. ws[u] = vs[u]
    BY <1>1, <2>1, Zenon
  <2>3. SeenOf(vs, ls)[m] = vs[u].val - 1
    BY <1>2, <2>1, SeenBusy, Zenon
  <2>5. SeenOf(ws, ls2)[OwnOf(ws[u])] = ws[u].val - 1
    <3>1. u \in DOMAIN ws /\ Busy(ws[u]) /\ OwnOf(ws[u]) \in Markers
      BY <1>1, <2>1, <2>2, Zenon
    <3> QED  BY <1>2, <3>1, SeenBusy, Zenon
  <2> QED  BY <2>1, <2>2, <2>3, <2>5, Zenon
<1>4. CASE ~ \E u \in DOMAIN vs : Busy(vs[u]) /\ OwnOf(vs[u]) = m
  <2>1. SeenOf(vs, ls)[m] = ls[m]
    BY <1>4, SeenIdle, Zenon
  <2>2. \A u \in DOMAIN ws : ~ (Busy(ws[u]) /\ OwnOf(ws[u]) = m)
    BY <1>1, <1>4, Zenon
  <2>3. SeenOf(ws, ls2)[m] = ls2[m]
    BY <2>2, SeenIdle, Zenon
  <2> QED  BY <2>1, <2>3, Zenon
<1> QED  BY <1>3, <1>4, Zenon

-----------------------------------------------------------------------------
(* Steps of a thread.                                                      *)

LEMMA TeamIs ==
    ASSUME TypeOK
    PROVE  /\ Validators = 0..(get_num_validators(cfg) - 1)
           /\ validators \in [Validators -> ThreadState] /\ DOMAIN validators = Validators
           /\ last_seen \in [Markers -> Nat] /\ at_stop \in [Markers -> Nat]
           /\ stats \in [validated : Nat, skipped : Nat, errors : Nat]
           /\ main \in {"starting", "waiting", "run", "failing", "destroying", "joining",
                        "passed", "not passed", "failed", "destroyed"}
<1>1. validators \in [0..(get_num_validators(cfg) - 1) -> ThreadState]
  BY Zenon DEF TypeOK, ThreadState
<1>2. Validators = 0..(get_num_validators(cfg) - 1)
  BY <1>1, Zenon DEF Validators
<1> QED  BY <1>1, <1>2, Zenon DEF TypeOK, Validators

LEMMA OwnersSame ==
    ASSUME NEW vs, NEW ws, DOMAIN ws = DOMAIN vs,
           \A u \in DOMAIN vs : ws[u].own_markers = vs[u].own_markers, OneOwnerOf(vs)
    PROVE  OneOwnerOf(ws)
<1>1. ASSUME NEW m \in Markers
      PROVE  \E v \in DOMAIN ws : \E i \in 1..Len(ws[v].own_markers) : ws[v].own_markers[i] = m
  <2>1. PICK v \in DOMAIN vs : \E i \in 1..Len(vs[v].own_markers) : vs[v].own_markers[i] = m
    BY Zenon DEF OneOwnerOf
  <2>2. v \in DOMAIN ws /\ ws[v].own_markers = vs[v].own_markers
    BY Zenon
  <2> QED  BY <2>1, <2>2, Zenon
<1>2. ASSUME NEW v \in DOMAIN ws, NEW w \in DOMAIN ws, NEW i \in 1..Len(ws[v].own_markers),
             NEW j \in 1..Len(ws[w].own_markers), ws[v].own_markers[i] = ws[w].own_markers[j]
      PROVE  v = w /\ i = j
  <2>1. /\ i \in 1..Len(vs[v].own_markers) /\ j \in 1..Len(vs[w].own_markers)
        /\ vs[v].own_markers[i] = vs[w].own_markers[j] /\ v \in DOMAIN vs /\ w \in DOMAIN vs
    BY <1>2, Zenon
  <2> QED  BY <2>1, OwnerUnique
<1> QED  BY <1>1, <1>2, Zenon DEF OneOwnerOf

(* What a thread's step leaves to the other threads. *)
LEMMA ThreadStep ==
    ASSUME TypeOK, TeamInv, NEW v \in Validators, NEW x \in ThreadState,
           cfg' = cfg, UNCHANGED <<client, fabric, stop_flag, main, at_stop>>,
           validators' = [validators EXCEPT ![v] = x], x.own_markers = validators[v].own_markers,
           validators[v].pc # "none", validators[v].pc # "ended", x.pc # "none",
           last_seen' \in [Markers -> Nat],
           \A m \in Markers : /\ last_seen'[m] >= last_seen[m] /\ last_seen'[m] <= Marker(m)
                              /\ last_seen'[m] # last_seen[m] => Busy(validators[v]) /\ m = Own(v),
           stats' \in [validated : Nat, skipped : Nat, errors : Nat], lapped' \in BOOLEAN,
           LookingAt(x, last_seen'), DrainingAt(x, last_seen'), NoFalseAlarm',
           AddsUpTo(SeenOf(validators', last_seen'), stats'.validated + stats'.skipped)
    PROVE  TeamOK' /\ TeamInv'
<1>1. /\ Validators = 0..(get_num_validators(cfg) - 1)
      /\ validators \in [Validators -> ThreadState] /\ DOMAIN validators = Validators
      /\ at_stop \in [Markers -> Nat] /\ stop_flag \in BOOLEAN
  BY TeamIs, TypesCfg, Zenon
<1>2. /\ validators' \in [Validators -> ThreadState] /\ validators'[v] = x /\ DOMAIN validators' = Validators
      /\ \A u \in Validators \ {v} : validators'[u] = validators[u]
  BY <1>1, Zenon
<1>3. TeamOK'
  <2>1. TeamOK
    BY TypeParts, Zenon
  <2>2. ThreadState' = ThreadState
    BY Places, Zenon DEF ThreadState
  <2> QED  BY <1>1, <1>2, <2>1, <2>2, Places, Zenon DEF TeamOK
<1>4. Validators' = Validators
  BY <1>2, Zenon DEF Validators
<1>5. \A u \in Validators : validators'[u].own_markers = validators[u].own_markers
  BY <1>2, Zenon
<1>6. OneOwner'
  <2>1. OneOwnerOf(validators)
    BY OwnersAre, Zenon DEF TeamInv
  <2>2. OneOwnerOf(validators')
    BY <1>1, <1>2, <1>5, <2>1, OwnersSame, Zenon
  <2> QED  BY <2>2, OwnersAre, Zenon
<1>7. Started'
  <2>1. Started
    BY Zenon DEF TeamInv
  <2>2. Created' = Created
    <3>1. \A u \in Validators : validators'[u].pc # "none" <=> validators[u].pc # "none"
      BY <1>2, Zenon
    <3> QED  BY <1>4, <3>1 DEF Created
  <2>3. main \notin {"passed", "not passed"}
    BY <2>1, Zenon DEF Started
  <2> QED  BY <1>4, <2>1, <2>2, <2>3, Zenon DEF Started
<1>8. \A m : Marker(m)' = Marker(m)
  BY NetSame, Zenon
<1>9. ASSUME NEW m \in Markers
      PROVE  last_seen'[m] <= Marker(m)' /\ at_stop'[m] <= Marker(m)'
  BY <1>8, Zenon DEF TeamInv
<1>10. ASSUME NEW u \in Validators PROVE Looking(u)' /\ Draining(u)'
  <2>1. CASE u = v
    BY <1>2, <2>1, LookingNext, Zenon
  <2>2. CASE u # v
    <3> DEFINE y == validators[u]
    <3>1. LookingAt(y, last_seen) /\ DrainingAt(y, last_seen) /\ Looking(u)
      BY LookingIs, Zenon DEF TeamInv
    <3>2. LookingAt(y, last_seen')
      <4>1. ASSUME Busy(y) PROVE last_seen'[OwnOf(y)] = last_seen[OwnOf(y)]
        <5>1. Own(u) \in Markers /\ y.at \in 1..Len(y.own_markers) /\ Own(u) = OwnOf(y)
          BY <3>1, <4>1, AtSlot, Zenon DEF Scanning, Busy, Own, OwnOf
        <5>2. ASSUME Busy(validators[v]), Own(u) = Own(v) PROVE FALSE
          <6>1. Looking(v)
            BY Zenon DEF TeamInv
          <6>2. validators[v].at \in 1..Len(validators[v].own_markers)
            BY <5>2, <6>1, AtSlot, Zenon DEF Scanning, Busy
          <6>3. OneOwnerOf(validators)
            BY OwnersAre, Zenon DEF TeamInv
          <6>4. y.own_markers[y.at] = validators[v].own_markers[validators[v].at]
            BY <5>2, Zenon DEF Own
          <6>5. u = v
            BY <1>1, <5>1, <6>2, <6>3, <6>4, OwnerUnique, Zenon
          <6> QED  BY <2>2, <6>5, Zenon
        <5> QED  BY <5>1, <5>2, Zenon
      <4> QED  BY <3>1, <4>1, Zenon DEF LookingAt
    <3>3. DrainingAt(y, last_seen')
      <4>1. ASSUME NEW i \in 1..Len(y.own_markers),
                   last_seen[y.own_markers[i]] >= at_stop[y.own_markers[i]]
            PROVE  last_seen'[y.own_markers[i]] >= at_stop[y.own_markers[i]]
        <5>1. y.own_markers \in Seq(Markers)
          BY TypesThread, Zenon
        <5>2. PICK m \in Markers : m = y.own_markers[i]
          BY <5>1, SeqAt, Zenon
        <5>3. last_seen[m] \in Nat /\ at_stop[m] \in Nat /\ last_seen'[m] \in Nat /\ last_seen'[m] >= last_seen[m]
          BY TypesMarker, Zenon
        <5>4. \A a, b, c \in Nat : a >= b /\ b >= c => a >= c
          OBVIOUS
        <5>5. last_seen'[m] >= at_stop[m]
          BY <4>1, <5>2, <5>3, <5>4, Zenon
        <5> QED  BY <5>2, <5>5, Zenon
      <4> QED  BY <3>1, <4>1, Zenon DEF DrainingAt
    <3> QED  BY <1>2, <2>2, <3>2, <3>3, LookingNext, Zenon
  <2> QED  BY <2>1, <2>2, Zenon
<1>11. AddsUpTo(Seen, stats.validated + stats.skipped)'
  BY AddsNext, Zenon
<1> QED  BY <1>3, <1>4, <1>6, <1>7, <1>9, <1>10, <1>11, Places, Zenon DEF TeamInv

LEMMA OwnersKept ==
    ASSUME NEW vs, OneOwnerOf(vs), NEW v \in DOMAIN vs, NEW x, x.own_markers = vs[v].own_markers
    PROVE  OneOwnerOf([vs EXCEPT ![v] = x])
<1> DEFINE ws == [vs EXCEPT ![v] = x]
<1>1. DOMAIN ws = DOMAIN vs /\ \A u \in DOMAIN vs : ws[u].own_markers = vs[u].own_markers
  BY Zenon
<1> HIDE DEF ws
<1>2. OneOwnerOf(ws)
  BY <1>1, OwnersSame, Zenon
<1> QED  BY <1>2, Zenon DEF ws

LEMMA PlacedKept ==
    ASSUME NEW vs, Placed(vs), NEW v, NEW x, Busy(x) => x.at \in 1..Len(x.own_markers),
           NEW ws, DOMAIN ws = DOMAIN vs, ws[v] = x, \A u \in DOMAIN vs \ {v} : ws[u] = vs[u]
    PROVE  Placed(ws)
  BY Zenon DEF Placed

LEMMA SeenKept ==
    ASSUME NEW vs, NEW ws, NEW v, OneMoves(vs, ws, v), NEW ls,
           OwnOf(ws[v]) = OwnOf(vs[v]), ws[v].val = vs[v].val,
           Busy(ws[v]) => Busy(vs[v]), Busy(vs[v]) => Busy(ws[v]), NEW m \in Markers
    PROVE  SeenOf(ws, ls)[m] = SeenOf(vs, ls)[m]
<1>1. /\ v \in DOMAIN vs /\ DOMAIN ws = DOMAIN vs
      /\ OneOwnerOf(vs) /\ Placed(vs) /\ OneOwnerOf(ws) /\ Placed(ws)
  BY Zenon DEF OneMoves
<1>4. CASE Busy(vs[v]) /\ OwnOf(vs[v]) = m
  <2>1. SeenOf(vs, ls)[m] = vs[v].val - 1
    BY <1>1, <1>4, SeenBusy, Zenon
  <2>4. v \in DOMAIN ws /\ Busy(ws[v]) /\ OwnOf(ws[v]) = m
    BY <1>1, <1>4, Zenon
  <2>5. SeenOf(ws, ls)[OwnOf(ws[v])] = ws[v].val - 1
    BY <1>1, <2>4, SeenBusy, Zenon
  <2> QED  BY <2>1, <2>4, <2>5, Zenon
<1>5. CASE ~ (Busy(vs[v]) /\ OwnOf(vs[v]) = m)
  <2>1. ~ (Busy(ws[v]) /\ OwnOf(ws[v]) = m)
    BY <1>5, Zenon
  <2> QED  BY <1>5, <2>1, SeenOther
<1> QED  BY <1>4, <1>5, Zenon

LEMMA SeenIdleKept ==
    ASSUME NEW vs, NEW ws, NEW v, OneMoves(vs, ws, v), NEW ls,
           ~ Busy(ws[v]), ~ Busy(vs[v]), NEW m \in Markers
    PROVE  SeenOf(ws, ls)[m] = SeenOf(vs, ls)[m]
  BY SeenOther

LEMMA BusyAtOwn ==
    ASSUME TypeOK, TeamInv
    PROVE  Placed(validators)
<1> SUFFICES ASSUME NEW u \in Validators, Busy(validators[u])
             PROVE  validators[u].at \in 1..Len(validators[u].own_markers)
  BY Zenon DEF Validators, Placed
<1>1. Looking(u) /\ Scanning(u)
  BY Zenon DEF TeamInv, Scanning, Busy
<1> QED  BY <1>1, AtSlot, Zenon

(* Steps that count nothing. *)
LEMMA QuietStep ==
    ASSUME TypeOK, TeamInv, NEW v \in Validators, NEW x \in ThreadState,
           cfg' = cfg, UNCHANGED <<client, fabric, last_seen, stats, lapped, stop_flag, main, at_stop>>,
           validators' = [validators EXCEPT ![v] = x], x.own_markers = validators[v].own_markers,
           validators[v].pc # "none", validators[v].pc # "ended", x.pc # "none",
           Busy(x) <=> Busy(validators[v]),
           Busy(x) => x.at = validators[v].at /\ x.val = validators[v].val,
           LookingAt(x, last_seen), DrainingAt(x, last_seen)
    PROVE  TeamOK' /\ TeamInv'
<1>1. DOMAIN validators = Validators /\ last_seen \in [Markers -> Nat] /\ lapped \in BOOLEAN
      /\ stats \in [validated : Nat, skipped : Nat, errors : Nat]
  BY TeamIs, TypesCfg, Zenon
<1>2. OneOwnerOf(validators)
  BY OwnersAre, Zenon DEF TeamInv
<1>3. Placed(validators)
  BY BusyAtOwn, Zenon
<1>4. \A m \in Markers : SeenOf(validators', last_seen)[m] = SeenOf(validators, last_seen)[m]
  <2>1. PICK vs, ls, ws : vs = validators /\ ls = last_seen /\ ws = validators'
    BY Zenon
  <2>2. /\ DOMAIN ws = DOMAIN vs /\ \A u \in DOMAIN vs \ {v} : ws[u] = vs[u]
        /\ ws[v] = x /\ v \in DOMAIN vs
    BY <1>1, <2>1, Zenon
  <2>3. OneOwnerOf(vs) /\ Placed(vs)
    BY <1>2, <1>3, <2>1, Zenon
  <2>4. OneOwnerOf(ws)
    BY <1>1, <1>2, <2>1, OwnersKept, Zenon
  <2>5. Placed(ws)
    <3>1. Busy(x) => x.at \in 1..Len(x.own_markers)
      BY <1>1, <1>3, PlacedAt, Zenon
    <3> QED  BY <2>2, <2>3, <3>1, PlacedKept, Zenon
  <2>m. OneMoves(vs, ws, v)
    BY <2>2, <2>3, <2>4, <2>5, Zenon DEF OneMoves
  <2>6. CASE Busy(x)
    <3>1. /\ OwnOf(ws[v]) = OwnOf(vs[v]) /\ ws[v].val = vs[v].val /\ Busy(ws[v]) /\ Busy(vs[v])
      BY <2>1, <2>2, <2>6, Zenon DEF OwnOf
    <3>2. \A m \in Markers : SeenOf(ws, ls)[m] = SeenOf(vs, ls)[m]
      BY <2>m, <3>1, SeenKept
    <3> QED  BY <2>1, <3>2, Zenon
  <2>7. CASE ~ Busy(x)
    <3>1. ~ Busy(ws[v]) /\ ~ Busy(vs[v])
      BY <2>1, <2>2, <2>7, Zenon
    <3>2. \A m \in Markers : SeenOf(ws, ls)[m] = SeenOf(vs, ls)[m]
      BY <2>m, <3>1, SeenIdleKept
    <3> QED  BY <2>1, <3>2, Zenon
  <2> QED  BY <2>6, <2>7, Zenon
<1>5. AddsUpTo(SeenOf(validators, last_seen), stats.validated + stats.skipped)
  BY OwnersAre, Zenon DEF TeamInv
<1>6. AddsUpTo(SeenOf(validators', last_seen'), stats'.validated + stats'.skipped)
  <2>1. AddsUpTo(SeenOf(validators', last_seen), stats.validated + stats.skipped)
    <3>1. PICK f, g, t : /\ f = SeenOf(validators, last_seen) /\ g = SeenOf(validators', last_seen)
                         /\ t = stats.validated + stats.skipped
      BY Zenon
    <3>2. AddsUpTo(f, t) /\ \A m \in Markers : g[m] = f[m]
      BY <1>4, <1>5, <3>1, Zenon
    <3>3. AddsUpTo(g, t)
      BY <3>2, AddsSame
    <3> QED  BY <3>1, <3>3, Zenon
  <2> QED  BY <2>1, Zenon
<1>7. NoFalseAlarm'
  <2>1. faults' = faults
    BY Zenon DEF fabric
  <2> QED  BY <2>1, Zenon DEF TeamInv, NoFalseAlarm
<1>8. \A m \in Markers : last_seen'[m] >= last_seen[m] /\ last_seen'[m] <= Marker(m) /\ last_seen'[m] = last_seen[m]
  <2> SUFFICES ASSUME NEW m \in Markers
               PROVE  last_seen'[m] >= last_seen[m] /\ last_seen'[m] <= Marker(m) /\ last_seen'[m] = last_seen[m]
    OBVIOUS
  <2>1. last_seen[m] \in Nat /\ last_seen[m] <= Marker(m)
    BY TypesMarker, Zenon DEF TeamInv
  <2>2. last_seen[m] >= last_seen[m]
    BY <2>1
  <2> QED  BY <2>1, <2>2, Zenon
<1>9. /\ UNCHANGED <<client, fabric, stop_flag, main, at_stop>> /\ last_seen' \in [Markers -> Nat]
      /\ stats' \in [validated : Nat, skipped : Nat, errors : Nat] /\ lapped' \in BOOLEAN
      /\ LookingAt(x, last_seen') /\ DrainingAt(x, last_seen')
  BY <1>1, Zenon
<1> QED  BY <1>6, <1>7, <1>8, <1>9, ThreadStep, Zenon

Where == {"none", "created", "look", "again", "scan", "retry", "snap", "ended"}

LEMMA Made ==
    ASSUME NEW p \in Where, NEW w \in Seq(Markers), NEW a \in Nat \ {0}, NEW n \in Nat, NEW c \in Nat,
           NEW s \in Nat, NEW f \in BOOLEAN, NEW d \in BOOLEAN
    PROVE  [pc |-> p, own_markers |-> w, at |-> a, k |-> n, val |-> c, spin |-> s, found |-> f,
            draining |-> d] \in ThreadState
<1>1. PICK S : S = Seq(Markers)
  BY Zenon
<1>2. w \in S /\ ThreadState = [pc : Where, own_markers : S, at : Nat \ {0}, k : Nat, val : Nat,
        spin : Nat, found : BOOLEAN, draining : BOOLEAN]
  BY <1>1, Zenon DEF ThreadState, Where
<1> QED  BY <1>2

LEMMA FieldsOf ==
    ASSUME NEW p, NEW w, NEW a, NEW n, NEW c, NEW s, NEW f, NEW d, NEW x,
           x = [pc |-> p, own_markers |-> w, at |-> a, k |-> n, val |-> c, spin |-> s, found |-> f,
                draining |-> d]
    PROVE  /\ x.pc = p /\ x.own_markers = w /\ x.at = a /\ x.k = n /\ x.val = c
           /\ x.spin = s /\ x.found = f /\ x.draining = d
  OBVIOUS

LEMMA ThreadIs ==
    ASSUME NEW y \in ThreadState
    PROVE  \E p \in Where, w \in Seq(Markers), a \in Nat \ {0}, n \in Nat, c \in Nat, s \in Nat,
              f \in BOOLEAN, d \in BOOLEAN :
             y = [pc |-> p, own_markers |-> w, at |-> a, k |-> n, val |-> c, spin |-> s, found |-> f,
                  draining |-> d]
<1>1. PICK S : S = Seq(Markers)
  BY Zenon
<1>2. y \in [pc : Where, own_markers : S, at : Nat \ {0}, k : Nat, val : Nat,
             spin : Nat, found : BOOLEAN, draining : BOOLEAN]
  BY <1>1, Zenon DEF ThreadState, Where
<1>3. /\ y.pc \in Where /\ y.own_markers \in S /\ y.at \in Nat \ {0} /\ y.k \in Nat
      /\ y.val \in Nat /\ y.spin \in Nat /\ y.found \in BOOLEAN /\ y.draining \in BOOLEAN
  BY <1>2
<1>4. y = [pc |-> y.pc, own_markers |-> y.own_markers, at |-> y.at, k |-> y.k, val |-> y.val,
           spin |-> y.spin, found |-> y.found, draining |-> y.draining]
  BY <1>2
<1> QED  BY <1>1, <1>3, <1>4, Zenon

LEMMA GotoIs ==
    ASSUME NEW y \in ThreadState, NEW o \in Where
    PROVE  \A x : x = [y EXCEPT !.pc = o] =>
             /\ x \in ThreadState /\ x.pc = o /\ x.own_markers = y.own_markers /\ x.at = y.at /\ x.k = y.k
             /\ x.val = y.val /\ x.draining = y.draining
<1>0. SUFFICES ASSUME NEW x, x = [y EXCEPT !.pc = o]
      PROVE  /\ x \in ThreadState /\ x.pc = o /\ x.own_markers = y.own_markers /\ x.at = y.at /\ x.k = y.k
             /\ x.val = y.val /\ x.draining = y.draining
  OBVIOUS
<1>1. PICK p \in Where, w \in Seq(Markers), a \in Nat \ {0}, n \in Nat, c \in Nat, s \in Nat,
           f \in BOOLEAN, d \in BOOLEAN :
        y = [pc |-> p, own_markers |-> w, at |-> a, k |-> n, val |-> c,
           spin |-> s, found |-> f, draining |-> d]
  BY ThreadIs
<1>2. y.own_markers = w /\ y.at = a /\ y.k = n /\ y.val = c /\ y.spin = s /\ y.pc = p /\ y.found = f
      /\ y.draining = d
  BY <1>1
<1>3. x = [pc |-> o, own_markers |-> w, at |-> a, k |-> n, val |-> c,
           spin |-> s, found |-> f, draining |-> d]
  BY <1>0, <1>1, <1>2
<1>4. o \in Where
  BY Zenon
<1>5. [pc |-> o, own_markers |-> w, at |-> a, k |-> n, val |-> c,
           spin |-> s, found |-> f, draining |-> d] \in ThreadState
  BY <1>4, Made, Zenon
<1>6. /\ x.pc = o /\ x.own_markers = w /\ x.at = a /\ x.k = n /\ x.val = c
      /\ x.draining = d
  BY <1>3, FieldsOf
<1> QED  BY <1>2, <1>3, <1>5, <1>6, Zenon

LEMMA NextSlotIs ==
    ASSUME NEW y \in ThreadState
    PROVE  \A x : x = [y EXCEPT !.k = y.k + 1] =>
             /\ x \in ThreadState /\ x.pc = y.pc /\ x.own_markers = y.own_markers /\ x.at = y.at
             /\ x.k = y.k + 1 /\ x.val = y.val /\ x.draining = y.draining
<1>0. SUFFICES ASSUME NEW x, x = [y EXCEPT !.k = y.k + 1]
      PROVE  /\ x \in ThreadState /\ x.pc = y.pc /\ x.own_markers = y.own_markers /\ x.at = y.at
             /\ x.k = y.k + 1 /\ x.val = y.val /\ x.draining = y.draining
  OBVIOUS
<1>1. PICK p \in Where, w \in Seq(Markers), a \in Nat \ {0}, n \in Nat, c \in Nat, s \in Nat,
           f \in BOOLEAN, d \in BOOLEAN :
        y = [pc |-> p, own_markers |-> w, at |-> a, k |-> n, val |-> c,
           spin |-> s, found |-> f, draining |-> d]
  BY ThreadIs
<1>2. y.own_markers = w /\ y.at = a /\ y.k = n /\ y.val = c /\ y.spin = s /\ y.pc = p /\ y.found = f
      /\ y.draining = d
  BY <1>1
<1>3. x = [pc |-> p, own_markers |-> w, at |-> a, k |-> n + 1, val |-> c,
           spin |-> s, found |-> f, draining |-> d]
  BY <1>0, <1>1, <1>2
<1>4. n + 1 \in Nat
  BY DEF Where
<1>5. [pc |-> p, own_markers |-> w, at |-> a, k |-> n + 1, val |-> c,
           spin |-> s, found |-> f, draining |-> d] \in ThreadState
  BY <1>4, Made, Zenon
<1>6. /\ x.pc = p /\ x.own_markers = w /\ x.at = a /\ x.k = n + 1 /\ x.val = c
      /\ x.draining = d
  BY <1>3, FieldsOf
<1> QED  BY <1>2, <1>3, <1>5, <1>6, Zenon

OnHit(y, val) == [y EXCEPT !.pc = "scan", !.val = val, !.found = TRUE]
LEMMA HitIs ==
    ASSUME NEW y \in ThreadState, NEW val \in Nat
    PROVE  \A x : x = OnHit(y, val) =>
             /\ x \in ThreadState /\ x.pc = "scan" /\ x.own_markers = y.own_markers /\ x.at = y.at
             /\ x.k = y.k /\ x.val = val /\ x.draining = y.draining
<1>0. SUFFICES ASSUME NEW x, x = OnHit(y, val)
      PROVE  /\ x \in ThreadState /\ x.pc = "scan" /\ x.own_markers = y.own_markers /\ x.at = y.at
             /\ x.k = y.k /\ x.val = val /\ x.draining = y.draining
  OBVIOUS
<1>1. PICK p \in Where, w \in Seq(Markers), a \in Nat \ {0}, n \in Nat, c \in Nat, s \in Nat,
           f \in BOOLEAN, d \in BOOLEAN :
        y = [pc |-> p, own_markers |-> w, at |-> a, k |-> n, val |-> c,
           spin |-> s, found |-> f, draining |-> d]
  BY ThreadIs
<1>2. y.own_markers = w /\ y.at = a /\ y.k = n /\ y.val = c /\ y.spin = s /\ y.pc = p /\ y.found = f
      /\ y.draining = d
  BY <1>1
<1>3. x = [pc |-> "scan", own_markers |-> w, at |-> a, k |-> n, val |-> val,
           spin |-> s, found |-> TRUE, draining |-> d]
  BY <1>0, <1>1, <1>2, Zenon DEF OnHit
<1>4. "scan" \in Where /\ TRUE \in BOOLEAN
  BY DEF Where
<1>5. [pc |-> "scan", own_markers |-> w, at |-> a, k |-> n, val |-> val,
           spin |-> s, found |-> TRUE, draining |-> d] \in ThreadState
  BY <1>4, Made, Zenon
<1>6. /\ x.pc = "scan" /\ x.own_markers = w /\ x.at = a /\ x.k = n /\ x.val = val
      /\ x.draining = d
  BY <1>3, FieldsOf
<1> QED  BY <1>2, <1>3, <1>5, <1>6, Zenon

OnMiss(y) == [y EXCEPT !.pc = "look", !.at = y.at + 1]
LEMMA MissIs ==
    ASSUME NEW y \in ThreadState
    PROVE  \A x : x = OnMiss(y) =>
             /\ x \in ThreadState /\ x.pc = "look" /\ x.own_markers = y.own_markers /\ x.at = y.at + 1
             /\ x.k = y.k /\ x.draining = y.draining
<1>0. SUFFICES ASSUME NEW x, x = OnMiss(y)
      PROVE  /\ x \in ThreadState /\ x.pc = "look" /\ x.own_markers = y.own_markers /\ x.at = y.at + 1
             /\ x.k = y.k /\ x.draining = y.draining
  OBVIOUS
<1>1. PICK p \in Where, w \in Seq(Markers), a \in Nat \ {0}, n \in Nat, c \in Nat, s \in Nat,
           f \in BOOLEAN, d \in BOOLEAN :
        y = [pc |-> p, own_markers |-> w, at |-> a, k |-> n, val |-> c,
           spin |-> s, found |-> f, draining |-> d]
  BY ThreadIs
<1>2. y.own_markers = w /\ y.at = a /\ y.k = n /\ y.val = c /\ y.spin = s /\ y.pc = p /\ y.found = f
      /\ y.draining = d
  BY <1>1
<1>3. x = [pc |-> "look", own_markers |-> w, at |-> a + 1, k |-> n, val |-> c,
           spin |-> s, found |-> f, draining |-> d]
  BY <1>0, <1>1, <1>2, Zenon DEF OnMiss
<1>4. "look" \in Where /\ a + 1 \in Nat \ {0}
  BY DEF Where
<1>5. [pc |-> "look", own_markers |-> w, at |-> a + 1, k |-> n, val |-> c,
           spin |-> s, found |-> f, draining |-> d] \in ThreadState
  BY <1>4, Made, Zenon
<1>6. /\ x.pc = "look" /\ x.own_markers = w /\ x.at = a + 1 /\ x.k = n /\ x.val = c
      /\ x.draining = d
  BY <1>3, FieldsOf
<1> QED  BY <1>2, <1>3, <1>5, <1>6, Zenon

OnDone(y, o, b) == [y EXCEPT !.pc = o, !.at = b, !.val = 0, !.k = 0]
LEMMA DoneIs ==
    ASSUME NEW y \in ThreadState, NEW o \in Where, NEW b \in Nat \ {0}
    PROVE  \A x : x = OnDone(y, o, b) =>
             /\ x \in ThreadState /\ x.pc = o /\ x.own_markers = y.own_markers /\ x.at = b
             /\ x.k = 0 /\ x.val = 0 /\ x.draining = y.draining
<1>0. SUFFICES ASSUME NEW x, x = OnDone(y, o, b)
      PROVE  /\ x \in ThreadState /\ x.pc = o /\ x.own_markers = y.own_markers /\ x.at = b
             /\ x.k = 0 /\ x.val = 0 /\ x.draining = y.draining
  OBVIOUS
<1>1. PICK p \in Where, w \in Seq(Markers), a \in Nat \ {0}, n \in Nat, c \in Nat, s \in Nat,
           f \in BOOLEAN, d \in BOOLEAN :
        y = [pc |-> p, own_markers |-> w, at |-> a, k |-> n, val |-> c,
           spin |-> s, found |-> f, draining |-> d]
  BY ThreadIs
<1>2. y.own_markers = w /\ y.at = a /\ y.k = n /\ y.val = c /\ y.spin = s /\ y.pc = p /\ y.found = f
      /\ y.draining = d
  BY <1>1
<1>3. x = [pc |-> o, own_markers |-> w, at |-> b, k |-> 0, val |-> 0,
           spin |-> s, found |-> f, draining |-> d]
  BY <1>0, <1>1, <1>2, Zenon DEF OnDone
<1>4. 0 \in Nat
  BY DEF Where
<1>5. [pc |-> o, own_markers |-> w, at |-> b, k |-> 0, val |-> 0,
           spin |-> s, found |-> f, draining |-> d] \in ThreadState
  BY <1>4, Made, Zenon
<1>6. /\ x.pc = o /\ x.own_markers = w /\ x.at = b /\ x.k = 0 /\ x.val = 0
      /\ x.draining = d
  BY <1>3, FieldsOf
<1> QED  BY <1>2, <1>3, <1>5, <1>6, Zenon

OnAgain(y, t, e) == [[y EXCEPT !.at = 1, !.found = FALSE, !.spin = t] EXCEPT !.draining = e]
LEMMA AgainIs ==
    ASSUME NEW y \in ThreadState, NEW t \in Nat, NEW e \in BOOLEAN
    PROVE  \A x : x = OnAgain(y, t, e) =>
             /\ x \in ThreadState /\ x.pc = y.pc /\ x.own_markers = y.own_markers /\ x.at = 1
             /\ x.k = y.k /\ x.val = y.val /\ x.draining = e
<1>0. SUFFICES ASSUME NEW x, x = OnAgain(y, t, e)
      PROVE  /\ x \in ThreadState /\ x.pc = y.pc /\ x.own_markers = y.own_markers /\ x.at = 1
             /\ x.k = y.k /\ x.val = y.val /\ x.draining = e
  OBVIOUS
<1>1. PICK p \in Where, w \in Seq(Markers), a \in Nat \ {0}, n \in Nat, c \in Nat, s \in Nat,
           f \in BOOLEAN, d \in BOOLEAN :
        y = [pc |-> p, own_markers |-> w, at |-> a, k |-> n, val |-> c,
           spin |-> s, found |-> f, draining |-> d]
  BY ThreadIs
<1>2. y.own_markers = w /\ y.at = a /\ y.k = n /\ y.val = c /\ y.spin = s /\ y.pc = p /\ y.found = f
      /\ y.draining = d
  BY <1>1
<1>3. x = [pc |-> p, own_markers |-> w, at |-> 1, k |-> n, val |-> c,
           spin |-> t, found |-> FALSE, draining |-> e]
  BY <1>0, <1>1, <1>2, Zenon DEF OnAgain
<1>4. 1 \in Nat \ {0} /\ FALSE \in BOOLEAN
  BY DEF Where
<1>5. [pc |-> p, own_markers |-> w, at |-> 1, k |-> n, val |-> c,
           spin |-> t, found |-> FALSE, draining |-> e] \in ThreadState
  BY <1>4, Made, Zenon
<1>6. /\ x.pc = p /\ x.own_markers = w /\ x.at = 1 /\ x.k = n /\ x.val = c
      /\ x.draining = e
  BY <1>3, FieldsOf
<1> QED  BY <1>2, <1>3, <1>5, <1>6, Zenon

(* A change of the program counter alone. *)
LEMMA GotoKeeps ==
    ASSUME NEW x, NEW y, NEW ls, LookingAt(y, ls), DrainingAt(y, ls),
           x.own_markers = y.own_markers, x.at = y.at, x.k = y.k, x.val = y.val, x.draining = y.draining,
           Busy(x) <=> Busy(y), x.pc # "again", x.pc # "ended",
           x.pc = "snap" /\ faults = 0 /\ cfg.ops >= TailSlots =>
             Reached(QpOf(OwnOf(y)), FirstSlot(OwnOf(y)) + y.k) > y.val
    PROVE  LookingAt(x, ls) /\ DrainingAt(x, ls)
<1>1. OwnOf(x) = OwnOf(y)
  BY Zenon DEF OwnOf
<1>2. LookingAt(x, ls)
  BY <1>1, Zenon DEF LookingAt
<1>3. DrainingAt(x, ls)
  BY <1>1, Zenon DEF DrainingAt
<1> QED  BY <1>2, <1>3, Zenon

LEMMA ThreadSet ==
    ASSUME TypeOK, NEW v \in Validators
    PROVE  /\ \A o : Goto(v, o) => validators' = [validators EXCEPT ![v] = [validators[v] EXCEPT !.pc = o]]
           /\ NextSlot(v) => validators' = [validators EXCEPT ![v] = [validators[v] EXCEPT !.k = validators[v].k + 1]]
           /\ validators[v] \in ThreadState
<1>1. validators \in [Validators -> ThreadState]
  BY TeamIs, Zenon
<1>2. \A o : Goto(v, o) => validators' = [validators EXCEPT ![v] = [validators[v] EXCEPT !.pc = o]]
  BY <1>1, Zenon DEF Goto
<1>3. NextSlot(v) => validators' = [validators EXCEPT ![v] = [validators[v] EXCEPT !.k = validators[v].k + 1]]
  BY <1>1, Zenon DEF NextSlot
<1> QED  BY <1>1, <1>2, <1>3, Zenon

LEMMA GotoStep ==
    ASSUME TypeOK, TeamInv, NEW v \in Validators, NEW o \in Where, Goto(v, o),
           cfg' = cfg, UNCHANGED <<client, fabric, last_seen, stats, lapped, stop_flag, main, at_stop>>,
           validators[v].pc # "none", validators[v].pc # "ended", o \notin {"none", "again", "ended"},
           Scanning(v) <=> o \in {"scan", "retry", "snap"},
           o = "snap" /\ faults = 0 /\ cfg.ops >= TailSlots =>
             Reached(QpOf(Own(v)), FirstSlot(Own(v)) + validators[v].k) > validators[v].val
    PROVE  TeamOK' /\ TeamInv'
<1>1. PICK y \in ThreadState, ls \in {last_seen} : y = validators[v] /\ ls = last_seen
  BY ThreadSet, Zenon
<1>2. PICK x : x = [y EXCEPT !.pc = o]
  BY Zenon
<1>3. validators' = [validators EXCEPT ![v] = x]
  BY <1>1, <1>2, ThreadSet, Zenon
<1>4. /\ x \in ThreadState /\ x.pc = o /\ x.own_markers = y.own_markers /\ x.at = y.at /\ x.k = y.k
      /\ x.val = y.val /\ x.draining = y.draining
  BY <1>2, GotoIs
<1>5. LookingAt(y, ls) /\ DrainingAt(y, ls)
  BY <1>1, LookingIs, Zenon DEF TeamInv
<1>6. /\ Busy(x) <=> Busy(y)
      /\ x.pc # "again" /\ x.pc # "ended" /\ x.pc # "none"
  BY <1>1, <1>4, Zenon DEF Busy, Scanning
<1>7. Own(v) = OwnOf(y)
  BY <1>1, Zenon DEF Own, OwnOf
<1>8. LookingAt(x, ls) /\ DrainingAt(x, ls)
  <2>1. x.pc = "snap" /\ faults = 0 /\ cfg.ops >= TailSlots =>
             Reached(QpOf(OwnOf(y)), FirstSlot(OwnOf(y)) + y.k) > y.val
    BY <1>1, <1>4, <1>7, Zenon
  <2> QED  BY <1>4, <1>5, <1>6, <2>1, GotoKeeps, Zenon
<1>9. /\ LookingAt(x, last_seen) /\ DrainingAt(x, last_seen)
      /\ x.own_markers = validators[v].own_markers
  BY <1>1, <1>4, <1>6, <1>8, Zenon
<1>10. x.at = validators[v].at /\ x.val = validators[v].val
  BY <1>1, <1>4, Zenon
<1>11. Busy(x) <=> Busy(validators[v])
  BY <1>1, <1>6, Zenon
<1> QED  BY <1>3, <1>4, <1>6, <1>9, <1>10, <1>11, QuietStep, Zenon

LEMMA BeginStep ==
    ASSUME TypeOK, TeamInv, NEW v \in Validators, Begin(v)
    PROVE  TeamOK' /\ TeamInv'
<1>1. /\ validators[v].pc = "created" /\ Goto(v, "look") /\ cfg' = cfg
      /\ UNCHANGED <<client, fabric, last_seen, stats, lapped, stop_flag, main, at_stop>>
  BY Zenon DEF Begin
<1>2. "look" \in Where /\ "look" \notin {"none", "again", "ended"} /\ "look" \notin {"scan", "retry", "snap"}
      /\ "look" # "snap" /\ validators[v].pc # "none" /\ validators[v].pc # "ended" /\ ~ Scanning(v)
  BY <1>1 DEF Where, Scanning
<1> QED  BY <1>1, <1>2, GotoStep, Zenon

(* The end of a thread's list. *)
LEMMA EndStep ==
    ASSUME TypeOK, TeamInv, NEW v \in Validators, EndOfScan(v)
    PROVE  TeamOK' /\ TeamInv'
<1>1. PICK y \in ThreadState, ls \in {last_seen} : y = validators[v] /\ ls = last_seen
  BY ThreadSet, Zenon
<1>2. /\ y.pc = "look" /\ y.at > Len(y.own_markers) /\ cfg' = cfg
      /\ UNCHANGED <<client, fabric, last_seen, stats, lapped, stop_flag, main, at_stop>>
  BY <1>1, Zenon DEF EndOfScan
<1>3. LookingAt(y, ls) /\ DrainingAt(y, ls)
  BY <1>1, LookingIs, Zenon DEF TeamInv
<1>4. ~ Busy(y) /\ y.pc # "none" /\ y.pc # "ended" /\ y.k = 0
  <2>1. ~ Busy(y) /\ y.pc # "none" /\ y.pc # "ended"
    BY <1>2 DEF Busy
  <2> QED  BY <1>3, <2>1, Zenon DEF LookingAt
<1>5. CASE y.draining
  <2>1. PICK x : x = [y EXCEPT !.pc = "ended"]
    BY Zenon
  <2>2. validators' = [validators EXCEPT ![v] = x]
    BY <1>1, <1>5, <2>1, Zenon DEF EndOfScan
  <2>3. "ended" \in Where
    BY DEF Where
  <2>4. /\ x \in ThreadState /\ x.pc = "ended" /\ x.own_markers = y.own_markers /\ x.at = y.at /\ x.k = y.k
        /\ x.val = y.val /\ x.draining = y.draining
    BY <2>1, <2>3, GotoIs
  <2>5. ~ Busy(x) /\ x.pc # "again" /\ x.pc # "none" /\ x.pc # "snap"
    BY <2>4 DEF Busy
  <2>6. LookingAt(x, ls)
    BY <1>4, <2>4, <2>5, Zenon DEF LookingAt
  <2>7. DrainingAt(x, ls)
    BY <1>2, <1>3, <1>5, <2>4, <2>5, Zenon DEF DrainingAt
  <2>8. /\ LookingAt(x, last_seen) /\ DrainingAt(x, last_seen)
        /\ x.own_markers = validators[v].own_markers /\ ~ Busy(validators[v])
        /\ validators[v].pc # "none" /\ validators[v].pc # "ended"
    BY <1>1, <1>4, <2>4, <2>6, <2>7, Zenon
  <2> QED  BY <1>2, <2>2, <2>4, <2>5, <2>8, QuietStep, Zenon
<1>6. CASE ~ y.draining
  <2>1. PICK t \in Nat, e \in BOOLEAN :
          /\ t = (IF y.found \/ (~ y.found /\ y.spin + 1 >= SpinCheck) THEN 0 ELSE y.spin + 1)
          /\ e = ((~ y.found /\ y.spin + 1 >= SpinCheck) /\ stop_flag)
    <3>1. y.spin \in Nat
      BY DEF ThreadState
    <3>2. (IF y.found \/ (~ y.found /\ y.spin + 1 >= SpinCheck) THEN 0 ELSE y.spin + 1) \in Nat
      BY <3>1
    <3>3. ((~ y.found /\ y.spin + 1 >= SpinCheck) /\ stop_flag) \in BOOLEAN
      BY Zenon
    <3> QED  BY <3>2, <3>3, Zenon
  <2>2. PICK x : x = OnAgain(y, t, e)
    BY Zenon
  <2>3. validators' = [validators EXCEPT ![v] = x]
    BY <1>1, <1>6, <2>1, <2>2, Zenon DEF EndOfScan, OnAgain
  <2>4. /\ x \in ThreadState /\ x.pc = y.pc /\ x.own_markers = y.own_markers /\ x.at = 1
        /\ x.k = y.k /\ x.val = y.val /\ x.draining = e
    BY <2>2, AgainIs
  <2>5. ~ Busy(x) /\ x.pc # "again" /\ x.pc # "none" /\ x.pc # "snap" /\ x.pc # "ended"
    BY <1>2, <2>4 DEF Busy
  <2>6. LookingAt(x, ls)
    BY <1>4, <2>4, <2>5, Zenon DEF LookingAt
  <2>7. DrainingAt(x, ls)
    <3>1. x.draining => stop_flag
      BY <2>1, <2>4, Zenon
    <3>2. \A i \in 1..Len(x.own_markers) : ~ (i < x.at)
      BY <2>4
    <3> QED  BY <2>4, <2>5, <3>1, <3>2, Zenon DEF DrainingAt
  <2>8. /\ LookingAt(x, last_seen) /\ DrainingAt(x, last_seen)
        /\ x.own_markers = validators[v].own_markers /\ ~ Busy(validators[v])
        /\ validators[v].pc # "none" /\ validators[v].pc # "ended"
    BY <1>1, <1>4, <2>4, <2>6, <2>7, Zenon
  <2> QED  BY <1>2, <2>3, <2>4, <2>5, <2>8, QuietStep, Zenon
<1> QED  BY <1>5, <1>6, Zenon

-----------------------------------------------------------------------------
(* The scan of a chunk.                                                    *)

(* A marker never counts more rounds than have arrived in any of its slots. *)
LEMMA MarkerBehind ==
    ASSUME TypeOK, NetInv, NEW m \in Markers, NEW s \in 0..(Slots - 1), s <= LastSlot(m)
    PROVE  Marker(m) <= RoundsAt(landed[QpOf(m)], s)
<1>1. PICK L \in Nat : L = landed[QpOf(m)]
  BY TypesCfg, TypesQp, MarkerParts, Zenon
<1>2. cfg \in Configs /\ LastSlot(m) \in 0..(Slots - 1) /\ cfg.mode \in {"READ", "WRITE"}
  BY TypesCfg, LastSlotCloses, Sizes, Zenon
<1>3. PICK a \in Int, b \in Nat, c \in Nat, d \in {0, 1} :
        a = Added(m) /\ b = RoundsAt(L, LastSlot(m)) /\ c = RoundsAt(L, s) /\ a = b - d
  <2>1. RoundsAt(L, LastSlot(m)) \in Nat /\ RoundsAt(L, s) \in Nat
    BY <1>2, RoundsOf, Zenon
  <2>2. PICK d \in {0, 1} :
          d = IF AddDue(QpOf(m)) /\ Head(wire[QpOf(m)]).marker = m THEN 1 ELSE 0
    OBVIOUS
  <2>3. Added(m) = RoundsAt(L, LastSlot(m)) - d
    BY <1>1, <2>2, Zenon DEF Added, Rounds, RoundsAt
  <2>4. Added(m) \in Int
    BY <2>1, <2>2, <2>3
  <2> QED  BY <2>1, <2>3, <2>4, Zenon
<1>4. Marker(m) = a
  <2>1. tail_markers[m] = a + (IF cfg.mode = "READ" THEN 1 ELSE 0) /\ (cfg.mode = "READ" => returns[m] = a)
    BY <1>3, Zenon DEF NetInv, MarkersCount
  <2>2. cfg.mode # "READ" => tail_markers[m] = a
    BY <1>3, <2>1
  <2> QED  BY <2>1, <2>2, Zenon DEF Marker
<1>5. b <= c
  BY <1>2, <1>3, RoundsOrder, Zenon
<1>6. a <= c
  BY <1>3, <1>5
<1> QED  BY <1>1, <1>3, <1>4, <1>6, Zenon

LEMMA NotClosing ==
    ASSUME cfg \in Configs, NEW m \in Markers, NEW k \in Nat, k + 1 < cfg.ops
    PROVE  ~ ChainAtomic(FirstSlot(m) + k)
<1>1. PICK O \in Nat \ {0}, c \in Nat : O = cfg.ops /\ c = m % cfg.chunks
  BY Sizes, MarkerParts DEF Pos
<1>2. k + 1 \in 0..(O - 1) /\ c \in Int
  BY <1>1
<1>3. (c * O + (k + 1)) % O = k + 1
  BY <1>2, DivIs, Zenon
<1>4. FirstSlot(m) = c * O
  BY <1>1, Zenon DEF FirstSlot
<1>5. c * O \in Int
  BY <1>1
<1>6. FirstSlot(m) + k + 1 = c * O + (k + 1)
  BY <1>4, <1>5
<1>7. (FirstSlot(m) + k + 1) % cfg.ops = k + 1
  BY <1>1, <1>3, <1>6, Zenon
<1> QED  BY <1>7 DEF ChainAtomic

(* Undamaged data that differs from the pattern of a round that has arrived
   is the data of a later round. *)
LEMMA LaterRound ==
    ASSUME NEW c \in Nat \ {0}, NEW r \in Nat, c <= r,
           Pattern(r) # validation_cycle_to_pattern(c - 1)
    PROVE  r > c
<1>1. r # 0
  OBVIOUS
<1>2. Pattern(r) = validation_cycle_to_pattern(r - 1)
  BY <1>1, Zenon DEF Pattern
<1>3. r # c
  BY <1>2, Zenon
<1> QED  BY <1>3

LEMMA Overwritten ==
    ASSUME TypeOK, NetInv, NEW v \in Validators, Looking(v), Scanning(v), faults = 0,
           cfg.ops >= TailSlots, Now(v) # Expected(v), ~ InTail(v) \/ flush[QpOf(Own(v))] = NoMessage
    PROVE  Reached(QpOf(Own(v)), FirstSlot(Own(v)) + validators[v].k) > validators[v].val
<1>1. PICK m \in Markers, p \in Qps, s \in 0..(Slots - 1) :
        /\ m = Own(v) /\ p = QpOf(Own(v)) /\ s = FirstSlot(Own(v)) + validators[v].k /\ s <= LastSlot(m)
  BY AtSlot, Zenon
<1>20. PICK f : f = flush[p]
  BY Zenon
<1>2. PICK L \in Nat, k \in Nat, c \in Nat :
        L = landed[p] /\ f = flush[p] /\ k = validators[v].k /\ c = validators[v].val
  BY <1>20, TypesQp, TypesThread, Zenon
<1>3. Marker(m) \in Nat /\ last_seen[m] \in Nat /\ cfg \in Configs
  BY TypesMarker, TypesCfg, Zenon
<1>4. PICK r \in Nat : r = RoundsAt(L, s)
  BY <1>3, RoundsOf, Zenon
<1>5. c \in Nat \ {0} /\ c <= r
  <2>1. c \in (last_seen[m] + 1)..Marker(m)
    BY <1>1, <1>2, Zenon DEF Looking
  <2>2. Marker(m) <= r
    BY <1>1, <1>2, <1>4, MarkerBehind, Zenon
  <2> QED  BY <1>3, <2>1, <2>2
<1>6. f.slot # s
  <2>1. CASE f = NoMessage
    <3>1. f.slot = -1
      BY <2>1 DEF NoMessage
    <3> QED  BY <3>1
  <2>2. CASE f # NoMessage
    <3>1. ChainAtomic(f.slot)
      BY <1>2, <2>2, Zenon DEF NetInv, InMemory
    <3>2. cfg.ops \in Nat /\ TailSlots \in Nat \ {0} /\ ~ InTail(v)
      <4>1. cfg.ops \in Nat
        BY <1>3, Sizes DEF Pos
      <4>2. ~ InTail(v)
        BY <1>1, <1>2, <2>2, Zenon
      <4> QED  BY <4>1, <4>2, ValidationAssumption, Zenon
    <3>3. ~ (k >= cfg.ops - TailSlots)
      BY <1>2, <3>2, Zenon DEF InTail
    <3>4. k + 1 < cfg.ops
      BY <3>2, <3>3
    <3>5. ~ ChainAtomic(s)
      BY <1>1, <1>2, <1>3, <3>4, NotClosing, Zenon
    <3> QED  BY <3>1, <3>5, Zenon
  <2> QED  BY <2>1, <2>2, Zenon
<1>7. Reached(p, s) = r
  <2>1. Rounds(p, s) = r
    BY <1>2, <1>4, Zenon DEF Rounds, RoundsAt
  <2>2. r - 0 = r
    OBVIOUS
  <2> QED  BY <1>2, <1>6, <2>1, <2>2, Zenon DEF Reached
<1>8. mem[p][s] = Pattern(r)
  BY <1>7, Zenon DEF NetInv, InMemory
<1>9. Pattern(r) # validation_cycle_to_pattern(c - 1)
  BY <1>1, <1>2, <1>8, Zenon DEF Now, Expected
<1>10. r > c
  BY <1>4, <1>5, <1>9, LaterRound, Zenon
<1> QED  BY <1>1, <1>2, <1>7, <1>10, Zenon

(* Three rounds later the slot holds the expected pattern again. *)
LEMMA PatternAgain ==
    ASSUME NEW c \in Nat \ {0}, NEW r \in Nat, r > c,
           classify_validation_mismatch(validation_cycle_to_pattern(c - 1), Pattern(r)) = "REAL"
    PROVE  r >= c + 3
<1>1. Pattern(r) = 1 + ((r - 1) % 3) /\ validation_cycle_to_pattern(c - 1) = 1 + ((c - 1) % 3)
  BY DEF Pattern, validation_cycle_to_pattern
<1>2. (r - 1) % 3 \in 0..2 /\ (c - 1) % 3 \in 0..2
  OBVIOUS
<1>3. Pattern(r) \in 1..3
  BY <1>1, <1>2
<1>4. Pattern(r) = validation_cycle_to_pattern(c - 1)
  <2>1. "RACE" # "REAL"
    OBVIOUS
  <2> QED  BY <1>3, <2>1, Zenon DEF classify_validation_mismatch
<1>5. (c - 1) % 3 = (r - 1) % 3
  BY <1>1, <1>2, <1>4
<1>6. c - 1 \in Nat /\ r - 1 \in Nat /\ c - 1 < r - 1
  OBVIOUS
<1>7. r - 1 >= c - 1 + 3
  BY <1>5, <1>6, PatternsRepeat, Zenon
<1> QED  BY <1>7

LEMMA LateAlarm ==
    ASSUME TypeOK, NetInv, NEW v \in Validators, Looking(v), validators[v].pc = "snap", faults = 0,
           cfg.ops >= TailSlots, classify_validation_mismatch(Expected(v), Now(v)) = "REAL"
    PROVE  Rounds(QpOf(Own(v)), FirstSlot(Own(v)) + validators[v].k) >= validators[v].val + 3
<1>0. Scanning(v)
  BY DEF Scanning
<1>1. PICK m \in Markers, p \in Qps, s \in 0..(Slots - 1) :
        /\ m = Own(v) /\ p = QpOf(Own(v)) /\ s = FirstSlot(Own(v)) + validators[v].k
  BY <1>0, AtSlot, Zenon
<1>2. PICK L \in Nat, c \in Nat : L = landed[p] /\ c = validators[v].val
  BY TypesQp, TypesThread, Zenon
<1>3. PICK R \in Nat : R = Rounds(p, s)
  <2>1. RoundsAt(L, s) \in Nat
    BY TypesCfg, RoundsOf, Zenon
  <2> QED  BY <1>2, <2>1, Zenon DEF Rounds, RoundsAt
<1>4. PICK d \in {0, 1} : Reached(p, s) = R - d
  BY <1>3, Zenon DEF Reached
<1>5. Reached(p, s) > c
  BY <1>0, <1>1, <1>2, Zenon DEF Looking
<1>6. PICK r \in Nat : r = Reached(p, s)
  BY <1>2, <1>4, <1>5
<1>7. c \in Nat \ {0}
  <2>1. c \in (last_seen[m] + 1)..Marker(m)
    BY <1>0, <1>1, <1>2, Zenon DEF Looking
  <2>2. Marker(m) \in Nat /\ last_seen[m] \in Nat
    BY TypesMarker, Zenon
  <2> QED  BY <2>1, <2>2
<1>8. mem[p][s] = Pattern(r)
  BY <1>6, Zenon DEF NetInv, InMemory
<1>9. classify_validation_mismatch(validation_cycle_to_pattern(c - 1), Pattern(r)) = "REAL"
  BY <1>1, <1>2, <1>8, Zenon DEF Now, Expected
<1>10. r >= c + 3
  BY <1>5, <1>6, <1>7, <1>9, PatternAgain, Zenon
<1>11. R >= c + 3
  BY <1>4, <1>6, <1>10
<1> QED  BY <1>1, <1>2, <1>3, <1>11, Zenon
=============================================================================
