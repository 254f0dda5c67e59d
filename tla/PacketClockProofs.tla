-------------------------- MODULE PacketClockProofs --------------------------
(***************************************************************************)
(* RecordsBounded and PacketFits for every tick, expiry, and length of     *)
(* records, and without the bounds on the clock that TLC needs.  Slots is  *)
(* the number of ticks the records of the packet account for: a restart    *)
(* forgives one.  Between gathers, the last one began that many ticks less *)
(* one after the first, or all of them when the plugin was restarted; a    *)
(* gather that is under way began all of them after the first.  So there   *)
(* are less than Cap records when a gather begins, and what it writes, to  *)
(* be kept or taken back, is within the shares of Cap records.             *)
(***************************************************************************)
EXTENDS PacketClock, TLAPS

Slots == records - restarts

Open == state \in {"BEGIN", "WROTE"}

(* The last gather began late enough. *)
Spaced ==
  Open /\ ~skewed =>
    /\ busy => begin <= now /\ Slots * Tick <= begin - started
    /\ ~busy => \/ due = begin + Tick /\ (Slots - 1) * Tick <= begin - started
                \/ Slots * Tick <= begin - started

(* All records but the last one began before the packet expired. *)
Young == Open /\ ~skewed => (Slots - 1) * Tick < Expiry

(* Every record and every gather that was cut short has its share of the size. *)
Sized ==
  size <= Head + (records + restarts) * longest + IF state = "READY" THEN Tail ELSE 0

(* The text never reached beyond the shares of Cap records. *)
Within == restarts = 0 /\ ~skewed => peak <= Head + Cap * longest + Tail

CInv == TypeOK /\ Spaced /\ Young /\ RecordsBounded /\ Sized /\ Within

-----------------------------------------------------------------------------
(* One tick more or less. *)
LEMMA OneMore ==
  ASSUME NEW a \in Int, NEW b \in Int
  PROVE  (a + 1) * b = a * b + b /\ (a - 1) * b = a * b - b
  OBVIOUS

(* Multiples of a positive number keep the order. *)
LEMMA Monotone ==
  ASSUME NEW a \in Int, NEW c \in Int, NEW b \in Nat, a <= c
  PROVE  a * b <= c * b
  OBVIOUS

(* Factors change places. *)
LEMMA Commutes ==
  ASSUME NEW a \in Int, NEW b \in Int
  PROVE  a * b = b * a
  OBVIOUS

(* Shares grow with the longest text, and one more record is one more. *)
LEMMA Shares ==
  ASSUME NEW k \in Nat, NEW l \in Nat, NEW m \in Nat, l <= m
  PROVE  /\ k * l \in Int /\ k * m \in Int /\ k * l <= k * m
         /\ (k + 1) * m = k * m + m
<1>1. l * k <= m * k
  BY Monotone
<1>2. l * k = k * l /\ m * k = k * m
  BY Commutes
<1>3. k * l \in Int /\ k * m \in Int
  OBVIOUS
<1>4. (k + 1) * m = k * m + m
  BY OneMore
<1> QED
  BY <1>1, <1>2, <1>3, <1>4

(* plugin_init: it holds before the first gather. *)
LEMMA CInvInit == Init => CInv
<1> SUFFICES ASSUME Init PROVE CInv
  OBVIOUS
<1>1. TypeOK
  <2>1. busy \in BOOLEAN /\ skewed \in BOOLEAN /\ ~busy
    BY Zenon DEF Init
  <2>2. /\ now \in Nat /\ due \in Nat /\ begin \in Nat /\ started \in Nat
        /\ size \in Nat /\ records \in Nat /\ restarts \in Nat /\ backs \in Nat
        /\ longest \in Nat /\ peak \in Nat
    BY ClockAssumption DEF Init
  <2> QED
    BY <2>1, <2>2, Zenon DEF Init, TypeOK
<1>2. Spaced /\ Young
  BY DEF Init, Spaced, Young, Open
<1>3. RecordsBounded
  BY DEF Init, RecordsBounded
<1>4. Sized /\ Within
  BY ClockAssumption DEF Init, Sized, Within
<1> QED
  BY <1>1, <1>2, <1>3, <1>4 DEF CInv

(* plugin_gather up to the gathering. *)
LEMMA BeginStep == CInv /\ GatherBegin => CInv'
<1> SUFFICES ASSUME CInv, GatherBegin PROVE CInv'
  OBVIOUS
<1>1. CASE state \in {"READY", "DONE"}
  <2>1. /\ state' = "BEGIN" /\ started' = now /\ size' = Head /\ records' = 0
        /\ longest' = 0 /\ peak' = Head
        /\ restarts' = 0 /\ skewed' = FALSE /\ busy' = TRUE /\ begin' = now
        /\ UNCHANGED <<now, due, backs>>
    BY <1>1 DEF GatherBegin
  <2>2. TypeOK'
    BY <2>1, ClockAssumption DEF CInv, TypeOK
  <2>3. 0 * Tick = 0 /\ (0 - 1) * Tick < Expiry /\ 0 * 0 = 0 /\ Cap * 0 = 0
    BY ClockAssumption
  <2>4. Spaced' /\ Young' /\ RecordsBounded' /\ Sized' /\ Within'
    BY <2>1, <2>3, ClockAssumption
    DEF CInv, TypeOK, Spaced, Young, RecordsBounded, Sized, Within, Open, Slots
  <2> QED
    BY <2>2, <2>4 DEF CInv
<1>2. CASE state \notin {"READY", "DONE"}
  <2>1. /\ ~busy /\ due <= now /\ busy' = TRUE /\ begin' = now
        /\ started' = IF state = "BEGIN" THEN now ELSE started
        /\ skewed' = (skewed \/ now < begin)
        /\ UNCHANGED <<now, due, state, size, records, longest, peak, restarts, backs>>
    BY <1>2 DEF GatherBegin
  <2>2. TypeOK'
    BY <1>2, <2>1 DEF CInv, TypeOK
  <2>3. Sized' /\ Young' /\ Within'
    BY <2>1 DEF CInv, Sized, Young, Within, Open, Slots
  <2>4. RecordsBounded'
    BY <2>1 DEF CInv, TypeOK, RecordsBounded
  <2>5. ASSUME Open', ~skewed' PROVE begin' <= now' /\ Slots' * Tick <= begin' - started'
    <3>1. CASE state = "BEGIN"
      <4>1. Slots <= 0 /\ Slots \in Int
        BY <3>1 DEF CInv, TypeOK, Slots
      <4>2. Slots * Tick <= 0 * Tick /\ 0 * Tick = 0
        BY <4>1, ClockAssumption, Monotone
      <4> QED
        BY <2>1, <3>1, <4>2 DEF CInv, TypeOK, Slots
    <3>2. CASE state # "BEGIN"
      <4>0. ~(now < begin) /\ ~skewed
        BY <2>1, <2>5, Zenon
      <4>1. Slots \in Int /\ now >= begin /\ started' = started /\ Slots' = Slots
        BY <2>1, <3>2, <4>0 DEF CInv, TypeOK, Slots
      <4>2. (Slots - 1) * Tick = Slots * Tick - Tick /\ Slots * Tick \in Int
        BY <4>1, OneMore, ClockAssumption
      <4>3. \/ due = begin + Tick /\ (Slots - 1) * Tick <= begin - started
            \/ Slots * Tick <= begin - started
        BY <1>2, <2>1, <4>0 DEF CInv, TypeOK, Spaced, Open
      <4> QED
        BY <2>1, <4>1, <4>2, <4>3, ClockAssumption DEF CInv, TypeOK
    <3> QED
      BY <3>1, <3>2
  <2>6. Spaced'
    BY <2>1, <2>5 DEF Spaced
  <2> QED
    BY <2>2, <2>3, <2>4, <2>6 DEF CInv
<1> QED
  BY <1>1, <1>2

(* plugin_gather: less than Cap records are there when one is added, or    *)
(* text is written that is taken back.                                     *)
LEMMA ReachStep ==
  ASSUME CInv, NEW n \in 1..MaxRecord, NEW kept \in BOOLEAN, GatherEnd(n, kept)
  PROVE  /\ longest' \in Nat /\ peak' \in Nat /\ longest <= longest' /\ n <= longest'
         /\ Within'
<1>1. /\ busy /\ state \in {"BEGIN", "WROTE"}
      /\ size \in Nat /\ records \in Nat /\ restarts \in Nat /\ longest \in Nat /\ peak \in Nat
      /\ n \in Nat
  BY ClockAssumption DEF CInv, TypeOK, GatherEnd
<1>2. restarts' = restarts /\ skewed' = skewed
  BY Zenon DEF GatherEnd
<1>3. size' \in Nat /\ size' <= size + n + Tail
  BY <1>1, ClockAssumption DEF GatherEnd
<1>4. Reach(n)
  BY Zenon DEF GatherEnd
<1>5. /\ longest' \in Nat /\ peak' \in Nat /\ longest <= longest' /\ n <= longest'
      /\ peak' = peak \/ peak' <= size + n + Tail
  BY <1>1, <1>3, <1>4, ClockAssumption DEF Reach, Larger
<1>6. ASSUME restarts = 0, ~skewed
      PROVE  peak' <= Head + Cap * longest' + Tail
  <2>1. records + 1 <= Cap
    <3>1. (records - 1) * Tick < Expiry
      BY <1>1, <1>6 DEF CInv, Young, Open, Slots
    <3>2. ASSUME Cap <= records PROVE FALSE
      <4>1. (Cap - 1) * Tick <= (records - 1) * Tick
        BY <1>1, <3>2, Monotone, ClockAssumption
      <4>2. (Cap - 1) * Tick \in Int /\ (records - 1) * Tick \in Int
        BY <1>1, ClockAssumption
      <4> QED
        BY <3>1, <4>1, <4>2, ClockAssumption
    <3> QED
      BY <1>1, <3>2, ClockAssumption
  <2> DEFINE L == longest'
             A == records * longest
             B == records * L
             C == Cap * longest
             D == Cap * L
  <2>2. L \in Nat /\ longest \in Nat /\ longest <= L /\ n <= L
    BY <1>1, <1>5
  <2> HIDE DEF L
  <2>3. A \in Int /\ B \in Int /\ A <= B /\ (records + 1) * L = B + L
    BY <1>1, <2>2, Shares
  <2>4. C \in Int /\ D \in Int /\ C <= D
    BY <2>2, Shares, ClockAssumption
  <2>5. (records + 1) * L <= D
    BY <1>1, <2>1, <2>2, Monotone, ClockAssumption
  <2>6. size <= Head + A
    <3>1. records + restarts = records
      BY <1>1, <1>6
    <3> QED
      BY <1>1, <3>1, ClockAssumption DEF CInv, Sized
  <2>7. peak <= Head + C + Tail
    BY <1>6 DEF CInv, Within
  <2> HIDE DEF A, B, C, D
  <2>8. B + L <= D
    BY <2>3, <2>5
  <2>9. peak' <= Head + D + Tail
    BY <1>1, <1>5, <2>2, <2>3, <2>4, <2>6, <2>7, <2>8, ClockAssumption
  <2> QED
    BY <2>9 DEF D, L
<1>7. Within'
  BY <1>2, <1>6, Zenon DEF Within
<1> QED
  BY <1>5, <1>7

(* plugin_gather from the gathering on, and r->due: a record. *)
LEMMA RecordStep ==
  ASSUME CInv, NEW n \in 1..MaxRecord, GatherEnd(n, TRUE)
  PROVE  CInv'
<1> DEFINE S == Slots
<1>0. /\ longest' \in Nat /\ peak' \in Nat /\ longest <= longest' /\ n <= longest'
      /\ Within' /\ n \in Nat
  <2>1. TRUE \in BOOLEAN /\ n \in Nat
    BY ClockAssumption
  <2> QED
    BY <2>1, ReachStep, Zenon
<1>1. /\ busy /\ state \in {"BEGIN", "WROTE"} /\ S \in Int
      /\ now \in Nat /\ begin \in Nat /\ started \in Nat /\ due \in Nat /\ backs \in Nat
      /\ size \in Nat /\ records \in Nat /\ restarts \in Nat /\ longest \in Nat
  BY DEF CInv, TypeOK, GatherEnd, Slots
<1>2. ~busy' /\ busy' \in BOOLEAN /\ skewed' = skewed /\ skewed \in BOOLEAN
  BY Zenon DEF CInv, TypeOK, GatherEnd
<1>3. /\ due' = begin + Tick /\ records' = records + 1
      /\ state' = IF ~Expired THEN "WROTE" ELSE "READY"
      /\ size' = size + n + IF state' = "READY" THEN Tail ELSE 0
      /\ UNCHANGED <<now, begin, started, restarts, backs>>
  BY Zenon DEF GatherEnd
<1>4. Slots' = S + 1
  BY <1>1, <1>3 DEF Slots
<1>5. TypeOK'
  BY <1>0, <1>1, <1>2, <1>3, ClockAssumption DEF TypeOK
<1>6. (S - 1) * Tick = S * Tick - Tick /\ S * Tick \in Int
  BY <1>1, OneMore, ClockAssumption
<1>7. ASSUME ~skewed
      PROVE  begin <= now /\ S * Tick <= begin - started /\ (S - 1) * Tick < Expiry
  BY <1>1, <1>7 DEF CInv, Spaced, Young, Open
<1>8. Spaced'
  <2>1. ASSUME ~skewed PROVE due' = begin' + Tick /\ (Slots' - 1) * Tick <= begin' - started'
    <3>1. Slots' - 1 = S
      BY <1>1, <1>4
    <3> QED
      BY <1>3, <1>7, <2>1, <3>1
  <2> QED
    BY <1>2, <2>1, Zenon DEF Spaced
<1>9. Young'
  <2>1. ASSUME Open', ~skewed' PROVE (Slots' - 1) * Tick < Expiry
    <3>1. ~Expired
      BY <1>3, <2>1 DEF Open
    <3>2. now - started < Expiry
      BY <1>1, <3>1, ClockAssumption DEF Expired
    <3>3. Slots' - 1 = S
      BY <1>1, <1>4
    <3> QED
      BY <1>1, <1>2, <1>6, <1>7, <2>1, <3>2, <3>3, ClockAssumption
  <2> QED
    BY <2>1 DEF Young
<1>10. RecordsBounded'
  <2>1. records' - restarts' - 2 = S - 1
    BY <1>1, <1>3 DEF Slots
  <2> QED
    BY <1>2, <1>7, <2>1 DEF RecordsBounded
<1>11. Sized'
  <2> DEFINE K == records + restarts
  <2>1. K \in Nat /\ records' + restarts' = K + 1
    BY <1>1, <1>3
  <2>2. (K + 1) * longest' = K * longest' + longest'
    BY <1>0, <2>1, OneMore
  <2>3. K * longest \in Int /\ K * longest' \in Int /\ K * longest <= K * longest'
    BY <1>0, <1>1, <2>1, Shares
  <2>4. size <= Head + K * longest
    BY <1>1, ClockAssumption DEF CInv, Sized
  <2> DEFINE A == K * longest
             B == K * longest'
  <2>5. A \in Int /\ B \in Int /\ A <= B /\ (K + 1) * longest' = B + longest'
    BY <2>2, <2>3
  <2>6. size <= Head + A + IF state = "READY" THEN Tail ELSE 0
    BY <1>1, <2>4, <2>5, ClockAssumption
  <2> HIDE DEF K, A, B
  <2>7. size' <= Head + (B + longest') + IF state' = "READY" THEN Tail ELSE 0
    <3>1. Head \in Nat /\ Tail \in Nat /\ size \in Nat /\ n \in Nat
      BY <1>0, <1>1, ClockAssumption
    <3>2. n <= longest' /\ longest' \in Nat /\ A \in Int /\ B \in Int /\ A <= B
      BY <1>0, <2>5
    <3> DEFINE L == longest'
    <3> HIDE DEF L
    <3>3. L \in Nat /\ n <= L
      BY <3>2 DEF L
    <3>4. size' <= Head + (B + L) + IF state' = "READY" THEN Tail ELSE 0
      BY <1>1, <1>3, <2>6, <3>1, <3>2, <3>3
    <3> QED
      BY <3>4 DEF L
  <2> QED
    BY <2>1, <2>5, <2>7 DEF Sized
<1> QED
  BY <1>0, <1>5, <1>8, <1>9, <1>10, <1>11 DEF CInv

(* plugin_gather from the gathering on, and r->due: no record. *)
LEMMA NoRecordStep ==
  ASSUME CInv, NEW n \in 1..MaxRecord, GatherEnd(n, FALSE)
  PROVE  CInv'
<1>0. /\ longest' \in Nat /\ peak' \in Nat /\ longest <= longest' /\ Within'
  BY ReachStep
<1>1. /\ busy /\ state \in {"BEGIN", "WROTE"} /\ Slots \in Int
      /\ now \in Nat /\ begin \in Nat /\ started \in Nat /\ due \in Nat /\ backs \in Nat
      /\ size \in Nat /\ records \in Nat /\ restarts \in Nat /\ longest \in Nat
      /\ state = "BEGIN" => records = 0
  BY DEF CInv, TypeOK, GatherEnd, Slots
<1>2. ~busy' /\ busy' \in BOOLEAN /\ skewed' = skewed /\ skewed \in BOOLEAN
  BY Zenon DEF CInv, TypeOK, GatherEnd
<1>3. /\ due' = begin + Tick /\ records' = records
      /\ state' = IF ~Expired THEN state ELSE IF state = "WROTE" THEN "READY" ELSE "DONE"
      /\ size' = size + 0 + IF state' = "READY" THEN Tail ELSE 0
      /\ UNCHANGED <<now, begin, started, restarts, backs>>
  BY Zenon DEF GatherEnd
<1>4. Slots' = Slots
  BY <1>3 DEF Slots
<1>5. TypeOK'
  BY <1>0, <1>1, <1>2, <1>3, ClockAssumption DEF TypeOK
<1>6. Spaced' /\ Young'
  BY <1>1, <1>2, <1>3, <1>4 DEF CInv, Spaced, Young, Open
<1>7. RecordsBounded'
  BY <1>2, <1>3 DEF CInv, RecordsBounded
<1>8. Sized'
  <2> DEFINE K == records + restarts
  <2>1. K \in Nat /\ records' + restarts' = K
    BY <1>1, <1>3
  <2>2. K * longest \in Int /\ K * longest' \in Int /\ K * longest <= K * longest'
    BY <1>0, <1>1, <2>1, Shares
  <2>3. size <= Head + K * longest
    BY <1>1, ClockAssumption DEF CInv, Sized
  <2> HIDE DEF K
  <2> QED
    BY <1>1, <1>3, <2>1, <2>2, <2>3, ClockAssumption DEF Sized
<1> QED
  BY <1>0, <1>5, <1>6, <1>7, <1>8 DEF CInv

(* routine_restart: one more slot is forgiven, for one more share of the size. *)
LEMMA RestartStep ==
  ASSUME CInv, NEW n \in 0..MaxRecord, Restart(n)
  PROVE  CInv'
<1> DEFINE S == Slots
<1>1. /\ S \in Int /\ n \in Nat
      /\ now \in Nat /\ begin \in Nat /\ started \in Nat /\ due \in Nat /\ backs \in Nat
      /\ size \in Nat /\ records \in Nat /\ restarts \in Nat /\ longest \in Nat /\ peak \in Nat
  BY ClockAssumption DEF CInv, TypeOK, Slots
<1>2. /\ ~busy' /\ busy' \in BOOLEAN /\ skewed' = skewed /\ skewed \in BOOLEAN
      /\ busy \in BOOLEAN /\ (Open' <=> Open)
  BY Zenon DEF CInv, TypeOK, Restart, Open
<1>3. /\ due' = 0 /\ restarts' = restarts + 1 /\ size' = size + n
      /\ UNCHANGED <<now, begin, state, started, records, backs>>
  BY DEF Restart
<1>0. longest' \in Nat /\ peak' \in Nat /\ longest <= longest' /\ n <= longest'
  <2>1. Reach(n)
    BY Zenon DEF Restart
  <2> QED
    BY <1>1, <1>3, <2>1 DEF Reach, Larger
<1>4. Slots' = S - 1 /\ Slots' - 1 = S - 2
  BY <1>1, <1>3 DEF Slots
<1>5. TypeOK'
  BY <1>0, <1>1, <1>2, <1>3 DEF CInv, TypeOK
<1>6. /\ (S - 1) * Tick = S * Tick - Tick /\ S * Tick \in Int
      /\ (S - 2) * Tick = S * Tick - Tick - Tick /\ Tick \in Nat
  <2>1. (S - 1) - 1 = S - 2 /\ S - 1 \in Int
    BY <1>1
  <2>2. (S - 1) * Tick = S * Tick - Tick /\ ((S - 1) - 1) * Tick = (S - 1) * Tick - Tick
    BY <1>1, <2>1, OneMore, ClockAssumption
  <2> QED
    BY <1>1, <2>1, <2>2, ClockAssumption
<1>7. Spaced'
  <2>1. ASSUME Open, ~skewed PROVE Slots' * Tick <= begin' - started'
    <3>1. S * Tick <= begin - started \/ (S - 1) * Tick <= begin - started
      BY <1>2, <2>1, Zenon DEF CInv, Spaced
    <3>2. (S - 1) * Tick <= begin - started
      BY <1>1, <1>6, <3>1
    <3> QED
      BY <1>3, <1>4, <3>2
  <2> QED
    BY <1>2, <2>1, Zenon DEF Spaced
<1>8. Young'
  <2>1. ASSUME Open, ~skewed PROVE (Slots' - 1) * Tick < Expiry
    <3>1. (S - 1) * Tick < Expiry
      BY <2>1 DEF CInv, Young
    <3> QED
      BY <1>1, <1>4, <1>6, <3>1, ClockAssumption
  <2> QED
    BY <1>2, <2>1, Zenon DEF Young
<1>9. RecordsBounded'
  <2> DEFINE R == records - restarts - 2
  <2>1. R \in Int /\ records' - restarts' - 2 = R - 1
    BY <1>1, <1>3
  <2>2. (R - 1) * Tick = R * Tick - Tick /\ R * Tick \in Int
    <3> HIDE DEF R
    <3> QED
      BY <2>1, OneMore, ClockAssumption
  <2>3. CASE skewed
    BY <1>2, <2>3 DEF RecordsBounded
  <2>4. CASE records <= restarts + 2
    BY <1>1, <1>3, <2>4 DEF RecordsBounded
  <2>5. CASE R * Tick < Expiry
    <3>1. (records' - restarts' - 2) * Tick < Expiry
      BY <1>6, <2>1, <2>2, <2>5, ClockAssumption
    <3> QED
      BY <3>1 DEF RecordsBounded
  <2> QED
    BY <2>3, <2>4, <2>5 DEF CInv, RecordsBounded
<1>10. Sized'
  <2> DEFINE K == records + restarts
  <2>1. K \in Nat /\ records' + restarts' = K + 1
    BY <1>1, <1>3
  <2>2. (K + 1) * longest' = K * longest' + longest'
    BY <1>0, <2>1, OneMore
  <2>3. K * longest \in Int /\ K * longest' \in Int /\ K * longest <= K * longest'
    BY <1>0, <1>1, <2>1, Shares
  <2>4. size <= Head + K * longest + IF state = "READY" THEN Tail ELSE 0
    BY DEF CInv, Sized
  <2> DEFINE A == K * longest
             B == K * longest'
  <2>5. A \in Int /\ B \in Int /\ A <= B /\ (K + 1) * longest' = B + longest'
    BY <2>2, <2>3
  <2>6. size <= Head + A + IF state = "READY" THEN Tail ELSE 0
    BY <1>1, <2>4, <2>5, ClockAssumption
  <2> HIDE DEF K, A, B
  <2>7. size' <= Head + (B + longest') + IF state' = "READY" THEN Tail ELSE 0
    <3>1. Head \in Nat /\ Tail \in Nat /\ size \in Nat /\ n \in Nat
      BY <1>0, <1>1, ClockAssumption
    <3>2. n <= longest' /\ longest' \in Nat /\ A \in Int /\ B \in Int /\ A <= B
      BY <1>0, <2>5
    <3> DEFINE L == longest'
    <3> HIDE DEF L
    <3>3. L \in Nat /\ n <= L
      BY <3>2 DEF L
    <3>4. size' <= Head + (B + L) + IF state' = "READY" THEN Tail ELSE 0
      BY <1>1, <1>3, <2>6, <3>1, <3>2, <3>3
    <3> QED
      BY <3>4 DEF L
  <2> QED
    BY <2>1, <2>5, <2>7 DEF Sized
<1>11. Within'
  BY <1>1, <1>3 DEF Within
<1> QED
  BY <1>5, <1>7, <1>8, <1>9, <1>10, <1>11 DEF CInv

(* The clock: set back within a gather, it excuses the packet. *)
LEMMA ClockStep ==
  ASSUME CInv, ClockForward \/ ClockBack
  PROVE  CInv'
<1>1. /\ now \in Nat /\ begin \in Nat /\ started \in Nat /\ due \in Nat /\ backs \in Nat
      /\ size \in Nat /\ records \in Nat /\ restarts \in Nat
  BY DEF CInv, TypeOK
<1>2. /\ UNCHANGED <<due, begin, busy, state, started, size, records, longest, peak, restarts>>
      /\ Slots' = Slots /\ (Open' <=> Open)
  BY Zenon DEF ClockForward, ClockBack, packet, Slots, Open
<1>3. now' \in Nat /\ backs' \in Nat
  BY <1>1, ClockAssumption DEF ClockForward, ClockBack
<1>4. busy \in BOOLEAN /\ skewed \in BOOLEAN /\ skewed' \in BOOLEAN
  BY Zenon DEF CInv, TypeOK, ClockForward, ClockBack
<1>5. TypeOK'
  BY <1>1, <1>2, <1>3, <1>4, Zenon DEF CInv, TypeOK
<1>6. ~skewed' => ~skewed
  BY <1>4, Zenon DEF ClockForward, ClockBack
<1>7. ~skewed' /\ busy => ClockForward
  BY <1>4, Zenon DEF ClockBack
<1>8. ClockForward => now <= now'
  BY <1>1, ClockAssumption DEF ClockForward
<1>9. Spaced'
  <2>1. ASSUME Open, ~skewed', busy PROVE begin <= now'
    <3>1. begin <= now
      BY <1>6, <2>1, Zenon DEF CInv, Spaced
    <3>2. now <= now'
      BY <1>7, <1>8, <2>1, Zenon
    <3> QED
      BY <1>1, <1>3, <3>1, <3>2
  <2> QED
    BY <1>2, <1>6, <2>1, Zenon DEF CInv, Spaced
<1>10. Young' /\ RecordsBounded' /\ Sized' /\ Within'
  BY <1>2, <1>4, <1>6, Zenon DEF CInv, Young, RecordsBounded, Sized, Within
<1> QED
  BY <1>5, <1>9, <1>10 DEF CInv

-----------------------------------------------------------------------------
(* CInv is inductive. *)
LEMMA CInvAlways == Spec => []CInv
<1>1. CInv /\ [Next]_vars => CInv'
  <2> SUFFICES ASSUME CInv, [Next]_vars PROVE CInv'
    OBVIOUS
  <2>1. CASE GatherBegin
    BY <2>1, BeginStep
  <2>2. ASSUME NEW n \in 1..MaxRecord, NEW kept \in BOOLEAN, GatherEnd(n, kept) PROVE CInv'
    <3>1. CASE kept = TRUE
      BY <2>2, <3>1, RecordStep
    <3>2. CASE kept = FALSE
      BY <2>2, <3>2, NoRecordStep
    <3> QED
      BY <3>1, <3>2
  <2>3. ASSUME NEW n \in 0..MaxRecord, Restart(n) PROVE CInv'
    BY <2>3, RestartStep
  <2>4. CASE ClockForward \/ ClockBack
    BY <2>4, ClockStep
  <2>5. CASE UNCHANGED vars
    BY <2>5, Zenon DEF CInv, TypeOK, Spaced, Young, Open, Slots, RecordsBounded, Sized, Within, vars, packet
  <2> QED
    BY <2>1, <2>2, <2>3, <2>4, <2>5 DEF Next
<1> QED
  BY <1>1, CInvInit, PTL DEF Spec

(* routine_main, plugin_gather and packet_expired: whatever the tick and   *)
(* the expiry, the records of a packet but two, and one for each restart,  *)
(* begin within the expiry, unless the clock was set back in a gather.     *)
THEOREM RecordsBoundedAlways == Spec => []RecordsBounded
<1>1. CInv => RecordsBounded
  BY DEF CInv
<1> QED
  BY <1>1, CInvAlways, PTL

(* packet_append: in a plugin that was not restarted, a packet is overrun  *)
(* only after a gather that wrote more than its share of the room, which   *)
(* is that of one of Cap records; the text it takes back counts as well.   *)
THEOREM PacketFitsAlways == Spec => []PacketFits
<1>1. CInv => PacketFits
  <2> SUFFICES ASSUME CInv, restarts = 0, ~skewed, Head + Cap * longest + Tail < PKTSZ
               PROVE  peak < PKTSZ
    BY DEF PacketFits
  <2>1. peak \in Nat /\ Cap * longest \in Int
    BY ClockAssumption DEF CInv, TypeOK
  <2>2. peak <= Head + Cap * longest + Tail
    BY DEF CInv, Within
  <2> QED
    BY <2>1, <2>2, ClockAssumption
<1> QED
  BY <1>1, CInvAlways, PTL

(* packet.c: the fields of a packet keep their types, a packet with no     *)
(* record is empty or on its way, and a plugin gathers into no sealed one. *)
THEOREM ClockTypeCorrect == Spec => []TypeOK
<1>1. CInv => TypeOK
  BY DEF CInv
<1> QED
  BY <1>1, CInvAlways, PTL
=============================================================================
