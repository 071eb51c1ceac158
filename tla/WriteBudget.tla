---------------------------- MODULE WriteBudget ----------------------------
(***************************************************************************)
(* The write half of the host's disk limiter (resource/disk.go): a bucket  *)
(* of bytes refilled at a daily average, which the cache's writes are      *)
(* charged to as they are admitted and every other write of the device     *)
(* when its counter is next read.                                          *)
(***************************************************************************)
EXTENDS Integers, FiniteSetsExt, TLAPS

CONSTANTS Burst, BytesPerDay, Day, \* the budget, and the clock's ticks of a day
          Priorities,
          MaxElapsed, MaxOthers, MaxAdmits \* bounds: ticks between two refills, writes of others, admissions

VARIABLES tokens, carry, elapsed, \* the bucket, and the time since it was refilled
          pending,                \* admitted, and not yet counted by the device
          counting, gap,          \* the device's counter past what was counted
          unwritten,              \* admitted, and not yet on the device
          others, admits,
          ideal                   \* history: a bucket only the cache's writes are charged to, in bytes * Day

writeVars == <<tokens, carry, elapsed, pending, counting, gap, unwritten, others, admits, ideal>>

----------------------------------------------------------------------------
\* refillLocked.
Refilled(t, c, ticks) ==
    LET need == Burst - t
        credit == BytesPerDay * (ticks % Day) + c
        filled == t + (ticks \div Day) * BytesPerDay + (credit \div Day)
    IN IF ticks = 0 THEN <<t, c>>
       ELSE IF need <= 0 THEN <<t, 0>>
       ELSE IF ticks \div Day > need \div BytesPerDay \/ filled >= Burst THEN <<Burst, 0>>
       ELSE <<filled, credit % Day>>
Now == Refilled(tokens, carry, elapsed)

Tick ==
    /\ elapsed < MaxElapsed /\ elapsed' = elapsed + 1
    /\ ideal' = Min({Burst * Day, ideal + BytesPerDay})
    /\ UNCHANGED <<tokens, carry, pending, counting, gap, unwritten, others, admits>>

\* Status: refills, and tells.
Status ==
    /\ elapsed > 0
    /\ tokens' = Now[1] /\ carry' = Now[2] /\ elapsed' = 0
    /\ UNCHANGED <<pending, counting, gap, unwritten, others, admits, ideal>>

\* Admit: a priority keeps its reserve for those above it.
ReserveOf(priority) == (Burst * (Priorities - 1 - priority)) \div Priorities
Admit(n, priority) ==
    /\ admits < MaxAdmits
    /\ carry' = Now[2] /\ elapsed' = 0
    /\ IF Now[1] - n < ReserveOf(priority) THEN tokens' = Now[1] /\ UNCHANGED <<pending, unwritten, ideal, admits>>
       ELSE /\ tokens' = Now[1] - n /\ pending' = pending + n
            /\ unwritten' = unwritten + n /\ ideal' = ideal - n * Day /\ admits' = admits + 1
    /\ UNCHANGED <<counting, gap, others>>

\* The device: a write that was admitted, one that then failed, another's, and a device replaced.
CacheWrites ==
    /\ unwritten > 0 /\ unwritten' = unwritten - 1
    /\ gap' \in {gap, gap + 1}
    /\ UNCHANGED <<tokens, carry, elapsed, pending, counting, others, admits, ideal>>
OthersWrite ==
    /\ others < MaxOthers /\ others' = others + 1 /\ gap' \in {gap + 1, gap + Burst + 1}
    /\ UNCHANGED <<tokens, carry, elapsed, pending, counting, unwritten, admits, ideal>>

\* countLocked, with the counter gone backwards when the device was replaced.
Charged(charge) == Max({Now[1] - charge, -Burst})
ChargedTwice(delta) == delta
ChargeOf(delta) == delta - pending
Count(replaced) ==
    /\ carry' = Now[2] /\ elapsed' = 0 /\ gap' = 0
    /\ IF replaced THEN tokens' = Now[1] /\ UNCHANGED <<counting, pending>>
       ELSE IF ~counting THEN tokens' = Now[1] /\ counting' = TRUE /\ UNCHANGED pending
       ELSE /\ pending' = Max({pending - gap, 0})
            /\ tokens' = IF ChargeOf(gap) > 0 THEN Charged(ChargeOf(gap)) ELSE Now[1]
            /\ UNCHANGED counting
    /\ UNCHANGED <<unwritten, others, admits, ideal>>

WritesInit ==
    /\ tokens = Burst /\ carry = 0 /\ elapsed = 0 /\ pending = 0 /\ counting = FALSE
    /\ gap \in 0 .. 1 /\ unwritten = 0 /\ others = 0 /\ admits = 0 /\ ideal = Burst * Day
WritesNext ==
    \/ Tick \/ Status \/ CacheWrites \/ OthersWrite
    \/ \E n \in 1 .. Burst, priority \in 0 .. Priorities - 1 : Admit(n, priority)
    \/ \E replaced \in BOOLEAN : Count(replaced)
WritesSpec == WritesInit /\ [][WritesNext]_writeVars

----------------------------------------------------------------------------
(* The bucket stays within a burst either way (refillLocked, countLocked: "a charge never *)
(* takes the budget below a burst in debt"), and less than a byte is carried.             *)
TokensBounded ==
    /\ tokens \in -Burst .. Burst /\ carry \in 0 .. Day - 1 /\ elapsed \in 0 .. MaxElapsed
    /\ pending >= 0 /\ unwritten >= 0 /\ gap >= 0

(* The cache's writes keep to the budget (Admit: "the cache's own writes ... never go past *)
(* the budget either way"): over any stretch of time they come to no more than a burst and *)
(* what the time credits, so a bucket only they are charged to never runs into debt.       *)
CacheWithinBudget == ideal >= 0

(* A byte is charged once and a credit counted once (refillLocked, countLocked): while no *)
(* other writer writes, the bucket is exactly the one the cache's writes alone would       *)
(* leave, however refills, counts and admissions interleave; another's writes only         *)
(* lower it.                                                                                *)
ChargedOnce ==
    /\ Now[1] * Day + Now[2] <= ideal
    /\ others = 0 => Now[1] * Day + Now[2] = ideal

(* Both, with the bounds of the bucket: what the limiter promises of the device's writes. *)
BudgetKept == TokensBounded /\ CacheWithinBudget /\ ChargedOnce

----------------------------------------------------------------------------
(* BudgetKept for every budget.  What the refills leave is told by one number, the bucket *)
(* in bytes * Day: Worth.                                                                 *)

\* What WriteBudget.Validate asks of a budget.
Sane ==
    /\ Burst \in Nat \ {0} /\ BytesPerDay \in Nat \ {0} /\ Day \in Nat \ {0}
    /\ Priorities \in Nat \ {0} /\ MaxElapsed \in Nat
ASSUME SaneAssumption == Sane

Worth(t, c) == t * Day + c
Capped(x) == IF x < Burst * Day THEN x ELSE Burst * Day

\* A bucket within its burst, which carries nothing once it is full.
Bucket(t, c) == t \in Int /\ t <= Burst /\ c \in 0 .. Day - 1 /\ (t = Burst => c = 0)

\* Division with a remainder.
LEMMA DivMod ==
    ASSUME NEW x \in Int, NEW d \in Nat \ {0}
    PROVE  /\ x \div d \in Int /\ (x % d) \in 0 .. d - 1
           /\ x = d * (x \div d) + (x % d)
OBVIOUS

\* The quotient is a number.
LEMMA DivNat ==
    ASSUME NEW x \in Nat, NEW d \in Nat \ {0}
    PROVE  x \div d >= 0
OBVIOUS

\* The credit of whole days and of the rest, with its carry, is the credit of the whole time.
LEMMA CreditWhole ==
    ASSUME Sane, NEW t \in Int, NEW c \in 0 .. Day - 1, NEW n \in Nat
    PROVE  LET credit == BytesPerDay * (n % Day) + c
               filled == t + (n \div Day) * BytesPerDay + (credit \div Day)
           IN  /\ credit \in Nat /\ filled \in Int /\ filled >= t /\ (credit % Day) \in 0 .. Day - 1
               /\ filled >= t + (n \div Day) * BytesPerDay
               /\ Worth(filled, credit % Day) = Worth(t, c) + BytesPerDay * n
<1> DEFINE q == n \div Day
           r == n % Day
           credit == BytesPerDay * r + c
           k == credit \div Day
           m == credit % Day
<1>1. q \in Int /\ r \in 0 .. Day - 1 /\ n = Day * q + r /\ q >= 0
  <2>1. n \in Int /\ Day \in Nat \ {0}
    BY DEF Sane
  <2> QED  BY <2>1, DivMod, DivNat, Zenon
<1>2. credit \in Nat
  BY <1>1 DEF Sane
<1>3. k \in Int /\ m \in 0 .. Day - 1 /\ credit = Day * k + m /\ k >= 0
  <2>1. credit \in Int /\ Day \in Nat \ {0}
    BY <1>2 DEF Sane
  <2> QED  BY <1>2, <2>1, DivMod, DivNat, Zenon
<1>4. q * BytesPerDay \in Int /\ q * BytesPerDay >= 0
  BY <1>1 DEF Sane
<1> HIDE DEF q, r, k, m
<1>5. BytesPerDay * n = (q * BytesPerDay) * Day + BytesPerDay * r
  BY <1>1 DEF Sane
<1>6. (t + q * BytesPerDay + k) * Day = t * Day + (q * BytesPerDay) * Day + Day * k
  BY <1>1, <1>3 DEF Sane
<1>7. Worth(t + q * BytesPerDay + k, m) = Worth(t, c) + BytesPerDay * n
  <2> DEFINE x == (q * BytesPerDay) * Day
             y == BytesPerDay * r
             z == Day * k
  <2>1. x \in Int /\ y \in Int /\ z \in Int /\ t * Day \in Int
    BY <1>1, <1>3, <1>4 DEF Sane
  <2>2. y + c = z + m
    BY <1>3
  <2>3. BytesPerDay * n = x + y /\ (t + q * BytesPerDay + k) * Day = t * Day + x + z
    BY <1>5, <1>6
  <2> HIDE DEF x, y, z
  <2> QED  BY <2>1, <2>2, <2>3, <1>3 DEF Worth
<1>8. t + q * BytesPerDay + k \in Int /\ t + q * BytesPerDay + k >= t + q * BytesPerDay
      /\ t + q * BytesPerDay + k >= t
  BY <1>3, <1>4
<1> QED  BY <1>2, <1>3, <1>7, <1>8 DEF q, r, k, m

\* A bucket is worth less than a full one until it is full.
LEMMA WorthOrdered ==
    ASSUME Sane, NEW t \in Int, NEW c \in 0 .. Day - 1
    PROVE  /\ Worth(t, c) \in Int
           /\ t < Burst => Worth(t, c) < Burst * Day
           /\ t >= Burst => Worth(t, c) >= Burst * Day
<1>1. t * Day \in Int /\ Burst * Day \in Int /\ (Burst - 1) * Day = Burst * Day - Day
  BY DEF Sane
<1>2. t < Burst => t * Day <= (Burst - 1) * Day
  BY DEF Sane
<1>3. t >= Burst => t * Day >= Burst * Day
  BY DEF Sane
<1> QED  BY <1>1, <1>2, <1>3 DEF Worth, Sane

\* refillLocked: a refill adds what the time credits, up to the burst, and keeps every
\* fraction of a byte.
LEMMA RefilledWorth ==
    ASSUME Sane, NEW t, NEW c, Bucket(t, c), NEW n \in Nat
    PROVE  /\ Bucket(Refilled(t, c, n)[1], Refilled(t, c, n)[2])
           /\ Refilled(t, c, n)[1] >= t
           /\ Worth(Refilled(t, c, n)[1], Refilled(t, c, n)[2]) = Capped(Worth(t, c) + BytesPerDay * n)
<1> DEFINE need == Burst - t
           credit == BytesPerDay * (n % Day) + c
           filled == t + (n \div Day) * BytesPerDay + (credit \div Day)
           total == Worth(t, c) + BytesPerDay * n
<1>0. t \in Int /\ t <= Burst /\ c \in 0 .. Day - 1 /\ (t = Burst => c = 0)
  BY DEF Bucket
<1>1. /\ credit \in Nat /\ filled \in Int /\ filled >= t /\ (credit % Day) \in 0 .. Day - 1
      /\ filled >= t + (n \div Day) * BytesPerDay
      /\ Worth(filled, credit % Day) = total
  BY <1>0, CreditWhole
<1>2. Worth(t, c) \in Int /\ BytesPerDay * n \in Nat /\ Burst * Day \in Int /\ total \in Int /\ total >= Worth(t, c)
  BY <1>0, WorthOrdered DEF Sane
<1>3. Bucket(Burst, 0) /\ Worth(Burst, 0) = Burst * Day
  BY <1>2 DEF Bucket, Worth, Sane
<1>4. /\ filled >= Burst => total >= Burst * Day
      /\ filled < Burst => total < Burst * Day
  <2> DEFINE m == credit % Day
  <2>1. filled \in Int /\ m \in 0 .. Day - 1 /\ Worth(filled, m) = total
    BY <1>1
  <2> HIDE DEF filled, m, total
  <2> QED  BY <2>1, WorthOrdered
<1>5. filled < Burst => Bucket(filled, credit % Day)
  <2> DEFINE m == credit % Day
  <2>1. filled \in Int /\ m \in 0 .. Day - 1
    BY <1>1
  <2> HIDE DEF filled, m
  <2>2. filled < Burst => filled <= Burst /\ filled # Burst
    BY <2>1 DEF Sane
  <2> QED  BY <2>1, <2>2, Zenon DEF Bucket, m
<1>6. (n \div Day) > (need \div BytesPerDay) => filled >= Burst
  <2> DEFINE q == n \div Day
             k == need \div BytesPerDay
  <2>1. q \in Int /\ k \in Int /\ need \in Int
    BY <1>0, DivMod DEF Sane
  <2>2. need = BytesPerDay * k + (need % BytesPerDay) /\ (need % BytesPerDay) \in 0 .. BytesPerDay - 1
    BY <2>1, DivMod DEF Sane
  <2> HIDE DEF q, k
  <2>3. need < BytesPerDay * (k + 1)
    BY <2>1, <2>2 DEF Sane
  <2>4. ASSUME q > k PROVE BytesPerDay * (k + 1) <= q * BytesPerDay
    BY <2>1, <2>4 DEF Sane
  <2>5. ASSUME q > k PROVE q * BytesPerDay > need
    <3>1. q * BytesPerDay \in Int /\ BytesPerDay * (k + 1) \in Int
      BY <2>1 DEF Sane
    <3> QED  BY <2>1, <2>3, <2>4, <2>5, <3>1
  <2>6. q * BytesPerDay \in Int
    BY <2>1 DEF Sane
  <2>7. filled >= t + q * BytesPerDay /\ filled \in Int
    BY <1>1 DEF q
  <2> DEFINE x == q * BytesPerDay
  <2>8. ASSUME q > k PROVE filled >= Burst
    <3>1. x \in Int /\ x > Burst - t /\ filled >= t + x
      BY <2>5, <2>6, <2>7, <2>8
    <3> HIDE DEF x, filled
    <3> QED  BY <1>0, <2>7, <3>1 DEF Sane
  <2> QED  BY <2>8 DEF q, k
<1> HIDE DEF credit, filled, total
<1>7. CASE n = 0
  <2>1. Refilled(t, c, n) = <<t, c>>
    BY <1>7 DEF Refilled
  <2>2. total = Worth(t, c)
    BY <1>2, <1>7 DEF total, Sane
  <2>3. total < Burst * Day \/ total = Burst * Day
    <3>1. CASE t = Burst
      BY <1>0, <1>3, <2>2, <3>1
    <3>2. CASE t < Burst
      BY <1>0, <2>2, <3>2, WorthOrdered
    <3> QED  BY <1>0, <3>1, <3>2 DEF Sane
  <2> QED  BY <1>0, <1>2, <2>1, <2>2, <2>3 DEF Capped, total
<1>8. CASE n # 0 /\ need <= 0
  <2>1. t = Burst /\ c = 0 /\ Refilled(t, c, n) = <<Burst, 0>>
    BY <1>0, <1>8 DEF Refilled, Sane
  <2>2. total >= Burst * Day
    BY <1>2, <1>3, <2>1
  <2> QED  BY <1>0, <1>2, <1>3, <2>1, <2>2 DEF Capped, total
<1>9. CASE n # 0 /\ ~(need <= 0) /\ ((n \div Day) > (need \div BytesPerDay) \/ filled >= Burst)
  <2>1. Refilled(t, c, n) = <<Burst, 0>>
    BY <1>9 DEF Refilled, filled, credit
  <2>2. total >= Burst * Day
    BY <1>4, <1>6, <1>9
  <2> QED  BY <1>0, <1>2, <1>3, <2>1, <2>2 DEF Capped, total
<1>10. CASE n # 0 /\ ~(need <= 0) /\ ~((n \div Day) > (need \div BytesPerDay) \/ filled >= Burst)
  <2>1. Refilled(t, c, n) = <<filled, credit % Day>>
    BY <1>10 DEF Refilled, filled, credit
  <2>2. filled < Burst
    BY <1>1, <1>10 DEF Sane
  <2> QED  BY <1>1, <1>4, <1>5, <2>1, <2>2 DEF Capped, total
<1> QED  BY <1>7, <1>8, <1>9, <1>10

\* What a step of the bucket keeps: its shape, what the cache has not written yet is
\* pending while nobody else writes, and ChargedOnce and CacheWithinBudget.
Shapes ==
    /\ Bucket(tokens, carry) /\ tokens >= -Burst /\ elapsed \in 0 .. MaxElapsed
    /\ pending \in Nat /\ gap \in Nat /\ unwritten \in Nat /\ others \in Nat
    /\ counting \in BOOLEAN /\ ideal \in Int
Accounted ==
    others = 0 => unwritten <= pending /\ (counting => gap + unwritten <= pending)
IInv == Shapes /\ Accounted /\ CacheWithinBudget /\ ChargedOnce

\* The smaller of two.
LEMMA MinOfTwo ==
    ASSUME NEW x \in Int, NEW y \in Int
    PROVE  Min({x, y}) = IF x <= y THEN x ELSE y
BY DEF Min

\* The larger of two.
LEMMA MaxOfTwo ==
    ASSUME NEW x \in Int, NEW y \in Int
    PROVE  Max({x, y}) = IF x >= y THEN x ELSE y
BY DEF Max

\* The bucket as a step finds it.
LEMMA NowIs ==
    ASSUME Sane, Shapes
    PROVE  /\ Bucket(Now[1], Now[2]) /\ Now[1] \in Int /\ Now[1] >= -Burst /\ Now[1] <= Burst
           /\ Now[2] \in 0 .. Day - 1 /\ Now = <<Now[1], Now[2]>>
           /\ Worth(Now[1], Now[2]) \in Int
           /\ Worth(Now[1], Now[2]) = Capped(Worth(tokens, carry) + BytesPerDay * elapsed)
<1>1. Bucket(tokens, carry) /\ elapsed \in Nat /\ tokens \in Int /\ tokens >= -Burst /\ Burst \in Nat
  BY DEF Shapes, Bucket, Sane
<1>2. /\ Bucket(Now[1], Now[2]) /\ Now[1] >= tokens
      /\ Worth(Now[1], Now[2]) = Capped(Worth(tokens, carry) + BytesPerDay * elapsed)
  BY <1>1, RefilledWorth DEF Now
<1>3. Now[1] \in Int /\ Now[1] <= Burst /\ Now[2] \in 0 .. Day - 1
  BY <1>2 DEF Bucket
<1>4. Worth(Now[1], Now[2]) \in Int
  BY <1>3, WorthOrdered
<1>5. Now[1] >= -Burst
  BY <1>1, <1>2, <1>3
<1>6. Now = <<Now[1], Now[2]>>
  BY DEF Now, Refilled
<1> QED  BY <1>2, <1>3, <1>4, <1>5, <1>6

\* The bucket just refilled is itself.
LEMMA NowRefilled ==
    ASSUME elapsed = 0
    PROVE  Now = <<tokens, carry>>
BY DEF Now, Refilled

\* A step that refills the bucket and then leaves it at t keeps what it is worth by t.
LEMMA StepsFromNow ==
    ASSUME Sane, NEW t \in Int, t <= Now[1], t >= -Burst, Shapes,
           tokens' = t, carry' = Now[2], elapsed' = 0
    PROVE  /\ Bucket(tokens', carry') /\ tokens' >= -Burst /\ elapsed' \in 0 .. MaxElapsed
           /\ Now' = <<t, Now[2]>>
           /\ Worth(t, Now[2]) \in Int
           /\ Worth(t, Now[2]) = Worth(Now[1], Now[2]) - (Now[1] - t) * Day
<1> DEFINE n == Now[1]
           f == Now[2]
<1>1. n \in Int /\ n <= Burst /\ f \in 0 .. Day - 1 /\ (n = Burst => f = 0) /\ Burst \in Nat /\ Day \in Nat
  BY NowIs DEF Bucket, Sane
<1>2. Bucket(t, f)
  <2> HIDE DEF n, f
  <2>1. t <= n
    BY DEF n
  <2> QED  BY <1>1, <2>1 DEF Bucket
<1>3. Now' = <<t, f>>
  BY DEF Now, Refilled
<1>4. Worth(t, f) \in Int /\ Worth(t, f) = Worth(n, f) - (n - t) * Day
  <2> HIDE DEF n, f
  <2>1. t * Day \in Int /\ n * Day \in Int /\ (n - t) * Day = n * Day - t * Day
    BY <1>1
  <2> QED  BY <1>1, <2>1 DEF Worth
<1>5. 0 \in 0 .. MaxElapsed
  BY DEF Sane
<1> QED  BY <1>2, <1>3, <1>4, <1>5, Zenon

\* ChargedOnce by what the bucket is worth.
LEMMA ChargedIs == ChargedOnce <=> /\ Worth(Now[1], Now[2]) <= ideal
                                   /\ others = 0 => Worth(Now[1], Now[2]) = ideal
BY DEF ChargedOnce, Worth

\* The clock credits the bucket and the ideal one alike.
LEMMA TickKeeps ==
    ASSUME Sane, IInv, Tick
    PROVE  IInv'
<1> DEFINE w == Worth(Now[1], Now[2])
           total == Worth(tokens, carry) + BytesPerDay * elapsed
           full == Burst * Day
<1>1. tokens \in Int /\ carry \in 0 .. Day - 1 /\ elapsed \in Nat /\ ideal \in Int /\ full \in Nat
      /\ BytesPerDay \in Nat /\ Shapes
  BY DEF IInv, Shapes, Bucket, Sane
<1>2. Worth(tokens, carry) \in Int /\ BytesPerDay * elapsed \in Int /\ total \in Int
  BY <1>1, WorthOrdered
<1>3. w = Capped(total) /\ w \in Int
  BY <1>1, NowIs
<1>4. Shapes'
  <2>1. elapsed' \in 0 .. MaxElapsed /\ UNCHANGED <<tokens, carry, pending, counting, gap, unwritten, others>>
    BY <1>1 DEF Tick, Sane
  <2>2. ideal' \in Int
    BY <1>1, MinOfTwo DEF Tick
  <2> QED  BY <1>1, <2>1, <2>2 DEF Shapes
<1>5. Worth(Now[1], Now[2])' = Capped(total + BytesPerDay)
  <2>1. Worth(Now[1], Now[2])' = Capped(Worth(tokens', carry') + BytesPerDay * elapsed')
    <3>1. Bucket(tokens', carry') /\ elapsed' \in Nat
      BY <1>4 DEF Shapes, Sane
    <3>2. Now' = Refilled(tokens', carry', elapsed')
      BY DEF Now
    <3> QED  BY <3>1, <3>2, RefilledWorth, ZenonT(30)
  <2>2. BytesPerDay * (elapsed + 1) = BytesPerDay * elapsed + BytesPerDay
    BY <1>1
  <2>3. Worth(tokens', carry') = Worth(tokens, carry) /\ elapsed' = elapsed + 1
    BY DEF Tick
  <2>4. Worth(tokens', carry') + BytesPerDay * elapsed' = total + BytesPerDay
    BY <1>1, <1>2, <2>2, <2>3
  <2> QED  BY <2>1, <2>4
<1>6. ideal' = IF full <= ideal + BytesPerDay THEN full ELSE ideal + BytesPerDay
  BY <1>1, MinOfTwo DEF Tick
<1>7. w <= ideal /\ (others = 0 => w = ideal) /\ ideal >= 0 /\ others' = others
  BY ChargedIs DEF IInv, CacheWithinBudget, Tick
<1>8. ideal' >= 0
  BY <1>1, <1>6, <1>7
<1>9. Capped(total + BytesPerDay) <= ideal' /\ (others' = 0 => Capped(total + BytesPerDay) = ideal')
  <2> HIDE DEF w, total, full
  <2>1. w = (IF total < full THEN total ELSE full)
        /\ Capped(total + BytesPerDay) = (IF total + BytesPerDay < full THEN total + BytesPerDay ELSE full)
    BY <1>3 DEF Capped, full
  <2> QED  BY <1>1, <1>2, <1>6, <1>7, <2>1
<1>10. ChargedOnce'
  BY <1>5, <1>9 DEF ChargedOnce, Worth
<1>11. Accounted'
  BY DEF IInv, Accounted, Tick
<1> QED  BY <1>4, <1>8, <1>10, <1>11 DEF IInv, CacheWithinBudget

\* A step that refills the bucket and takes charge out of it, and out of the ideal one
\* what the cache was admitted.
LEMMA ChargeKeeps ==
    ASSUME Sane, IInv, NEW charge \in Nat, NEW n \in Nat,
           tokens' = Now[1] - charge, tokens' >= -Burst, carry' = Now[2], elapsed' = 0,
           ideal' = ideal - n * Day, n <= charge, n > 0 => Now[1] - n >= 0,
           others' = 0 => others = 0 /\ n = charge,
           pending' \in Nat, gap' \in Nat, unwritten' \in Nat, others' \in Nat, counting' \in BOOLEAN,
           Accounted'
    PROVE  IInv'
<1> DEFINE w == Worth(Now[1], Now[2])
           t == Now[1] - charge
           v == Worth(t, Now[2])
<1>1. Shapes /\ ideal \in Int /\ Day \in Nat /\ Day > 0
  BY DEF IInv, Shapes, Sane
<1>2. Now[1] \in Int /\ Now[2] \in 0 .. Day - 1 /\ w \in Int
  BY <1>1, NowIs
<1>3. t \in Int /\ t <= Now[1] /\ t >= -Burst /\ Now[1] - t = charge
  BY <1>2
<1>4. /\ Bucket(tokens', carry') /\ elapsed' \in 0 .. MaxElapsed /\ Now' = <<t, Now[2]>>
      /\ v \in Int /\ v = w - (Now[1] - t) * Day
  BY <1>1, <1>3, StepsFromNow
<1>5. charge * Day \in Int /\ n * Day \in Int /\ n * Day <= charge * Day
  BY <1>1
<1>6. w <= ideal /\ (others = 0 => w = ideal) /\ ideal >= 0
  BY ChargedIs DEF IInv, CacheWithinBudget
<1>7. v = w - charge * Day
  BY <1>3, <1>4
<1>8. ideal' \in Int
  BY <1>1, <1>5
<1>9. ideal' >= 0
  <2>1. CASE n = 0
    <3>1. n * Day = 0
      BY <1>1, <2>1
    <3> QED  BY <1>1, <1>6, <3>1
  <2>2. CASE n > 0
    <3>1. Now[1] * Day \in Int /\ (Now[1] - n) * Day >= 0 /\ (Now[1] - n) * Day = Now[1] * Day - n * Day
      BY <1>1, <1>2, <2>2
    <3>2. w = Now[1] * Day + Now[2]
      BY DEF Worth
    <3> HIDE DEF w
    <3> QED  BY <1>1, <1>2, <1>5, <1>6, <3>1, <3>2
  <2> QED  BY <2>1, <2>2
<1>10. v <= ideal' /\ (others' = 0 => v = ideal')
  <2> HIDE DEF w, v
  <2> DEFINE x == charge * Day
             y == n * Day
  <2>1. x \in Int /\ y \in Int /\ y <= x /\ v = w - x /\ ideal' = ideal - y /\ (n = charge => x = y)
    BY <1>5, <1>7
  <2> HIDE DEF x, y
  <2> QED  BY <1>1, <1>2, <1>6, <2>1
<1>11. ChargedOnce'
  <2>1. Now'[1] = t /\ Now'[2] = Now[2] /\ v = t * Day + Now[2]
    BY <1>4 DEF Worth
  <2> QED  BY <1>10, <2>1, Zenon DEF ChargedOnce
<1>12. Shapes'
  BY <1>4, <1>8, Zenon DEF Shapes
<1> QED  BY <1>9, <1>11, <1>12 DEF IInv, CacheWithinBudget

\* A reading of the bucket refills it and takes nothing.
LEMMA StatusKeeps ==
    ASSUME Sane, IInv, Status
    PROVE  IInv'
<1>1. Shapes /\ ideal \in Int /\ Day \in Nat
  BY DEF IInv, Shapes, Sane
<1>2. Now[1] \in Int /\ Now[1] >= -Burst
  BY <1>1, NowIs
<1>3. tokens' = Now[1] - 0 /\ tokens' >= -Burst /\ ideal' = ideal - 0 * Day
  BY <1>1, <1>2 DEF Status
<1>4. /\ carry' = Now[2] /\ elapsed' = 0 /\ Accounted' /\ others' = others
      /\ pending' \in Nat /\ gap' \in Nat /\ unwritten' \in Nat /\ others' \in Nat /\ counting' \in BOOLEAN
  BY DEF IInv, Shapes, Accounted, Status
<1> QED  BY <1>3, <1>4, ChargeKeeps, 0 \in Nat

\* Admit charges both buckets what it admits, which the reserve keeps above nothing.
LEMMA AdmitKeeps ==
    ASSUME Sane, IInv, NEW n \in 1 .. Burst, NEW priority \in 0 .. Priorities - 1, Admit(n, priority)
    PROVE  IInv'
<1>1. Shapes /\ ideal \in Int /\ Day \in Nat /\ Burst \in Nat /\ n \in Nat
      /\ pending \in Nat /\ gap \in Nat /\ unwritten \in Nat /\ others \in Nat /\ counting \in BOOLEAN
  BY DEF IInv, Shapes, Sane
<1>2. Now[1] \in Int /\ Now[1] >= -Burst
  BY <1>1, NowIs
<1>3. carry' = Now[2] /\ elapsed' = 0 /\ counting' = counting /\ gap' = gap /\ others' = others
  BY DEF Admit
<1>4. CASE Now[1] - n < ReserveOf(priority)
  <2>1. tokens' = Now[1] - 0 /\ tokens' >= -Burst /\ ideal' = ideal - 0 * Day
    BY <1>1, <1>2, <1>4 DEF Admit
  <2>2. pending' = pending /\ unwritten' = unwritten /\ Accounted'
    BY <1>3, <1>4 DEF Admit, IInv, Accounted
  <2> QED  BY <1>1, <1>3, <2>1, <2>2, ChargeKeeps, 0 \in Nat
<1>5. CASE ~(Now[1] - n < ReserveOf(priority))
  <2>1. tokens' = Now[1] - n /\ pending' = pending + n /\ unwritten' = unwritten + n /\ ideal' = ideal - n * Day
    BY <1>5 DEF Admit
  <2>2. ReserveOf(priority) \in Int /\ ReserveOf(priority) >= 0
    <3>1. Burst * (Priorities - 1 - priority) \in Nat /\ Priorities \in Nat \ {0}
      BY DEF Sane
    <3>2. Burst * (Priorities - 1 - priority) \in Int
      BY <3>1
    <3> QED  BY <3>1, <3>2, DivNat, DivMod, Zenon DEF ReserveOf
  <2>3. Now[1] - n >= 0 /\ tokens' >= -Burst
    BY <1>1, <1>2, <1>5, <2>1, <2>2
  <2>4. Accounted'
    BY <1>1, <1>3, <2>1 DEF IInv, Accounted
  <2>5. pending' \in Nat /\ unwritten' \in Nat
    BY <1>1, <2>1
  <2> QED  BY <1>1, <1>3, <2>1, <2>3, <2>4, <2>5, ChargeKeeps
<1> QED  BY <1>4, <1>5

\* The device's counter moves and the bucket does not.
LEMMA DeviceKeeps ==
    ASSUME Sane, IInv, CacheWrites \/ OthersWrite
    PROVE  IInv'
<1>1. Shapes /\ Accounted /\ CacheWithinBudget /\ ChargedOnce
  BY DEF IInv
<1>2. pending \in Nat /\ gap \in Nat /\ unwritten \in Nat /\ others \in Nat /\ Burst \in Nat
  BY <1>1 DEF Shapes, Sane
<1>3. gap' \in Nat /\ unwritten' \in Nat /\ others' \in Nat /\ Accounted'
  <2>1. CASE CacheWrites
    <3>1. /\ unwritten > 0 /\ unwritten' = unwritten - 1 /\ (gap' = gap \/ gap' = gap + 1)
          /\ counting' = counting /\ pending' = pending /\ others' = others
      BY <2>1, Zenon DEF CacheWrites
    <3>2. gap' \in Nat /\ unwritten' \in Nat /\ gap' + unwritten' <= gap + unwritten /\ unwritten' <= unwritten
      BY <1>2, <3>1
    <3>3. ASSUME others = 0 PROVE unwritten' <= pending
      BY <1>1, <1>2, <3>2, <3>3 DEF Accounted
    <3>4. gap + unwritten <= pending => gap' + unwritten' <= pending
      BY <1>2, <3>1
    <3>5. others = 0 => unwritten <= pending /\ (counting => gap + unwritten <= pending)
      BY <1>1, Zenon DEF Accounted
    <3>6. others' = 0 => unwritten' <= pending' /\ (counting' => gap' + unwritten' <= pending')
      BY <3>1, <3>3, <3>4, <3>5, Zenon
    <3> QED  BY <1>2, <3>1, <3>2, <3>6, Zenon DEF Accounted
  <2>2. CASE OthersWrite
    <3>1. others' = others + 1 /\ (gap' = gap + 1 \/ gap' = gap + Burst + 1) /\ unwritten' = unwritten
      BY <2>2, Zenon DEF OthersWrite
    <3> QED  BY <1>2, <3>1 DEF Accounted
  <2> QED  BY <2>1, <2>2
<1>4. UNCHANGED <<tokens, carry, elapsed, pending, counting, ideal>> /\ (others' = 0 => others = 0)
  BY <1>2 DEF CacheWrites, OthersWrite
<1>5. Shapes'
  BY <1>1, <1>3, <1>4 DEF Shapes
<1>6. Now' = Now
  BY <1>4 DEF Now
<1>7. ChargedOnce' /\ CacheWithinBudget'
  BY <1>1, <1>4, <1>6 DEF ChargedOnce, CacheWithinBudget
<1> QED  BY <1>3, <1>5, <1>7 DEF IInv

\* countLocked: what is pending was charged when it was admitted, so only another's
\* writes are charged here.
LEMMA CountKeeps ==
    ASSUME Sane, IInv, NEW replaced \in BOOLEAN, Count(replaced)
    PROVE  IInv'
<1>1. Shapes /\ Accounted /\ ideal \in Int /\ Day \in Nat /\ Burst \in Nat
      /\ pending \in Nat /\ gap \in Nat /\ unwritten \in Nat /\ others \in Nat /\ counting \in BOOLEAN
  BY DEF IInv, Shapes, Sane
<1>2. Now[1] \in Int /\ Now[1] >= -Burst
  BY <1>1, NowIs
<1>3. carry' = Now[2] /\ elapsed' = 0 /\ gap' = 0 /\ unwritten' = unwritten /\ others' = others /\ ideal' = ideal - 0 * Day
  BY <1>1 DEF Count
<1>4. CASE replaced \/ ~counting
  <2>1. tokens' = Now[1] - 0 /\ tokens' >= -Burst
    BY <1>2, <1>4 DEF Count
  <2>2. pending' = pending /\ counting' \in BOOLEAN
    BY <1>1, <1>4 DEF Count
  <2>3. Accounted'
    BY <1>1, <1>3, <2>2 DEF Accounted
  <2> QED  BY <1>1, <1>3, <2>1, <2>2, <2>3, ChargeKeeps, 0 \in Nat
<1>5. CASE ~replaced /\ counting
  <2>1. /\ pending' = Max({pending - gap, 0}) /\ counting' = counting
        /\ tokens' = IF ChargeOf(gap) > 0 THEN Charged(ChargeOf(gap)) ELSE Now[1]
    BY <1>5 DEF Count
  <2>2. pending' \in Nat /\ pending' = IF pending - gap >= 0 THEN pending - gap ELSE 0
    BY <1>1, <2>1, MaxOfTwo
  <2>3. Accounted'
    BY <1>1, <1>3, <1>5, <2>1, <2>2 DEF Accounted
  <2> DEFINE charge == Now[1] - tokens'
  <2>4. ChargeOf(gap) \in Int /\ (others = 0 => ChargeOf(gap) <= 0)
    BY <1>1, <1>5 DEF ChargeOf, Accounted
  <2>5. ASSUME ChargeOf(gap) > 0
        PROVE  Charged(ChargeOf(gap)) \in Int /\ Charged(ChargeOf(gap)) <= Now[1] /\ Charged(ChargeOf(gap)) >= -Burst
    <3> DEFINE x == Now[1] - ChargeOf(gap)
    <3>1. x \in Int /\ x <= Now[1] /\ -Burst \in Int
      BY <1>1, <1>2, <2>4, <2>5
    <3>2. Charged(ChargeOf(gap)) = IF x >= -Burst THEN x ELSE -Burst
      BY <3>1, MaxOfTwo DEF Charged
    <3> QED  BY <1>1, <1>2, <3>1, <3>2
  <2>6. tokens' \in Int /\ tokens' >= -Burst /\ charge \in Nat /\ (others = 0 => charge = 0)
        /\ tokens' = Now[1] - charge
    <3>1. CASE ChargeOf(gap) > 0
      BY <1>1, <1>2, <2>1, <2>4, <2>5, <3>1
    <3>2. CASE ~(ChargeOf(gap) > 0)
      BY <1>1, <1>2, <2>1, <3>2
    <3> QED  BY <3>1, <3>2
  <2> HIDE DEF charge
  <2>7. 0 <= charge /\ ~(0 > 0)
    BY <2>6
  <2> QED  BY <1>1, <1>3, <2>1, <2>2, <2>3, <2>6, <2>7, ChargeKeeps, 0 \in Nat
<1> QED  BY <1>4, <1>5

\* A new limiter has a full burst, and so has the ideal one.
LEMMA Starts == Sane /\ WritesInit => IInv
<1> SUFFICES ASSUME Sane, WritesInit PROVE IInv
  OBVIOUS
<1>1. tokens = Burst /\ carry = 0 /\ elapsed = 0 /\ ideal = Burst * Day /\ Burst * Day \in Nat
  BY DEF WritesInit, Sane
<1>2. Shapes
  <2>1. Bucket(tokens, carry) /\ tokens >= -Burst /\ elapsed \in 0 .. MaxElapsed /\ ideal \in Int
    BY <1>1 DEF Bucket, Sane
  <2>2. pending \in Nat /\ gap \in Nat /\ unwritten \in Nat /\ others \in Nat
    BY DEF WritesInit
  <2> QED  BY <2>1, <2>2, Zenon DEF Shapes, WritesInit
<1>3. Now = <<Burst, 0>>
  BY <1>1, NowRefilled
<1>4. ChargedOnce
  BY <1>1, <1>3 DEF ChargedOnce
<1> QED  BY <1>1, <1>2, <1>4 DEF IInv, Accounted, CacheWithinBudget, WritesInit

\* Every step keeps the invariant.
LEMMA StepKeeps == Sane /\ IInv /\ [WritesNext]_writeVars => IInv'
<1> SUFFICES ASSUME Sane, IInv, [WritesNext]_writeVars PROVE IInv'
  OBVIOUS
<1>1. CASE UNCHANGED writeVars
  BY <1>1 DEF writeVars, IInv, Shapes, Accounted, CacheWithinBudget, ChargedOnce, Now
<1> QED  BY <1>1, TickKeeps, StatusKeeps, AdmitKeeps, DeviceKeeps, CountKeeps DEF WritesNext

\* Whatever the budget, the day and the priorities, the limiter keeps the promises of
\* BudgetKept: the bucket stays within a burst either way, the cache's writes within the
\* budget, and a byte is charged once (Admit, refillLocked, countLocked).
THEOREM BudgetAlwaysKept == WritesSpec => []BudgetKept
<1>1. IInv => BudgetKept
  BY SaneAssumption DEF Sane, IInv, Shapes, Bucket, BudgetKept, TokensBounded
<1>2. WritesInit => IInv
  BY Starts, SaneAssumption
<1>3. IInv /\ [WritesNext]_writeVars => IInv'
  BY StepKeeps, SaneAssumption
<1> QED  BY <1>1, <1>2, <1>3, PTL DEF WritesSpec
============================================================================
