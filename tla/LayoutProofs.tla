---------------------------- MODULE LayoutProofs ----------------------------
(***************************************************************************)
(* Proofs about Words and NilFs for every size they are parameterised by.    *)
(*                                                                         *)
(* Words: a session that was opened can be proved, about the blobs that were *)
(* asked for, and growth is paid. The range of a session is checked when it  *)
(* is opened and computed again, in other terms, when it is proved; the      *)
(* invariant keeps what was checked. The two agree because a multiple of the *)
(* leaves of an MDU goes into the quotient (ShiftDivision), and because a    *)
(* range whose ends lie in one slot lies in it whole (DivisionMonotone).     *)
(*                                                                         *)
(* NilFs: a file saved in the slab reads back, and is fetched in runs of one *)
(* blob each. The invariant says which indices of the directory the slab     *)
(* fills and what is at every one of a file; the rest is arithmetic of       *)
(* scalars, blobs and MDUs.                                                  *)
(***************************************************************************)
EXTENDS Words, NilFs, FiniteSetTheorems, SequenceTheorems, WellFoundedInduction, TLAPS
-----------------------------------------------------------------------------
(* Division *)

\* A product of natural numbers is one; cited where only this is needed.
LEMMA TimesNat == ASSUME NEW a \in Nat, NEW b \in Nat PROVE a * b \in Nat
  OBVIOUS

\* A multiple of a number is at least that number.
LEMMA TimesGrows == ASSUME NEW a \in Nat, NEW b \in Nat \ {0} PROVE a <= b * a
  <1>1. (b - 1) * a \in Nat
    BY TimesNat
  <1>2. b * a = (b - 1) * a + a
    OBVIOUS
  <1>3. QED
    BY <1>1, <1>2, TimesNat

\* What \div and % are on natural numbers.
LEMMA Division ==
    ASSUME NEW a \in Nat, NEW b \in Nat \ {0}
    PROVE  /\ a \div b \in Nat /\ a % b \in Nat /\ a % b < b
           /\ a = b * (a \div b) + (a % b)
  OBVIOUS

\* Quotient and remainder are the only ones.
LEMMA DivisionUnique ==
    ASSUME NEW b \in Nat \ {0}, NEW q \in Nat, NEW r \in Nat, r < b,
           NEW x \in Nat, NEW y \in Nat, y < b, b * q + r = b * x + y
    PROVE  q = x /\ r = y
  <1>1. b * (q - x) = y - r
    OBVIOUS
  <1>2. ASSUME q > x PROVE FALSE
    <2>1. PICK d \in Nat \ {0} : d = q - x
      BY <1>2
    <2>2. b <= d * b
      BY TimesGrows
    <2>3. d * b = y - r
      BY <1>1, <2>1
    <2>4. QED
      BY <2>2, <2>3
  <1>3. ASSUME x > q PROVE FALSE
    <2>1. PICK d \in Nat \ {0} : d = x - q
      BY <1>3
    <2>2. b <= d * b
      BY TimesGrows
    <2>3. d * b = r - y
      <3>1. b * (q - x) = -(d * b)
        BY <2>1
      <3>2. QED
        BY <1>1, <3>1, TimesNat
    <2>4. QED
      BY <2>2, <2>3
  <1>4. q = x
    BY <1>2, <1>3
  <1>5. QED
    BY <1>4

\* a is q times b and r more: the provers see through this only on demand.
Divides(a, b, q, r) == q \in Nat /\ r \in Nat /\ r < b /\ a = b * q + r

\* Who divides a number so has its quotient and its remainder.
LEMMA DivisionIs ==
    ASSUME NEW b \in Nat \ {0}, NEW a, NEW q, NEW r, Divides(a, b, q, r)
    PROVE  a \div b = q /\ a % b = r
  <1>1. a \in Nat
    BY TimesNat DEF Divides
  <1>2. PICK x \in Nat, y \in Nat : x = a \div b /\ y = a % b /\ y < b /\ a = b * x + y
    BY <1>1, Division
  <1>3. q = x /\ r = y
    BY <1>2, DivisionUnique DEF Divides
  <1>4. QED
    BY <1>2, <1>3

\* A number below the divisor is its own remainder.
LEMMA SmallRemainder ==
    ASSUME NEW a \in Nat, NEW b \in Nat, a < b PROVE a % b = a /\ a \div b = 0
  <1>1. b \in Nat \ {0} /\ Divides(a, b, 0, a)
    BY DEF Divides
  <1>2. QED
    BY <1>1, DivisionIs

\* Adding p to r adds m to its quotient by b and leaves the remainder.
Shifts(p, r, b, m) == (p + r) \div b = m + (r \div b) /\ (p + r) % b = r % b

\* Whole multiples of b go into the quotient.
LEMMA ShiftDivision ==
    ASSUME NEW b \in Nat \ {0}, NEW m \in Nat, NEW r \in Nat, NEW p \in Nat,
           Divides(p, b, m, 0)
    PROVE  Shifts(p, r, b, m)
  <1>1. PICK q \in Nat, e \in Nat : q = r \div b /\ e = r % b /\ e < b /\ r = b * q + e
    BY Division
  <1>2. p + r = b * (m + q) + e
    BY <1>1 DEF Divides
  <1>3. PICK x : x = p + r
    OBVIOUS
  <1>4. PICK y \in Nat : y = m + q
    OBVIOUS
  <1>5. Divides(x, b, y, e)
    BY <1>1, <1>2, <1>3, <1>4 DEF Divides
  <1>6. x \div b = y /\ x % b = e
    BY <1>5, DivisionIs
  <1>7. QED
    BY <1>1, <1>3, <1>4, <1>6 DEF Shifts

\* Larger numbers have larger quotients.
LEMMA DivisionMonotone ==
    ASSUME NEW b \in Nat \ {0}, NEW x \in Nat, NEW y \in Nat, x <= y
    PROVE  x \div b <= y \div b
  <1>1. PICK q \in Nat, e \in Nat : q = x \div b /\ e < b /\ x = b * q + e
    BY Division
  <1>2. PICK p \in Nat, f \in Nat : p = y \div b /\ f < b /\ y = b * p + f
    BY Division
  <1>3. ASSUME q > p PROVE FALSE
    <2>1. PICK d \in Nat \ {0} : d = q - p
      BY <1>3
    <2>2. b <= d * b
      BY TimesGrows
    <2>3. b * q = b * p + d * b
      BY <2>1
    <2>4. QED
      BY <1>1, <1>2, <2>2, <2>3, TimesNat
  <1>4. QED
    BY <1>1, <1>2, <1>3

\* A divisor of a number is at most that number.
LEMMA DivisorSmall ==
    ASSUME NEW a \in Nat \ {0}, NEW b \in Nat \ {0}, a % b = 0
    PROVE  b <= a /\ a \div b \in Nat \ {0}
  <1>1. PICK q \in Nat : q = a \div b /\ a = b * q
    BY Division
  <1>2. q # 0
    BY <1>1
  <1>3. b <= q * b
    BY <1>2, TimesGrows
  <1>4. QED
    BY <1>1, <1>2, <1>3

-----------------------------------------------------------------------------
(* Words *)

\* The parts of WordsAssumption; an MDU has fewer blobs than half words count.
LEMMA ConstantsAre ==
    /\ Word \in Nat \ {0} /\ Half \in Nat \ {0} /\ BlobsPerMdu \in Nat \ {0}
    /\ DealBaseReplication \in Nat \ {0} /\ BlobSizeBytes \in Nat \ {0}
    /\ Available \in Nat \ {0}
    /\ BlobsPerMdu * DealBaseReplication < Half /\ BlobsPerMdu < Half /\ Half < Word
    /\ StoragePrice \in Nat /\ MaxDeposit \in Nat
    /\ Duration \in 0 .. Word - 1
  <1>1. /\ Word \in Nat \ {0} /\ Half \in Nat \ {0} /\ BlobsPerMdu \in Nat \ {0}
        /\ DealBaseReplication \in Nat \ {0} /\ BlobSizeBytes \in Nat \ {0}
        /\ Available \in Nat \ {0}
    BY WordsAssumption
  <1>2. /\ BlobsPerMdu * DealBaseReplication < Half /\ Half < Word
        /\ StoragePrice \in Nat /\ MaxDeposit \in Nat
    BY WordsAssumption
  <1>3. Duration \in 0 .. Word - 1
    BY WordsAssumption
  <1>4. BlobsPerMdu <= DealBaseReplication * BlobsPerMdu
    BY <1>1, TimesGrows
  <1>5. BlobsPerMdu < Half
    BY <1>1, <1>2, <1>4
  <1>6. QED
    BY <1>1, <1>2, <1>3, <1>5

\* The fields of the messages are words.
LEMMA InputsAre ==
    /\ \A h \in Hints : h[1] \in 0 .. Word - 1 /\ h[2] \in 0 .. Word - 1
    /\ MduIndices \subseteq 0 .. Word - 1
    /\ BlobCounts \subseteq 0 .. Word - 1
    /\ Sizes \subseteq 0 .. Word - 1
  <1>1. Hints \subseteq (0 .. Word - 1) \X (0 .. Word - 1)
    BY WordsAssumption
  <1>2. MduIndices \cup BlobCounts \cup Sizes \cup {Duration} \subseteq 0 .. Word - 1
    BY WordsAssumption
  <1>3. QED
    BY <1>1, <1>2

\* What remains of a division by Word is a word.
LEMMA RemainderIsWord ==
    ASSUME NEW a \in Nat PROVE a % Word \in 0 .. Word - 1 /\ a % Word \in Nat
  BY ConstantsAre, Division

\* A sum of uint64 wraps around to a uint64.
LEMMA AddIsWord ==
    ASSUME NEW a \in Nat, NEW b \in Nat
    PROVE  Add(a, b) \in 0 .. Word - 1 /\ Add(a, b) \in Nat
  BY RemainderIsWord, a + b \in Nat DEF Add

\* A product of uint64 wraps around to a uint64.
LEMMA MulIsWord ==
    ASSUME NEW a \in Nat, NEW b \in Nat
    PROVE  Mul(a, b) \in 0 .. Word - 1 /\ Mul(a, b) \in Nat
  BY RemainderIsWord, TimesNat DEF Mul

\* A conversion to int64 gives an integer.
LEMMA SignedIsInt == ASSUME NEW a \in Int PROVE Signed(a) \in Int
  BY ConstantsAre DEF Signed

\* A sum that is a word does not wrap around.
LEMMA AddIsSum == ASSUME NEW a \in Nat, NEW b \in Nat, a + b < Word PROVE Add(a, b) = a + b
  BY ConstantsAre, SmallRemainder, a + b \in Nat DEF Add

\* A product that is a word does not wrap around.
LEMMA MulIsProduct == ASSUME NEW a \in Nat, NEW b \in Nat, a * b < Word PROVE Mul(a, b) = a * b
  BY ConstantsAre, SmallRemainder, TimesNat DEF Mul

-----------------------------------------------------------------------------
(* The invariant *)

\* A stripe's rows are never zero: its K is the hint's, which divides the blobs
\* of an MDU, whatever M has become.
GoodDeal(d) ==
    /\ d.hint \in Hints
    /\ d.k \in 0 .. Half - 1 /\ d.m \in 0 .. Half - 1
    /\ d.providers \in 0 .. Available
    /\ Striped(d) => Rows(d) \in Nat \ {0}

\* What was checked of a session when it was opened.
GoodSession(d, s) ==
    /\ s.mdu \in 0 .. Word - 1 /\ s.blob \in 0 .. Half - 1
    /\ s.count \in 1 .. Word - 1 /\ s.slot \in 0 .. Available
    /\ s.blob < LeafCount(d) % Half
    /\ Striped(d) => RangeInSlot(d, s.blob, s.count, s.slot)

WordsInv ==
    /\ deal = NoDeal \/ GoodDeal(deal)
    /\ size \in {0} \cup Sizes
    /\ deposit \in Nat
    /\ session = NoSession \/ (deal # NoDeal /\ GoodSession(deal, session))
    /\ proved = {} \/ (session # NoSession /\ proved = Expected(deal, session))

\* The leaves of an MDU are a word of them.
LEMMA LeafCountIs ==
    ASSUME NEW d, GoodDeal(d) PROVE LeafCount(d) \in 0 .. Word - 1
  <1>1. CASE Striped(d)
    <2>1. d.k \in Nat /\ d.m \in Nat /\ Rows(d) \in Nat
      BY <1>1, ConstantsAre DEF GoodDeal
    <2>2. Add(d.k, d.m) \in Nat
      BY <2>1, AddIsWord
    <2>3. QED
      BY <1>1, <2>1, <2>2, MulIsWord DEF LeafCount
  <1>2. CASE ~ Striped(d)
    BY <1>2, ConstantsAre DEF LeafCount
  <1>3. QED
    BY <1>1, <1>2

\* A deal with a session has leaves: the first blob is one of them.
LEMMA LeavesThere ==
    ASSUME NEW d, GoodDeal(d), NEW s, GoodSession(d, s)
    PROVE  LeafCount(d) \in 1 .. Word - 1
  <1>1. PICK n \in 0 .. Word - 1 : n = LeafCount(d)
    BY LeafCountIs
  <1>2. s.blob \in Nat /\ s.blob < n % Half
    BY <1>1, ConstantsAre DEF GoodSession
  <1>3. 0 % Half = 0
    BY ConstantsAre, SmallRemainder
  <1>4. n # 0
    BY <1>2, <1>3
  <1>5. QED
    BY <1>1, <1>4, ConstantsAre

\* Where a word is a leaf.
LEMMA LeafOfWord ==
    ASSUME NEW n \in 1 .. Word - 1, NEW a \in 0 .. Word - 1
    PROVE  <<a \div n, a % n>> \in (0 .. Word - 1) \X (0 .. Word - 1)
  <1>1. n \in Nat \ {0} /\ a \in Nat
    BY ConstantsAre
  <1>2. PICK q \in Nat, r \in Nat : q = a \div n /\ r = a % n /\ r < n /\ a = n * q + r
    BY <1>1, Division
  <1>3. q <= n * q
    BY <1>1, TimesGrows
  <1>4. PICK p \in Nat : p = n * q
    BY <1>1, TimesNat
  <1>5. q \in 0 .. Word - 1 /\ r \in 0 .. Word - 1
    BY <1>2, <1>3, <1>4, ConstantsAre
  <1>6. QED
    BY <1>2, <1>5

\* The indices a session's proofs must carry are words.
LEMMA ExpectedAreWords ==
    ASSUME NEW d, GoodDeal(d), NEW s, GoodSession(d, s)
    PROVE  Expected(d, s) \subseteq (0 .. Word - 1) \X (0 .. Word - 1)
  <1>1. PICK n \in 1 .. Word - 1 : n = LeafCount(d)
    BY LeavesThere
  <1>2. s.mdu \in Nat /\ s.blob \in Nat /\ n \in Nat
    BY ConstantsAre DEF GoodSession
  <1>3. Mul(s.mdu, n) \in Nat
    BY <1>2, MulIsWord
  <1>4. PICK g \in Nat : g = StartGlobal(d, s.mdu, s.blob)
    BY <1>1, <1>2, <1>3, AddIsWord DEF StartGlobal
  <1>5. ASSUME NEW i \in 0 .. s.count - 1
        PROVE  <<Add(g, i) \div n, Add(g, i) % n>> \in (0 .. Word - 1) \X (0 .. Word - 1)
    <2>1. i \in Nat
      BY ConstantsAre DEF GoodSession
    <2>2. Add(g, i) \in 0 .. Word - 1
      BY <2>1, AddIsWord
    <2>3. QED
      BY <2>2, LeafOfWord
  <1>6. Expected(d, s) = {<<Add(g, i) \div n, Add(g, i) % n>> : i \in 0 .. s.count - 1}
    BY <1>1, <1>4 DEF Expected
  <1>7. QED
    BY <1>5, <1>6

-----------------------------------------------------------------------------
(* A session whose indices are words *)

\* The i-th index of a session, in words and in unbounded arithmetic.
LEMMA IndexIs ==
    ASSUME NEW d, GoodDeal(d), NEW s, GoodSession(d, s), InWord(d, s),
           NEW i \in 0 .. s.count - 1
    PROVE  LET a == Add(StartGlobal(d, s.mdu, s.blob), i) IN
           /\ a \div LeafCount(d) = s.mdu + ((s.blob + i) \div LeafCount(d))
           /\ a % LeafCount(d) = (s.blob + i) % LeafCount(d)
  <1>1. PICK n \in Nat \ {0} : n = LeafCount(d)
    BY LeavesThere, ConstantsAre
  <1>2. PICK m \in Nat, b \in Nat, c \in Nat \ {0} : m = s.mdu /\ b = s.blob /\ c = s.count
    BY ConstantsAre DEF GoodSession
  <1>3. i \in Nat /\ i < c
    BY <1>2
  <1>4. PICK p \in Nat : p = m * n
    BY <1>1, TimesNat
  <1>5. p + b + c <= Word
    BY <1>1, <1>2, <1>4 DEF InWord
  <1>6. Mul(m, n) = p
    <2>1. p < Word
      BY <1>2, <1>5, ConstantsAre
    <2>2. QED
      BY <1>1, <1>4, <2>1, MulIsProduct
  <1>7. StartGlobal(d, s.mdu, s.blob) = p + b
    <2>1. p + b < Word
      BY <1>2, <1>5, ConstantsAre
    <2>2. QED
      BY <1>1, <1>2, <1>6, <2>1, AddIsSum DEF StartGlobal
  <1>8. Add(p + b, i) = p + (b + i)
    <2>1. (p + b) + i < Word /\ p + b \in Nat
      BY <1>2, <1>3, <1>5, ConstantsAre
    <2>2. QED
      BY <1>3, <2>1, AddIsSum
  <1>9. /\ (p + (b + i)) \div n = m + ((b + i) \div n)
        /\ (p + (b + i)) % n = (b + i) % n
    <2>1. PICK r \in Nat : r = b + i
      BY <1>3
    <2>2. (p + r) \div n = m + (r \div n) /\ (p + r) % n = r % n
      <3>1. Divides(p, n, m, 0)
        BY <1>4 DEF Divides
      <3>2. Shifts(p, r, n, m)
        BY <3>1, ShiftDivision
      <3>3. QED
        BY <3>2 DEF Shifts
    <2>3. QED
      BY <2>1, <2>2
  <1>10. QED
    BY <1>1, <1>2, <1>7, <1>8, <1>9

\* The blobs the proof must be about are those that were asked for.
LEMMA ExpectedIsAsked ==
    ASSUME NEW d, GoodDeal(d), NEW s, GoodSession(d, s), InWord(d, s)
    PROVE  Expected(d, s) = Asked(d, s)
  <1>1. PICK g : g = StartGlobal(d, s.mdu, s.blob)
    OBVIOUS
  <1>2. PICK n : n = LeafCount(d)
    OBVIOUS
  <1>3. \A i \in 0 .. s.count - 1 :
            <<Add(g, i) \div n, Add(g, i) % n>> =
                <<s.mdu + ((s.blob + i) \div n), (s.blob + i) % n>>
    BY <1>1, <1>2, IndexIs
  <1>4. Expected(d, s) = {<<Add(g, i) \div n, Add(g, i) % n>> : i \in 0 .. s.count - 1}
    BY <1>1, <1>2 DEF Expected
  <1>5. Asked(d, s) = {<<s.mdu + ((s.blob + i) \div n), (s.blob + i) % n>> :
                           i \in 0 .. s.count - 1}
    BY <1>2 DEF Asked
  <1>6. QED
    BY <1>3, <1>4, <1>5

\* Every blob of the range lies in the provider's slot, as its two ends do.
LEMMA AskedIsAcceptable ==
    ASSUME NEW d, GoodDeal(d), NEW s, GoodSession(d, s), InWord(d, s)
    PROVE  Acceptable(d, s)
  <1> SUFFICES ASSUME Striped(d), NEW e \in Expected(d, s)
               PROVE  SlotOf(d, e[2]) = s.slot
    BY DEF Acceptable
  <1>1. PICK n \in Nat \ {0} : n = LeafCount(d)
    BY LeavesThere, ConstantsAre
  <1>2. PICK b \in Nat, c \in Nat \ {0} : b = s.blob /\ c = s.count
    BY ConstantsAre DEF GoodSession
  <1>3. PICK r \in Nat \ {0} : r = Rows(d)
    BY DEF GoodDeal
  <1>4. PICK i \in 0 .. s.count - 1 :
            e = <<s.mdu + ((s.blob + i) \div n), (s.blob + i) % n>>
    BY <1>1, ExpectedIsAsked DEF Asked
  <1>5. i \in Nat /\ i <= c - 1
    BY <1>2
  <1>6. PICK p \in Nat : p = s.mdu * n
    BY <1>1, TimesNat, ConstantsAre DEF GoodSession
  <1>7. p + b + c <= Word
    BY <1>1, <1>2, <1>6 DEF InWord
  <1>8. Add(b, c - 1) = b + (c - 1)
    <2>1. c - 1 \in Nat /\ b + (c - 1) < Word
      BY <1>2, <1>7, ConstantsAre
    <2>2. QED
      BY <2>1, AddIsSum
  <1>9. RangeInSlot(d, b, c, s.slot)
    BY <1>2 DEF GoodSession
  <1>10. /\ b + (c - 1) < n
         /\ b \div r = s.slot /\ (b + (c - 1)) \div r = s.slot
    BY <1>1, <1>3, <1>8, <1>9 DEF RangeInSlot, SlotOf
  <1>11. b + i \in Nat /\ b + (c - 1) \in Nat /\ b <= b + i /\ b + i <= b + (c - 1)
    BY <1>5
  <1>12. (b + i) % n = b + i
    BY <1>10, <1>11, SmallRemainder
  <1>13. b \div r <= (b + i) \div r /\ (b + i) \div r <= (b + (c - 1)) \div r
    BY <1>11, DivisionMonotone
  <1>14. (b + i) \div r = s.slot
    <2>1. s.slot \in Int
      BY ConstantsAre DEF GoodSession
    <2>2. (b + i) \div r \in Int
      BY <1>11, Division
    <2>3. QED
      BY <1>10, <1>13, <2>1, <2>2
  <1>15. e[2] = b + i
    BY <1>2, <1>4, <1>12
  <1>16. QED
    BY <1>3, <1>14, <1>15 DEF SlotOf

\* The invariant implies the property.
LEMMA WordsInvIsEnough == WordsInv => OpenedCanBeProved
  <1> SUFFICES ASSUME WordsInv PROVE OpenedCanBeProved
    OBVIOUS
  <1>1. ASSUME session # NoSession
        PROVE  GoodDeal(deal) /\ GoodSession(deal, session)
    BY <1>1 DEF WordsInv
  <1>2. TypeOK
    <2>1. deal = NoDeal \/ /\ deal.hint \in Hints
                           /\ deal.k \in 0 .. Half - 1 /\ deal.m \in 0 .. Half - 1
                           /\ deal.providers \in 0 .. Available
      BY DEF WordsInv, GoodDeal
    <2>2. /\ session.mdu \in 0 .. Word - 1 /\ session.blob \in 0 .. Half - 1
          /\ session.count \in 0 .. Word - 1 /\ session.slot \in 0 .. Available
      <3>1. CASE session = NoSession
        BY <3>1, ConstantsAre DEF NoSession
      <3>2. CASE session # NoSession
        BY <1>1, <3>2, ConstantsAre DEF GoodSession
      <3>3. QED
        BY <3>1, <3>2
    <2>3. proved \subseteq (0 .. Word - 1) \X (0 .. Word - 1)
      <3>1. CASE proved = {}
        BY <3>1
      <3>2. CASE proved # {}
        BY <1>1, <3>2, ExpectedAreWords DEF WordsInv
      <3>3. QED
        BY <3>1, <3>2
    <2>4. size \in {0} \cup Sizes /\ deposit \in Nat
      BY DEF WordsInv
    <2>5. QED
      BY <2>1, <2>2, <2>3, <2>4 DEF TypeOK
  <1>3. ASSUME session # NoSession, InWord(deal, session)
        PROVE  Acceptable(deal, session) /\ ProvenIsAsked
    <2>1. Acceptable(deal, session)
      BY <1>1, <1>3, AskedIsAcceptable
    <2>2. Expected(deal, session) = Asked(deal, session)
      BY <1>1, <1>3, ExpectedIsAsked
    <2>3. ProvenIsAsked
      BY <2>2 DEF WordsInv, ProvenIsAsked
    <2>4. QED
      BY <2>1, <2>3
  <1>4. QED
    BY <1>2, <1>3 DEF OpenedCanBeProved

-----------------------------------------------------------------------------
(* The steps *)

\* It holds at first.
LEMMA InitWords == Init => WordsInv
  BY DEF Init, WordsInv

\* CreateDeal: K survives the conversion to half words, as it divides the blobs of an MDU.
LEMMA CreateDealWords ==
    ASSUME WordsInv, NEW hint \in Hints, CreateDeal(hint) PROVE WordsInv'
  <1>1. PICK k \in 0 .. Word - 1, m \in 0 .. Word - 1 : k = hint[1] /\ m = hint[2]
    BY InputsAre
  <1>2. k \in Nat /\ m \in Nat
    BY ConstantsAre
  <1>3. PICK replicas \in Nat : replicas = IF hint = <<0, 0>> THEN DealBaseReplication
                                           ELSE Add(hint[1], hint[2])
    BY <1>1, <1>2, AddIsWord, ConstantsAre
  <1>4. deal' = [hint |-> hint, k |-> k % Half, m |-> m % Half,
                 providers |-> Min({replicas, Available})]
    BY <1>1, <1>3 DEF CreateDeal
  <1>5. k % Half \in 0 .. Half - 1 /\ m % Half \in 0 .. Half - 1
    BY <1>2, ConstantsAre, Division
  <1>6. Min({replicas, Available}) \in 0 .. Available
    <2>1. PICK x \in {replicas, Available} : x <= replicas /\ x <= Available
      BY ConstantsAre
    <2>2. x \in {replicas, Available} /\ \A y \in {replicas, Available} : x <= y
      BY <2>1
    <2>3. /\ Min({replicas, Available}) \in {replicas, Available}
          /\ \A y \in {replicas, Available} : Min({replicas, Available}) <= y
      BY <2>2 DEF Min
    <2>4. QED
      BY <2>3, ConstantsAre
  <1>7. Striped(deal') => Rows(deal') \in Nat \ {0}
    <2>1. SUFFICES ASSUME k % Half > 0 PROVE BlobsPerMdu \div (k % Half) \in Nat \ {0}
      BY <1>4 DEF Striped, Rows
    <2>2. k # 0
      BY <2>1, ConstantsAre, SmallRemainder
    <2>3. BlobsPerMdu % k = 0
      BY <1>1, <2>2 DEF CreateDeal, HintAccepted
    <2>4. k <= BlobsPerMdu /\ BlobsPerMdu \div k \in Nat \ {0}
      BY <1>2, <2>2, <2>3, ConstantsAre, DivisorSmall
    <2>5. k % Half = k
      BY <1>2, <2>4, ConstantsAre, SmallRemainder
    <2>6. QED
      BY <2>4, <2>5
  <1>8. GoodDeal(deal')
    BY <1>4, <1>5, <1>6, <1>7 DEF GoodDeal
  <1>9. session = NoSession /\ proved = {}
    BY DEF CreateDeal, WordsInv
  <1>10. QED
    BY <1>8, <1>9 DEF CreateDeal, WordsInv

\* UpdateDealContent: a cost that wrapped around to a negative one is not taken.
LEMMA UpdateDealContentWords ==
    ASSUME WordsInv, NEW s \in Sizes, UpdateDealContent(s) PROVE WordsInv'
  <1>1. PICK growth \in Int : growth = Signed(s - size)
    <2>1. s \in Int /\ size \in Int /\ s - size \in Int
      BY InputsAre, ConstantsAre DEF WordsInv
    <2>2. QED
      BY <2>1, SignedIsInt
  <1>2. PICK time \in Int : time = Signed(Duration)
    BY ConstantsAre DEF Signed
  <1>3. PICK cost \in Int : cost = StoragePrice * growth * time
    BY ConstantsAre
  <1>4. deposit' = IF s > size /\ cost > 0 THEN deposit + cost ELSE deposit
    BY <1>1, <1>2, <1>3 DEF UpdateDealContent
  <1>5. deposit' \in Nat
    BY <1>4 DEF WordsInv
  <1>6. size' \in {0} \cup Sizes
    BY DEF UpdateDealContent
  <1>7. QED
    BY <1>5, <1>6 DEF UpdateDealContent, WordsInv

\* OpenRetrievalSession: what is checked is what the invariant keeps.
LEMMA OpenRetrievalSessionWords ==
    ASSUME WordsInv, NEW mdu \in MduIndices, NEW blob \in BlobIndices, NEW count \in BlobCounts,
           NEW slot \in 0 .. Available - 1, OpenRetrievalSession(mdu, blob, count, slot)
    PROVE  WordsInv'
  <1>1. session' = [mdu |-> mdu, blob |-> blob, count |-> count, slot |-> slot]
    BY DEF OpenRetrievalSession
  <1>2. mdu \in 0 .. Word - 1 /\ count \in 1 .. Word - 1 /\ slot \in 0 .. Available
    BY InputsAre, ConstantsAre DEF OpenRetrievalSession
  <1>3. blob \in 0 .. Half - 1
    BY ConstantsAre, TimesNat DEF BlobIndices
  <1>4. /\ blob < LeafCount(deal) % Half
        /\ Striped(deal) => RangeInSlot(deal, blob, count, slot)
    BY DEF OpenRetrievalSession
  <1>5. GoodSession(deal, session')
    BY <1>1, <1>2, <1>3, <1>4 DEF GoodSession
  <1>6. session = NoSession /\ proved = {}
    BY DEF OpenRetrievalSession, WordsInv
  <1>7. QED
    BY <1>5, <1>6 DEF OpenRetrievalSession, WordsInv

\* Every step keeps it.
LEMMA NextWords == WordsInv /\ [Next]_vars => WordsInv'
  <1> SUFFICES ASSUME WordsInv, [Next]_vars PROVE WordsInv'
    OBVIOUS
  <1>1. CASE \E hint \in Hints : CreateDeal(hint)
    BY <1>1, CreateDealWords
  <1>2. CASE \E s \in Sizes : UpdateDealContent(s)
    BY <1>2, UpdateDealContentWords
  <1>3. CASE \E mdu \in MduIndices, blob \in BlobIndices, count \in BlobCounts,
                slot \in 0 .. Available - 1 : OpenRetrievalSession(mdu, blob, count, slot)
    BY <1>3, OpenRetrievalSessionWords
  <1>4. CASE SubmitRetrievalSessionProof
    BY <1>4 DEF SubmitRetrievalSessionProof, WordsInv
  <1>5. CASE SessionOver
    BY <1>5 DEF SessionOver, WordsInv
  <1>6. CASE UNCHANGED vars
    BY <1>6 DEF vars, WordsInv
  <1>7. QED
    BY <1>1, <1>2, <1>3, <1>4, <1>5, <1>6 DEF Next

\* OpenRetrievalSession and SubmitRetrievalSessionProof agree: while the global
\* indices of a session's blobs are words, every blob its proof must be about
\* lies in the slot of its provider, and the proof is accepted for the blobs
\* that were asked for, all of them, also under a hint whose sum wrapped around.
THEOREM OpenedIsProvable == Spec => []OpenedCanBeProved
  <1>1. Init => WordsInv
    BY InitWords
  <1>2. WordsInv /\ [Next]_vars => WordsInv'
    BY NextWords
  <1>3. WordsInv => OpenedCanBeProved
    BY WordsInvIsEnough
  <1>4. QED
    BY <1>1, <1>2, <1>3, PTL DEF Spec

\* A step by which the content grows takes a positive cost.
LEMMA PaidGrowth ==
    ASSUME WordsInv, Next, size' > size, size' - size < Word \div 2,
           Signed(Duration) > 0, StoragePrice > 0
    PROVE  deposit' > deposit
  <1>1. PICK s \in Sizes : UpdateDealContent(s)
    <2>1. size \in Int
      BY InputsAre, ConstantsAre DEF WordsInv
    <2>2. size' # size
      BY <2>1
    <2>3. QED
      BY <2>2 DEF Next, CreateDeal, OpenRetrievalSession, SubmitRetrievalSessionProof,
                  SessionOver
  <1>2. s = size' /\ s \in Nat /\ size \in Nat
    BY <1>1, InputsAre, ConstantsAre DEF WordsInv, UpdateDealContent
  <1>3. Signed(s - size) = s - size
    BY <1>2 DEF Signed
  <1>4. PICK growth \in Nat \ {0} : growth = Signed(s - size)
    BY <1>2, <1>3
  <1>5. PICK time \in Nat \ {0} : time = Signed(Duration)
    BY ConstantsAre DEF Signed
  <1>6. PICK cost \in Nat \ {0} : cost = StoragePrice * growth * time
    <2>1. PICK c \in Nat \ {0} : c = StoragePrice * growth
      BY ConstantsAre, TimesGrows
    <2>2. time <= c * time /\ c * time \in Nat
      BY TimesGrows, TimesNat
    <2>3. QED
      BY <2>1, <2>2
  <1>7. deposit' = deposit + cost
    BY <1>1, <1>2, <1>4, <1>5, <1>6 DEF UpdateDealContent
  <1>8. QED
    BY <1>7 DEF WordsInv

\* UpdateDealContent takes a deposit whenever content grows by less than half a
\* word, storage has a price and the duration is positive as an int64.
THEOREM GrowthIsAlwaysPaid == Spec => GrowthIsPaid
  <1>1. Init => WordsInv
    BY InitWords
  <1>2. WordsInv /\ [Next]_vars => WordsInv'
    BY NextWords
  <1>3. WordsInv /\ [Next]_vars
            => [size' > size /\ size' - size < Word \div 2 /\ Signed(Duration) > 0
                    /\ StoragePrice > 0 => deposit' > deposit]_vars
    BY PaidGrowth
  <1>4. QED
    BY <1>1, <1>2, <1>3, PTL DEF Spec, GrowthIsPaid
-----------------------------------------------------------------------------
(* Scalars, blobs and MDUs *)

\* Raw bytes of a blob.
BlobRaw == BlobScalars * PayloadBytes

\* A product of positive numbers is positive.
LEMMA TimesPositive ==
    ASSUME NEW a \in Nat \ {0}, NEW b \in Nat \ {0} PROVE a * b \in Nat \ {0}
  <1>1. b <= a * b
    BY TimesGrows
  <1>2. QED
    BY <1>1, TimesNat

\* The sizes that NilFsAssumption makes: every one a whole number of the next.
LEMMA SizesAre ==
    /\ PayloadBytes \in Nat \ {0} /\ ScalarBytes = PayloadBytes + 1
    /\ BlobScalars \in Nat \ {0} /\ MduBlobs \in Nat \ {0}
    /\ BlobBytes \in Nat \ {0} /\ BlobRaw \in Nat \ {0} /\ RawCapacity \in Nat \ {0}
    /\ BlobRaw <= BlobBytes
    /\ BlobBytes = ScalarBytes * BlobScalars
    /\ BlobRaw = PayloadBytes * BlobScalars
    /\ RawCapacity = BlobRaw * MduBlobs
    /\ RawCapacity = PayloadBytes * (BlobScalars * MduBlobs)
    /\ BlobScalars * MduBlobs \in Nat
  <1>1. PICK p \in Nat \ {0}, s \in Nat \ {0}, q \in Nat \ {0}, m \in Nat \ {0} :
           p = PayloadBytes /\ s = ScalarBytes /\ s = p + 1 /\ q = BlobScalars /\ m = MduBlobs
    BY NilFsAssumption DEF PayloadBytes
  <1>2. BlobBytes = q * s /\ BlobRaw = q * p /\ RawCapacity = m * q * p
    BY <1>1 DEF BlobBytes, BlobRaw, RawCapacity
  <1>3. q * s \in Nat \ {0} /\ q * p \in Nat \ {0} /\ q * m \in Nat
    BY TimesPositive
  <1>4. m * (q * p) \in Nat \ {0}
    BY <1>3, TimesPositive
  <1>5. m * q * p = m * (q * p) /\ m * (q * p) = (q * p) * m /\ m * (q * p) = p * (q * m)
    OBVIOUS
  <1>6. q * s = q * p + q
    BY <1>1
  <1>7. q * p <= q * s /\ q * s = s * q /\ q * p = p * q
    BY <1>3, <1>6
  <1>8. QED
    BY <1>1, <1>2, <1>3, <1>4, <1>5, <1>7

\* The same, as divisions without remainder.
LEMMA SizesDivide ==
    /\ Divides(BlobBytes, ScalarBytes, BlobScalars, 0)
    /\ Divides(BlobRaw, PayloadBytes, BlobScalars, 0)
    /\ Divides(RawCapacity, BlobRaw, MduBlobs, 0)
  <1>1. 0 \in Nat /\ 0 < ScalarBytes /\ 0 < PayloadBytes /\ 0 < BlobRaw
    BY SizesAre
  <1>2. /\ BlobBytes = ScalarBytes * BlobScalars + 0
        /\ BlobRaw = PayloadBytes * BlobScalars + 0
        /\ RawCapacity = BlobRaw * MduBlobs + 0
    BY SizesAre
  <1>3. BlobScalars \in Nat /\ MduBlobs \in Nat
    BY SizesAre
  <1>4. QED
    BY <1>1, <1>2, <1>3 DEF Divides

\* Dividing x by a and then by b is dividing it by d.
Twice(x, a, b, d) == (x \div a) \div b = x \div d

\* Dividing twice is dividing once by the product.
LEMMA NestedDivision ==
    ASSUME NEW x \in Nat, NEW a \in Nat, a # 0, NEW b \in Nat, b # 0, NEW d \in Nat,
           Divides(d, a, b, 0)
    PROVE  Twice(x, a, b, d)
  <1>1. d = a * b
    BY TimesNat DEF Divides
  <1>2. PICK q \in Nat, r \in Nat : q = x \div a /\ r < a /\ x = a * q + r
    BY Division
  <1>3. PICK p \in Nat, e \in Nat : p = q \div b /\ e < b /\ q = b * p + e
    BY Division
  <1>4. d \in Nat \ {0}
    BY <1>1, TimesPositive
  <1>5. x = d * p + (a * e + r)
    <2>1. a * (b * p + e) = (a * b) * p + a * e
      OBVIOUS
    <2>2. a * q = d * p + a * e
      BY <1>1, <1>3, <2>1
    <2>3. d * p \in Nat /\ a * e \in Nat
      BY <1>4, TimesNat
    <2>4. QED
      BY <1>2, <2>2, <2>3
  <1>6. a * e + r < d
    <2>1. PICK g \in Nat \ {0} : g = b - e
      BY <1>3
    <2>2. a <= g * a
      BY TimesGrows
    <2>3. d = a * e + g * a
      BY <1>1, <2>1
    <2>4. QED
      BY <1>2, <2>2, <2>3, TimesNat
  <1>7. PICK rest \in Nat : rest = a * e + r
    BY TimesNat
  <1>8. Divides(x, d, p, rest)
    BY <1>5, <1>6, <1>7 DEF Divides
  <1>9. x \div d = p
    BY <1>4, <1>8, DivisionIs
  <1>10. QED
    BY <1>2, <1>3, <1>9 DEF Twice

\* Every byte of a scalar is in the blob of the scalar.
LEMMA BlobOfScalar ==
    ASSUME NEW q \in Nat, NEW e \in Nat, e < ScalarBytes, NEW x, x = ScalarBytes * q + e
    PROVE  x \div BlobBytes = q \div BlobScalars
  <1>1. PICK s \in Nat \ {0} : s = ScalarBytes
    BY SizesAre
  <1>2. Divides(x, s, q, e) /\ x \in Nat
    BY <1>1, TimesNat DEF Divides
  <1>3. x \div s = q
    BY <1>2, DivisionIs
  <1>4. (x \div s) \div BlobScalars = x \div BlobBytes
    <2>1. Divides(BlobBytes, s, BlobScalars, 0) /\ BlobScalars \in Nat \ {0} /\ BlobBytes \in Nat
      BY <1>1, SizesAre, SizesDivide
    <2>2. Twice(x, s, BlobScalars, BlobBytes)
      BY <1>2, <2>1, NestedDivision
    <2>3. QED
      BY <2>2 DEF Twice
  <1>5. QED
    BY <1>3, <1>4

\* The blob of raw byte r when every scalar is full.
LEMMA BlobOfRaw ==
    ASSUME NEW r \in Nat
    PROVE  (r \div PayloadBytes) \div BlobScalars = r \div BlobRaw
  <1>1. PayloadBytes \in Nat \ {0} /\ BlobScalars \in Nat \ {0} /\ BlobRaw \in Nat
    BY SizesAre
  <1>2. Twice(r, PayloadBytes, BlobScalars, BlobRaw)
    BY <1>1, SizesDivide, NestedDivision
  <1>3. QED
    BY <1>2 DEF Twice

\* rawOffsetToEncodedBlobIndex, which goes by way of the encoded offset, counts
\* blobs of raw bytes.
LEMMA BlobIndexIs ==
    ASSUME NEW r \in Nat
    PROVE  rawOffsetToEncodedBlobIndex(r) = r \div BlobRaw
  <1>1. PICK p \in Nat \ {0} : p = PayloadBytes /\ ScalarBytes = p + 1
    BY SizesAre
  <1>2. PICK q \in Nat, e \in Nat : q = r \div p /\ e < p /\ r = p * q + e
    BY Division
  <1>3. r + q + 1 = ScalarBytes * q + (e + 1)
    <2>1. (p + 1) * q = p * q + q
      OBVIOUS
    <2>2. QED
      BY <1>1, <1>2, <2>1, TimesNat
  <1>4. (r + q + 1) \div BlobBytes = q \div BlobScalars
    <2>1. e + 1 \in Nat /\ e + 1 < ScalarBytes
      BY <1>1, <1>2
    <2>2. QED
      BY <1>3, <2>1, BlobOfScalar
  <1>5. QED
    BY <1>1, <1>2, <1>4, BlobOfRaw DEF rawOffsetToEncodedBlobIndex, encodedPosFromRawOffset

\* Where the encoder puts a byte: in its scalar, as far from the end as the
\* scalar has payload.
LEMMA EncodedPosIs ==
    ASSUME NEW len \in Nat, NEW r \in Nat, r < len
    PROVE  \E q \in Nat, e \in Nat, n \in Nat :
              /\ q = r \div PayloadBytes /\ e = r % PayloadBytes
              /\ e < n /\ n <= PayloadBytes /\ PayloadBytes * q + n <= len
              /\ n = PayloadBytes \/ PayloadBytes * q + n = len
              /\ EncodedPos(len, r) = ScalarBytes * q + (ScalarBytes - n) + e
  <1>1. PICK p \in Nat \ {0}, s \in Nat : p = PayloadBytes /\ s = ScalarBytes /\ s = p + 1
    BY SizesAre
  <1>2. PICK q \in Nat, e \in Nat : q = r \div p /\ e = r % p /\ e < p /\ r = p * q + e
    BY Division
  <1>3. PICK base \in Nat : base = p * q
    BY TimesNat
  <1>4. q * p = base /\ q * s = s * q
    BY <1>3
  <1>5. PICK n \in Nat : n = Least(p, len - base) /\ e < n /\ n <= p
    <2>1. len - base \in Nat /\ len - base > e
      BY <1>2, <1>3
    <2>2. QED
      BY <1>2, <2>1 DEF Least
  <1>6. base + n <= len /\ (n = p \/ base + n = len)
    BY <1>5 DEF Least
  <1>7. EncodedPos(len, r) = s * q + (s - n) + e
    BY <1>1, <1>2, <1>4, <1>5 DEF EncodedPos
  <1>8. /\ q = r \div PayloadBytes /\ e = r % PayloadBytes
        /\ e < n /\ n <= PayloadBytes /\ PayloadBytes * q + n <= len
        /\ n = PayloadBytes \/ PayloadBytes * q + n = len
        /\ EncodedPos(len, r) = ScalarBytes * q + (ScalarBytes - n) + e
    BY <1>1, <1>2, <1>3, <1>5, <1>6, <1>7
  <1>9. QED
    BY <1>8

\* A byte is in the same blob whether or not its scalar is full.
LEMMA BlobOfEncoded ==
    ASSUME NEW len \in Nat, NEW r \in Nat, r < len
    PROVE  EncodedPos(len, r) \div BlobBytes = r \div BlobRaw
  <1>1. PICK q \in Nat, e \in Nat, n \in Nat :
              /\ q = r \div PayloadBytes
              /\ e < n /\ n <= PayloadBytes
              /\ EncodedPos(len, r) = ScalarBytes * q + (ScalarBytes - n) + e
    BY EncodedPosIs
  <1>2. PICK d \in Nat : d = (ScalarBytes - n) + e /\ d < ScalarBytes
    BY <1>1, SizesAre
  <1>3. PICK base \in Nat : base = ScalarBytes * q
    BY SizesAre, TimesNat
  <1>4. EncodedPos(len, r) = base + d
    BY <1>1, <1>2, <1>3, SizesAre
  <1>5. EncodedPos(len, r) = ScalarBytes * q + d
    BY <1>3, <1>4
  <1>6. EncodedPos(len, r) \div BlobBytes = q \div BlobScalars
    BY <1>2, <1>5, BlobOfScalar
  <1>7. QED
    BY <1>1, <1>6, BlobOfRaw

-----------------------------------------------------------------------------
(* Reader and encoder *)

\* An MDU read with the length it was encoded with: the reader looks where the
\* encoder put every byte.
LEMMA SameLengthReads ==
    ASSUME NEW len \in Nat, NEW r \in Nat, r < len
    PROVE  DecodedPos(len, r) = EncodedPos(len, r)
  <1>1. PICK p \in Nat \ {0}, s \in Nat : p = PayloadBytes /\ s = ScalarBytes /\ s = p + 1
    BY SizesAre
  <1>2. PICK q \in Nat, e \in Nat, n \in Nat :
              /\ q = r \div PayloadBytes /\ e = r % PayloadBytes
              /\ e < n /\ n <= PayloadBytes /\ PayloadBytes * q + n <= len
              /\ n = PayloadBytes \/ PayloadBytes * q + n = len
              /\ EncodedPos(len, r) = ScalarBytes * q + (ScalarBytes - n) + e
    BY EncodedPosIs
  <1>3. /\ q = r \div p /\ e = r % p
        /\ e < n /\ n <= p /\ p * q + n <= len
        /\ n = p \/ p * q + n = len
        /\ EncodedPos(len, r) = s * q + (s - n) + e
    BY <1>2, <1>1
  <1>4. PICK t \in Nat, d \in Nat : t = len \div p /\ d = len % p /\ d < p /\ len = p * t + d
    BY Division
  <1>5. PICK b \in Nat : b = s * q
    BY TimesNat
  <1>6. q * s = b
    BY <1>5
  <1>7. CASE d # 0 /\ q = t
    <2>1. n = d
      <3>1. PICK c \in Nat : c = p * q
        BY TimesNat
      <3>2. QED
        BY <1>3, <1>4, <1>7, <3>1
    <2>2. DecodedPos(len, r) = b + (s - d) + e
      BY <1>1, <1>3, <1>4, <1>6, <1>7 DEF DecodedPos
    <2>3. QED
      BY <1>3, <1>5, <2>1, <2>2
  <1>8. CASE ~ (d # 0 /\ q = t)
    <2>1. n = p
      <3>1. SUFFICES ASSUME p * q + n = len, n < p PROVE FALSE
        BY <1>3
      <3>2. Divides(len, p, q, n)
        BY <3>1 DEF Divides
      <3>3. t = q /\ d = n
        BY <1>4, <3>2, DivisionIs
      <3>4. QED
        BY <1>3, <1>8, <3>3
    <2>2. DecodedPos(len, r) = b + 1 + e
      BY <1>1, <1>3, <1>4, <1>6, <1>8 DEF DecodedPos
    <2>3. QED
      BY <1>1, <1>3, <1>5, <2>1, <2>2
  <1>9. QED
    BY <1>7, <1>8

\* An MDU taken to be full: the bytes of full scalars are where they were put.
LEMMA FullScalarReads ==
    ASSUME NEW len \in Nat, NEW r \in Nat, r < len,
           PayloadBytes * (r \div PayloadBytes) + PayloadBytes <= len
    PROVE  DecodedPos(RawCapacity, r) = EncodedPos(len, r)
  <1>1. PICK p \in Nat \ {0}, s \in Nat : p = PayloadBytes /\ s = ScalarBytes /\ s = p + 1
    BY SizesAre
  <1>2. PICK q \in Nat, e \in Nat, n \in Nat :
              /\ q = r \div PayloadBytes /\ e = r % PayloadBytes
              /\ e < n /\ n <= PayloadBytes /\ PayloadBytes * q + n <= len
              /\ n = PayloadBytes \/ PayloadBytes * q + n = len
              /\ EncodedPos(len, r) = ScalarBytes * q + (ScalarBytes - n) + e
    BY EncodedPosIs
  <1>3. /\ q = r \div p /\ e = r % p
        /\ e < n /\ n <= p /\ p * q + n <= len
        /\ n = p \/ p * q + n = len
        /\ EncodedPos(len, r) = s * q + (s - n) + e
    BY <1>2, <1>1
  <1>4. n = p
    <2>1. PICK c \in Nat : c = p * q
      BY TimesNat
    <2>2. c + p <= len
      BY <1>1, <1>3, <2>1
    <2>3. QED
      BY <1>3, <2>1, <2>2
  <1>5. RawCapacity % p = 0
    <2>1. PICK m \in Nat, c \in Nat \ {0} : c = RawCapacity /\ c = p * m
      BY <1>1, SizesAre
    <2>2. Divides(c, p, m, 0)
      BY <2>1 DEF Divides
    <2>3. QED
      BY <2>1, <2>2, DivisionIs
  <1>6. PICK b \in Nat : b = s * q
    BY TimesNat
  <1>7. q * s = b
    BY <1>6
  <1>8. DecodedPos(RawCapacity, r) = b + 1 + e
    BY <1>1, <1>3, <1>5, <1>7 DEF DecodedPos
  <1>9. QED
    BY <1>1, <1>3, <1>4, <1>6, <1>8

-----------------------------------------------------------------------------
(* The bisection *)

\* f follows the definition of Bisect(blob) on the pairs X.
Searched(f, blob, X) ==
    f = [p \in X |->
            LET mid == (p[1] + p[2]) \div 2
            IN  IF p[1] + 1 >= p[2] THEN p[2]
                ELSE IF rawOffsetToEncodedBlobIndex(mid) = blob
                     THEN f[<<mid, p[2]>>]
                     ELSE f[<<p[1], mid>>]]

\* The pairs of offsets at most n apart.
Apart(n) == {p \in (0..RawCapacity) \X (0..RawCapacity) : p[2] - p[1] <= n}

\* Both halves of a pair are pairs closer together.
LEMMA HalvesCloser ==
    ASSUME NEW n \in Nat, NEW p \in Apart(n), p[1] + 1 < p[2], NEW mid, mid = (p[1] + p[2]) \div 2
    PROVE  /\ mid \in 0..RawCapacity /\ p[1] < mid /\ mid < p[2]
           /\ n # 0 /\ <<mid, p[2]>> \in Apart(n - 1) /\ <<p[1], mid>> \in Apart(n - 1)
  <1>1. PICK lo \in 0..RawCapacity, hi \in 0..RawCapacity : p = <<lo, hi>> /\ hi - lo <= n
    BY DEF Apart
  <1>2. RawCapacity \in Nat /\ lo \in Nat /\ hi \in Nat /\ mid = (lo + hi) \div 2 /\ lo + 1 < hi
    BY <1>1, SizesAre
  <1>3. mid \in Nat /\ lo < mid /\ mid < hi
    BY <1>2
  <1>4. mid \in 0..RawCapacity /\ n # 0 /\ hi - mid <= n - 1 /\ mid - lo <= n - 1
    BY <1>1, <1>2, <1>3
  <1>5. <<mid, hi>> \in Apart(n - 1) /\ <<lo, mid>> \in Apart(n - 1)
    BY <1>4 DEF Apart
  <1>6. QED
    BY <1>1, <1>3, <1>4, <1>5

\* At bounds that have met there is nothing to look up.
LEMMA SearchStarts == ASSUME NEW blob PROVE \E f : Searched(f, blob, Apart(0))
  <1>1. PICK f : f = [p \in Apart(0) |-> p[2]]
    OBVIOUS
  <1>2. \A p \in Apart(0) : p[1] + 1 >= p[2]
    BY SizesAre DEF Apart
  <1>3. Searched(f, blob, Apart(0))
    BY <1>1, <1>2 DEF Searched
  <1>4. QED
    BY <1>3

\* Bounds one further apart look up the answer for bounds that are closer.
LEMMA SearchGoesOn ==
    ASSUME NEW blob, NEW n \in Nat, NEW f, Searched(f, blob, Apart(n))
    PROVE  \E g : Searched(g, blob, Apart(n + 1))
  <1> DEFINE Body(h, p) == LET mid == (p[1] + p[2]) \div 2
                           IN  IF p[1] + 1 >= p[2] THEN p[2]
                               ELSE IF rawOffsetToEncodedBlobIndex(mid) = blob
                                    THEN h[<<mid, p[2]>>]
                                    ELSE h[<<p[1], mid>>]
  <1>1. PICK g : g = [p \in Apart(n + 1) |-> Body(f, p)]
    OBVIOUS
  <1>2. \A p \in Apart(n) : f[p] = Body(f, p)
    BY DEF Searched
  <1>3. Apart(n) \subseteq Apart(n + 1)
    BY SizesAre DEF Apart
  <1>4. \A p \in Apart(n) : g[p] = f[p]
    BY <1>1, <1>2, <1>3
  <1>5. ASSUME NEW p \in Apart(n + 1) PROVE g[p] = Body(g, p)
    <2>1. CASE p[1] + 1 >= p[2]
      BY <1>1, <2>1
    <2>2. CASE ~ (p[1] + 1 >= p[2])
      <3>1. PICK mid : mid = (p[1] + p[2]) \div 2
        OBVIOUS
      <3>2. p[1] \in Nat /\ p[2] \in Nat
        BY SizesAre DEF Apart
      <3>3. p[1] + 1 < p[2] /\ n + 1 \in Nat /\ (n + 1) - 1 = n
        BY <2>2, <3>2
      <3>4. <<mid, p[2]>> \in Apart(n) /\ <<p[1], mid>> \in Apart(n)
        BY <3>1, <3>3, HalvesCloser
      <3>5. g[<<mid, p[2]>>] = f[<<mid, p[2]>>] /\ g[<<p[1], mid>>] = f[<<p[1], mid>>]
        BY <1>4, <3>4
      <3>6. g[p] = Body(f, p)
        BY <1>1
      <3>7. QED
        BY <3>1, <3>5, <3>6
    <2>3. QED
      BY <2>1, <2>2
  <1>6. g = [p \in Apart(n + 1) |-> g[p]]
    BY <1>1
  <1>7. g = [p \in Apart(n + 1) |-> Body(g, p)]
    BY <1>5, <1>6
  <1>8. Searched(g, blob, Apart(n + 1))
    BY <1>7 DEF Searched
  <1>9. QED
    BY <1>8

\* The recursion has a solution: there is no least distance without.
LEMMA SearchExists ==
    ASSUME NEW blob, NEW m \in Nat PROVE \E f : Searched(f, blob, Apart(m))
  <1>1. SUFFICES ASSUME ~ \E f : Searched(f, blob, Apart(m)) PROVE FALSE
    OBVIOUS
  <1>2. PICK T : T = {n \in Nat : ~ \E f : Searched(f, blob, Apart(n))}
    OBVIOUS
  <1>3. T \subseteq Nat /\ m \in T
    BY <1>1, <1>2
  <1>4. PICK n \in T : \A x \in Nat : <<x, n>> \in OpToRel(<, Nat) => x \notin T
    BY <1>3, NatLessThanWellFounded, WFMin
  <1>5. n # 0
    BY <1>2, SearchStarts
  <1>6. n - 1 \in Nat /\ <<n - 1, n>> \in OpToRel(<, Nat)
    BY <1>3, <1>5 DEF OpToRel
  <1>7. n - 1 \notin T
    BY <1>4, <1>6
  <1>8. PICK f : Searched(f, blob, Apart(n - 1))
    BY <1>2, <1>6, <1>7
  <1>9. \E g : Searched(g, blob, Apart((n - 1) + 1))
    BY <1>6, <1>8, SearchGoesOn
  <1>10. (n - 1) + 1 = n
    BY <1>3
  <1>11. QED
    BY <1>2, <1>4, <1>9, <1>10

\* The bisection of the model is such a function, on all bounds in an MDU.
LEMMA BisectSearches ==
    ASSUME NEW blob
    PROVE  Searched(Bisect(blob), blob, Apart(RawCapacity))
  <1>1. Apart(RawCapacity) = (0..RawCapacity) \X (0..RawCapacity)
    <2>1. \A p \in (0..RawCapacity) \X (0..RawCapacity) : p[2] - p[1] <= RawCapacity
      BY SizesAre
    <2>2. QED
      BY <2>1 DEF Apart
  <1>2. \E f : Searched(f, blob, (0..RawCapacity) \X (0..RawCapacity))
    BY <1>1, SizesAre, SearchExists
  <1>3. Searched(CHOOSE f : Searched(f, blob, (0..RawCapacity) \X (0..RawCapacity)), blob,
                 (0..RawCapacity) \X (0..RawCapacity))
    BY <1>2
  <1>4. Bisect(blob) = CHOOSE f : Searched(f, blob, (0..RawCapacity) \X (0..RawCapacity))
    BY DEF Bisect, Searched
  <1>5. QED
    BY <1>1, <1>3, <1>4

\* An offset from lo on is in lo's blob until the blob's end.
LEMMA BlobUntil ==
    ASSUME NEW blob \in Nat, NEW lo \in Nat, lo \div BlobRaw = blob,
           NEW end, end = BlobRaw * (blob + 1)
    PROVE  /\ end \in Nat /\ lo < end /\ end - lo <= BlobRaw
           /\ \A x \in Nat : x >= lo => (x \div BlobRaw = blob <=> x < end)
  <1>1. PICK d \in Nat \ {0} : d = BlobRaw
    BY SizesAre
  <1>2. PICK e \in Nat : e < d /\ lo = d * blob + e
    BY <1>1, Division
  <1>3. PICK base \in Nat : base = d * blob /\ end = base + d
    <2>1. d * (blob + 1) = d * blob + d
      OBVIOUS
    <2>2. QED
      BY <1>1, <2>1, TimesNat
  <1>4. end \in Nat /\ lo < end /\ end - lo <= d /\ base <= lo
    BY <1>2, <1>3
  <1>5. ASSUME NEW x \in Nat, x >= lo, x < end PROVE x \div d = blob
    <2>1. PICK y \in Nat : y = x - base /\ y < d
      BY <1>3, <1>4, <1>5
    <2>2. Divides(x, d, blob, y)
      BY <1>3, <2>1 DEF Divides
    <2>3. QED
      BY <2>2, DivisionIs
  <1>6. ASSUME NEW x \in Nat, x >= end PROVE x \div d # blob
    <2>1. PICK y \in Nat : y < d /\ x = d * (x \div d) + y
      BY Division
    <2>2. QED
      BY <1>3, <1>6, <2>1
  <1>7. QED
    BY <1>1, <1>4, <1>5, <1>6

\* What the bisection finds from an offset of the blob: the blob's end, unless
\* the other end of the interval comes first.
LEMMA SearchFinds ==
    ASSUME NEW blob \in Nat, NEW f, Searched(f, blob, Apart(RawCapacity)),
           NEW end, end = BlobRaw * (blob + 1), NEW m \in Nat
    PROVE  \A lo, hi \in 0..RawCapacity :
              lo < hi /\ hi - lo <= m /\ lo \div BlobRaw = blob
                 => f[<<lo, hi>>] = Least(end, hi)
  <1> DEFINE Found(n) == \A lo, hi \in 0..RawCapacity :
                            lo < hi /\ hi - lo <= n /\ lo \div BlobRaw = blob
                               => f[<<lo, hi>>] = Least(end, hi)
  <1>1. SUFFICES ASSUME ~ Found(m) PROVE FALSE
    OBVIOUS
  <1>2. PICK T : T = {n \in Nat : ~ Found(n)}
    OBVIOUS
  <1>3. T \subseteq Nat /\ m \in T
    BY <1>1, <1>2
  <1>4. PICK n \in T : \A x \in Nat : <<x, n>> \in OpToRel(<, Nat) => x \notin T
    BY <1>3, NatLessThanWellFounded, WFMin
  <1>5. n \in Nat /\ RawCapacity \in Nat
    BY <1>3, SizesAre
  <1>6. Found(n - 1)
    <2>1. CASE n = 0
      BY <1>5, <2>1
    <2>2. CASE n # 0
      <3>1. n - 1 \in Nat /\ <<n - 1, n>> \in OpToRel(<, Nat)
        BY <1>5, <2>2 DEF OpToRel
      <3>2. n - 1 \notin T
        BY <1>4, <3>1
      <3>3. QED
        BY <1>2, <3>1, <3>2
    <2>3. QED
      BY <2>1, <2>2
  <1>7. ASSUME NEW lo \in 0..RawCapacity, NEW hi \in 0..RawCapacity,
               lo < hi, hi - lo <= n, lo \div BlobRaw = blob
        PROVE  f[<<lo, hi>>] = Least(end, hi)
    <2>1. lo \in Nat /\ hi \in Nat
      BY <1>5
    <2>2. PICK p : p = <<lo, hi>>
      OBVIOUS
    <2>3. p = <<lo, hi>> /\ p[1] = lo /\ p[2] = hi
      BY <2>2
    <2>4. p \in Apart(RawCapacity)
      BY <1>5, <2>1, <2>3 DEF Apart
    <2>5. PICK mid : mid = (lo + hi) \div 2
      OBVIOUS
    <2>6. f[p] = IF lo + 1 >= hi THEN hi
                 ELSE IF rawOffsetToEncodedBlobIndex(mid) = blob
                      THEN f[<<mid, hi>>]
                      ELSE f[<<lo, mid>>]
      BY <2>3, <2>4, <2>5 DEF Searched
    <2>7. /\ end \in Nat /\ lo < end
          /\ \A x \in Nat : x >= lo => (x \div BlobRaw = blob <=> x < end)
      BY <1>7, <2>1, BlobUntil
    <2>8. CASE lo + 1 >= hi
      <3>1. hi = lo + 1 /\ hi <= end
        BY <1>7, <2>1, <2>7, <2>8
      <3>2. QED
        BY <2>1, <2>3, <2>6, <2>7, <2>8, <3>1 DEF Least
    <2>9. CASE lo + 1 < hi
      <3>1. mid \in Nat /\ lo < mid /\ mid < hi /\ mid \in 0..RawCapacity
        BY <1>5, <2>1, <2>5, <2>9
      <3>2. hi - mid <= n - 1 /\ mid - lo <= n - 1
        BY <1>5, <1>7, <2>1, <3>1
      <3>3. rawOffsetToEncodedBlobIndex(mid) = mid \div BlobRaw
        BY <3>1, BlobIndexIs
      <3>4. CASE mid < end
        <4>1. mid \div BlobRaw = blob
          BY <2>1, <2>7, <3>1, <3>4
        <4>2. f[<<mid, hi>>] = Least(end, hi)
          BY <1>6, <3>1, <3>2, <4>1
        <4>3. QED
          BY <2>1, <2>3, <2>6, <2>9, <3>3, <4>1, <4>2
      <3>5. CASE ~ (mid < end)
        <4>1. mid \div BlobRaw # blob
          BY <2>1, <2>7, <3>1, <3>5
        <4>2. f[<<lo, mid>>] = Least(end, mid)
          BY <1>6, <1>7, <3>1, <3>2
        <4>3. Least(end, mid) = Least(end, hi)
          BY <2>1, <2>7, <3>1, <3>5 DEF Least
        <4>4. QED
          BY <2>1, <2>3, <2>6, <2>9, <3>3, <4>1, <4>2, <4>3
      <3>6. QED
        BY <3>4, <3>5
    <2>10. QED
      BY <2>1, <2>8, <2>9
  <1>8. Found(n)
    BY <1>7
  <1>9. QED
    BY <1>2, <1>4, <1>8

\* The next boundary is the end of the blob.
LEMMA NextBoundaryIs ==
    ASSUME NEW r \in 0..(RawCapacity - 1)
    PROVE  /\ nextBlobBoundary(r) = BlobRaw * ((r \div BlobRaw) + 1)
           /\ nextBlobBoundary(r) \in Nat /\ nextBlobBoundary(r) <= RawCapacity
           /\ r < nextBlobBoundary(r) /\ nextBlobBoundary(r) - r <= BlobRaw
  <1>1. r \in Nat /\ RawCapacity \in Nat /\ r < RawCapacity /\ BlobRaw \in Nat \ {0}
    BY SizesAre
  <1>2. PICK blob \in Nat : blob = r \div BlobRaw
    BY <1>1, Division
  <1>3. PICK end : end = BlobRaw * (blob + 1)
    OBVIOUS
  <1>4. /\ end \in Nat /\ r < end /\ end - r <= BlobRaw
        /\ \A x \in Nat : x >= r => (x \div BlobRaw = blob <=> x < end)
    <2>1. r \in Nat /\ r \div BlobRaw = blob
      BY <1>1, <1>2
    <2>2. QED
      BY <1>3, <2>1, BlobUntil
  <1>5. end <= RawCapacity
    <2>1. PICK m \in Nat : RawCapacity = BlobRaw * m
      BY SizesAre
    <2>2. Divides(RawCapacity, BlobRaw, m, 0)
      BY <1>1, <2>1 DEF Divides
    <2>3. RawCapacity \div BlobRaw = m
      BY <1>1, <2>2, DivisionIs
    <2>4. blob # m
      <3>1. PICK e \in Nat : r = BlobRaw * blob + e
        BY <1>1, <1>2, Division
      <3>2. PICK c \in Nat : c = BlobRaw * blob
        BY <1>1, TimesNat
      <3>3. QED
        BY <1>1, <2>1, <3>1, <3>2
    <2>5. blob <= m
      BY <1>1, <1>2, <2>3, DivisionMonotone
    <2>6. PICK g \in Nat : m = blob + 1 + g
      <3>1. m - blob - 1 \in Nat /\ m = blob + 1 + (m - blob - 1)
        BY <2>4, <2>5
      <3>2. QED
        BY <3>1
    <2>7. BlobRaw * (blob + 1 + g) = BlobRaw * (blob + 1) + BlobRaw * g
      BY <1>1
    <2>8. BlobRaw * g \in Nat
      BY <1>1, TimesNat
    <2>9. QED
      BY <1>3, <1>4, <2>1, <2>6, <2>7, <2>8
  <1>6. Bisect(blob)[<<r, RawCapacity>>] = Least(end, RawCapacity)
    <2>1. r \in 0..RawCapacity /\ RawCapacity \in 0..RawCapacity /\ RawCapacity - r <= RawCapacity
      BY <1>1
    <2>2. QED
      BY <1>1, <1>2, <1>3, <2>1, BisectSearches, SearchFinds
  <1>7. Least(end, RawCapacity) = end
    BY <1>5 DEF Least
  <1>8. rawOffsetToEncodedBlobIndex(r) = blob /\ rawOffsetToEncodedBlobIndex(end) # blob
    <2>1. end \div BlobRaw # blob
      BY <1>1, <1>4
    <2>2. QED
      BY <1>1, <1>2, <1>4, <2>1, BlobIndexIs
  <1>9. nextBlobBoundary(r) = end
    BY <1>2, <1>6, <1>7, <1>8 DEF nextBlobBoundary
  <1>10. QED
    BY <1>2, <1>3, <1>4, <1>5, <1>9

-----------------------------------------------------------------------------
(* Where a byte is *)

\* The MDU and the blob in it of a byte of the slab, from the number of its
\* blob in the slab.
LEMMA BlobOfSlab ==
    ASSUME NEW abs \in Nat
    PROVE  /\ abs \div BlobRaw \in Nat
           /\ abs \div RawCapacity = (abs \div BlobRaw) \div MduBlobs
           /\ (abs % RawCapacity) \div BlobRaw = (abs \div BlobRaw) % MduBlobs
           /\ abs \div BlobRaw = MduBlobs * (abs \div RawCapacity)
                                    + ((abs % RawCapacity) \div BlobRaw)
  <1>1. PICK d \in Nat \ {0}, m \in Nat \ {0}, c \in Nat \ {0} :
           d = BlobRaw /\ m = MduBlobs /\ c = RawCapacity /\ c = d * m
    BY SizesAre
  <1>2. PICK u \in Nat, r \in Nat : u = abs \div c /\ r = abs % c /\ r < c /\ abs = c * u + r
    BY Division
  <1>3. PICK g \in Nat, b \in Nat : g = abs \div d /\ b = r \div d
    BY Division
  <1>4. PICK p \in Nat, t \in Nat : p = c * u /\ t = m * u
    BY TimesNat
  <1>5. Divides(p, d, t, 0)
    <2>1. (d * m) * u = d * (m * u)
      OBVIOUS
    <2>2. QED
      BY <1>1, <1>4, <2>1 DEF Divides
  <1>6. (p + r) \div d = t + (r \div d)
    BY <1>5, ShiftDivision DEF Shifts
  <1>7. g = t + b
    BY <1>2, <1>3, <1>4, <1>6
  <1>8. b < m
    <2>1. Divides(c, d, m, 0)
      BY <1>1, SizesDivide
    <2>2. Twice(r, d, m, c)
      BY <2>1, NestedDivision
    <2>3. b \div m = r \div c
      BY <1>3, <2>2 DEF Twice
    <2>4. r \div c = 0
      BY <1>2, SmallRemainder
    <2>5. PICK y \in Nat : y < m /\ b = m * (b \div m) + y
      BY Division
    <2>6. b = m * 0 + y
      BY <2>3, <2>4, <2>5
    <2>7. QED
      BY <2>5, <2>6
  <1>9. Divides(g, m, u, b)
    BY <1>4, <1>7, <1>8 DEF Divides
  <1>10. g \div m = u /\ g % m = b
    BY <1>9, DivisionIs
  <1>11. g = m * u + b
    BY <1>4, <1>7
  <1>12. QED
    BY <1>1, <1>2, <1>3, <1>10, <1>11

\* A byte is at home where its blob is, in a last scalar that is not full too.
LEMMA HomeIs ==
    ASSUME NEW f, f.start \in Nat, f.len \in Nat, NEW k \in Nat, k < f.len
    PROVE  LET g == (f.start + k) \div BlobRaw
           IN  Home(f, k) = <<g \div MduBlobs, g % MduBlobs>>
  <1>1. PICK c \in Nat \ {0} : c = RawCapacity
    BY SizesAre
  <1>2. PICK abs \in Nat : abs = f.start + k
    OBVIOUS
  <1>3. PICK u \in Nat, r \in Nat : u = abs \div c /\ r = abs % c /\ r < c /\ abs = c * u + r
    BY Division
  <1>4. PICK b \in Nat : b = c * u
    BY TimesNat
  <1>5. u * c = b
    BY <1>4
  <1>6. PICK len \in Nat : len = Least(c, f.start + f.len - b) /\ r < len
    <2>1. PICK x \in Nat, y \in Nat : x = f.start /\ y = f.len
      OBVIOUS
    <2>2. f.start + f.len - b \in Nat /\ r < f.start + f.len - b
      <3>1. x + k = b + r /\ k < y
        BY <1>2, <1>3, <1>4, <2>1
      <3>2. x + y - b \in Nat /\ r < x + y - b
        BY <3>1
      <3>3. QED
        BY <2>1, <3>2
    <2>3. QED
      BY <1>3, <2>2 DEF Least
  <1>7. Encoded(f, slab, u).rawLen = len
    BY <1>1, <1>5, <1>6 DEF Encoded
  <1>8. EncodedPos(len, r) \div BlobBytes = r \div BlobRaw
    BY <1>6, BlobOfEncoded
  <1>9. Home(f, k) = <<u, r \div BlobRaw>>
    BY <1>1, <1>2, <1>3, <1>7, <1>8 DEF Home
  <1>10. QED
    BY <1>1, <1>2, <1>3, <1>9, BlobOfSlab

\* Two bytes of a file share a home if they share a blob of the slab.
LEMMA HomeSame ==
    ASSUME NEW f, f.start \in Nat, f.len \in Nat,
           NEW k \in Nat, k < f.len, NEW l \in Nat, l < f.len
    PROVE  Home(f, k) = Home(f, l) <=> (f.start + k) \div BlobRaw = (f.start + l) \div BlobRaw
  <1>1. PICK m \in Nat \ {0} : m = MduBlobs
    BY SizesAre
  <1>2. PICK g \in Nat : g = (f.start + k) \div BlobRaw
    BY BlobOfSlab, f.start + k \in Nat
  <1>3. PICK h \in Nat : h = (f.start + l) \div BlobRaw
    BY BlobOfSlab, f.start + l \in Nat
  <1>4. Home(f, k) = <<g \div m, g % m>> /\ Home(f, l) = <<h \div m, h % m>>
    BY <1>1, <1>2, <1>3, HomeIs
  <1>5. g = m * (g \div m) + (g % m) /\ h = m * (h \div m) + (h % m)
    BY Division
  <1>6. (g \div m = h \div m /\ g % m = h % m) <=> g = h
    BY <1>5
  <1>7. QED
    BY <1>2, <1>3, <1>4, <1>6

-----------------------------------------------------------------------------
(* Chunks *)

\* A chunk goes to the end of the blob of its first byte, or to the end of
\* what is asked for.
LEMMA ChunkLenIs ==
    ASSUME NEW abs \in Nat, NEW remaining \in Nat \ {0}
    PROVE  ChunkLen(abs, remaining)
              = Least(remaining, BlobRaw * ((abs \div BlobRaw) + 1) - abs)
  <1>1. PICK d \in Nat \ {0}, m \in Nat \ {0}, c \in Nat \ {0} :
           d = BlobRaw /\ m = MduBlobs /\ c = RawCapacity /\ c = d * m
    BY SizesAre
  <1>2. PICK u \in Nat, r \in Nat : u = abs \div c /\ r = abs % c /\ r < c /\ abs = c * u + r
    BY Division
  <1>3. PICK b \in Nat : b = r \div d
    BY Division
  <1>4. abs \div d = m * u + b
    BY <1>1, <1>2, <1>3, BlobOfSlab
  <1>5. PICK next \in Nat : /\ next = nextBlobBoundary(r) /\ next = d * (b + 1)
                            /\ next <= c /\ r < next /\ next - r <= d
    <2>1. r \in 0..(RawCapacity - 1)
      BY <1>1, <1>2
    <2>2. QED
      BY <1>1, <1>3, <2>1, NextBoundaryIs
  <1>6. d * (m * u + b + 1) - abs = next - r
    <2>1. d * (m * u + b + 1) = (d * m) * u + d * (b + 1)
      OBVIOUS
    <2>2. PICK p \in Nat : p = c * u
      BY TimesNat
    <2>3. d * (m * u + b + 1) = p + next
      BY <1>1, <1>5, <2>1, <2>2
    <2>4. QED
      BY <1>2, <2>2, <2>3
  <1>7. BlobBytes \in Nat /\ next - r <= BlobBytes
    BY <1>1, <1>5, SizesAre
  <1>8. PICK n \in Nat : n = Least(remaining, next - r)
    <2>1. next - r \in Nat
      BY <1>5
    <2>2. QED
      BY <2>1 DEF Least
  <1>9. n \in {remaining, c - r, next - r, BlobBytes}
    BY <1>8 DEF Least
  <1>10. \A y \in {remaining, c - r, next - r, BlobBytes} : n <= y
    BY <1>2, <1>5, <1>7, <1>8 DEF Least
  <1>11. \A x \in {remaining, c - r, next - r, BlobBytes} : x \in Int
    BY <1>2, <1>5, <1>7
  <1>12. Min({remaining, c - r, next - r, BlobBytes}) = n
    BY <1>9, <1>10, <1>11 DEF Min
  <1>13. ChunkLen(abs, remaining) = n
    BY <1>1, <1>2, <1>5, <1>12 DEF ChunkLen
  <1>14. QED
    BY <1>1, <1>4, <1>6, <1>8, <1>13

\* A chunk is a run of bytes that share a blob, and ends before another.
LEMMA ChunkIsRun ==
    ASSUME NEW abs \in Nat, NEW remaining \in Nat \ {0}, NEW n, n = ChunkLen(abs, remaining)
    PROVE  /\ n \in 1..remaining
           /\ \A x \in Nat : abs <= x /\ x < abs + n => x \div BlobRaw = abs \div BlobRaw
           /\ n < remaining => (abs + n) \div BlobRaw # abs \div BlobRaw
  <1>1. PICK blob \in Nat : blob = abs \div BlobRaw
    BY BlobOfSlab
  <1>2. PICK end : end = BlobRaw * (blob + 1)
    OBVIOUS
  <1>3. /\ end \in Nat /\ abs < end
        /\ \A x \in Nat : x >= abs => (x \div BlobRaw = blob <=> x < end)
    BY <1>1, <1>2, BlobUntil
  <1>4. n = Least(remaining, end - abs)
    BY <1>1, <1>2, ChunkLenIs
  <1>5. n \in 1..remaining /\ abs + n <= end /\ (n < remaining => abs + n = end)
    BY <1>3, <1>4 DEF Least
  <1>6. abs + n \in Nat
    BY <1>5
  <1>7. QED
    BY <1>1, <1>3, <1>5, <1>6

\* g follows the definition of Chunks(f, from, end) on the offsets X.
Planned(g, f, end, X) ==
    g = [c \in X |->
            IF c = end THEN <<>>
            ELSE LET n == ChunkLen(f.start + c, end - c)
                 IN  <<[start |-> c, len |-> n]>> \o g[c + n]]

\* The offsets at most n before the end.
Ending(from, end, n) == {c \in from..end : end - c <= n}

\* The next chunk starts later, and not after the end.
LEMMA ChunkAdvances ==
    ASSUME NEW start \in Nat, NEW from \in Nat, NEW end \in Nat, NEW m \in Nat,
           NEW c \in Ending(from, end, m), c # end, NEW n, n = ChunkLen(start + c, end - c)
    PROVE  /\ c \in Nat /\ c < end /\ n \in 1..(end - c) /\ m # 0
           /\ c + n \in Ending(from, end, m - 1)
  <1>1. c \in Nat /\ c < end /\ end - c <= m /\ c >= from
    BY DEF Ending
  <1>2. PICK abs \in Nat, rest \in Nat \ {0} : abs = start + c /\ rest = end - c
    BY <1>1
  <1>3. n \in 1..rest
    BY <1>2, ChunkIsRun
  <1>4. n \in Nat /\ 1 <= n /\ n <= end - c
    BY <1>2, <1>3
  <1>5. c + n \in from..end /\ end - (c + n) <= m - 1 /\ m # 0
    BY <1>1, <1>4
  <1>6. QED
    BY <1>1, <1>2, <1>3, <1>5 DEF Ending

\* At the end of the range nothing is planned.
LEMMA PlanStarts ==
    ASSUME NEW f, NEW from \in Nat, NEW end \in Nat
    PROVE  \E g : Planned(g, f, end, Ending(from, end, 0))
  <1>1. PICK g : g = [c \in Ending(from, end, 0) |-> <<>>]
    OBVIOUS
  <1>2. \A c \in Ending(from, end, 0) : c = end
    BY DEF Ending
  <1>3. Planned(g, f, end, Ending(from, end, 0))
    BY <1>1, <1>2 DEF Planned
  <1>4. QED
    BY <1>3

\* One byte earlier, a chunk is put before the plan of what follows it.
LEMMA PlanGoesOn ==
    ASSUME NEW f, f.start \in Nat, NEW from \in Nat, NEW end \in Nat, NEW m \in Nat,
           NEW g, Planned(g, f, end, Ending(from, end, m))
    PROVE  \E h : Planned(h, f, end, Ending(from, end, m + 1))
  <1> DEFINE Body(z, c) == IF c = end THEN <<>>
                           ELSE LET n == ChunkLen(f.start + c, end - c)
                                IN  <<[start |-> c, len |-> n]>> \o z[c + n]
  <1>1. PICK h : h = [c \in Ending(from, end, m + 1) |-> Body(g, c)]
    OBVIOUS
  <1>2. \A c \in Ending(from, end, m) : g[c] = Body(g, c)
    BY DEF Planned
  <1>3. Ending(from, end, m) \subseteq Ending(from, end, m + 1)
    BY DEF Ending
  <1>4. \A c \in Ending(from, end, m) : h[c] = g[c]
    BY <1>1, <1>2, <1>3
  <1>5. ASSUME NEW c \in Ending(from, end, m + 1) PROVE h[c] = Body(h, c)
    <2>1. CASE c = end
      BY <1>1, <2>1
    <2>2. CASE c # end
      <3>1. PICK n : n = ChunkLen(f.start + c, end - c)
        OBVIOUS
      <3>2. m + 1 \in Nat /\ (m + 1) - 1 = m
        OBVIOUS
      <3>3. c + n \in Ending(from, end, m)
        BY <2>2, <3>1, <3>2, ChunkAdvances
      <3>4. h[c + n] = g[c + n]
        BY <1>4, <3>3
      <3>5. h[c] = Body(g, c)
        BY <1>1
      <3>6. QED
        BY <2>2, <3>1, <3>4, <3>5
    <2>3. QED
      BY <2>1, <2>2
  <1>6. h = [c \in Ending(from, end, m + 1) |-> h[c]]
    BY <1>1
  <1>7. h = [c \in Ending(from, end, m + 1) |-> Body(h, c)]
    BY <1>5, <1>6
  <1>8. Planned(h, f, end, Ending(from, end, m + 1))
    BY <1>7 DEF Planned
  <1>9. QED
    BY <1>8

\* The recursion has a solution: there is no least distance without.
LEMMA PlanExists ==
    ASSUME NEW f, f.start \in Nat, NEW from \in Nat, NEW end \in Nat, NEW m \in Nat
    PROVE  \E g : Planned(g, f, end, Ending(from, end, m))
  <1>1. SUFFICES ASSUME ~ \E g : Planned(g, f, end, Ending(from, end, m)) PROVE FALSE
    OBVIOUS
  <1>2. PICK T : T = {n \in Nat : ~ \E g : Planned(g, f, end, Ending(from, end, n))}
    OBVIOUS
  <1>3. T \subseteq Nat /\ m \in T
    BY <1>1, <1>2
  <1>4. PICK n \in T : \A x \in Nat : <<x, n>> \in OpToRel(<, Nat) => x \notin T
    BY <1>3, NatLessThanWellFounded, WFMin
  <1>5. n # 0
    BY <1>2, PlanStarts
  <1>6. n - 1 \in Nat /\ <<n - 1, n>> \in OpToRel(<, Nat)
    BY <1>3, <1>5 DEF OpToRel
  <1>7. n - 1 \notin T
    BY <1>4, <1>6
  <1>8. PICK g : Planned(g, f, end, Ending(from, end, n - 1))
    BY <1>2, <1>6, <1>7
  <1>9. \E h : Planned(h, f, end, Ending(from, end, (n - 1) + 1))
    BY <1>6, <1>8, PlanGoesOn
  <1>10. (n - 1) + 1 = n
    BY <1>3
  <1>11. QED
    BY <1>2, <1>4, <1>9, <1>10

\* The plan of the model is such a function, on the whole range.
LEMMA ChunksPlan ==
    ASSUME NEW f, f.start \in Nat, NEW from \in Nat, NEW end \in Nat
    PROVE  Planned(Chunks(f, from, end), f, end, Ending(from, end, end))
  <1>1. Ending(from, end, end) = from..end
    BY DEF Ending
  <1>2. \E g : Planned(g, f, end, from..end)
    BY <1>1, PlanExists
  <1>3. Planned(CHOOSE g : Planned(g, f, end, from..end), f, end, from..end)
    BY <1>2
  <1>4. Chunks(f, from, end) = CHOOSE g : Planned(g, f, end, from..end)
    BY DEF Chunks, Planned
  <1>5. QED
    BY <1>1, <1>3, <1>4

\* The chunks of a plan.
ChunkSet == [start : Nat, len : Nat \ {0}]

\* A chunk put before others.
LEMMA PutBefore ==
    ASSUME NEW s \in Seq(ChunkSet), NEW x \in ChunkSet, NEW t, t = <<x>> \o s
    PROVE  /\ t \in Seq(ChunkSet) /\ Len(t) = Len(s) + 1 /\ Len(s) \in Nat
           /\ t[1] = x
           /\ \A i \in 1..Len(s) : t[i + 1] = s[i]
           /\ \A i \in 2..Len(t) : t[i] = s[i - 1]
  <1>1. <<x>> \in Seq(ChunkSet) /\ Len(<<x>>) = 1 /\ <<x>>[1] = x
    OBVIOUS
  <1>2. PICK l \in Nat : l = Len(s)
    OBVIOUS
  <1>3. t \in Seq(ChunkSet) /\ Len(t) = l + 1
    BY <1>1, <1>2, ConcatProperties
  <1>4. t[1] = x
    BY <1>1, <1>2
  <1>5. \A i \in 2..(l + 1) : t[i] = s[i - 1]
    BY <1>1, <1>2
  <1>6. ASSUME NEW i \in 1..l PROVE t[i + 1] = s[i]
    <2>1. i + 1 \in 2..(l + 1) /\ (i + 1) - 1 = i
      OBVIOUS
    <2>2. QED
      BY <1>5, <2>1
  <1>7. QED
    BY <1>2, <1>3, <1>4, <1>5, <1>6

\* The blob in the slab of byte k of a file that starts there.
BlobAt(start, k) == (start + k) \div BlobRaw

\* One chunk lies in one blob and ends by the end.
Run(start, c, end) ==
    /\ c.start + c.len <= end
    /\ \A k \in c.start..(c.start + c.len - 1) : BlobAt(start, k) = BlobAt(start, c.start)

\* The next chunk starts where the one before ends, in another blob.
Follows(start, c, d) ==
    /\ d.start = c.start + c.len
    /\ BlobAt(start, d.start) # BlobAt(start, c.start)

\* s are the chunks of bytes c..end-1.
Runs(s, start, c, end) ==
    /\ s \in Seq(ChunkSet)
    /\ c = end => s = <<>>
    /\ c # end => /\ s # <<>>
                  /\ s[1].start = c
                  /\ s[Len(s)].start + s[Len(s)].len = end
    /\ \A i \in 1..Len(s) : Run(start, s[i], end)
    /\ \A i \in 1..(Len(s) - 1) : Follows(start, s[i], s[i + 1])

\* A part of n of the rest from c on ends before the end, or is all of it.
Part(c, n, end, rest) == c + n <= end /\ (n < rest <=> c + n # end)

\* What is no longer than the rest is a part of it.
LEMMA PartOfRest ==
    ASSUME NEW c \in Nat, NEW n \in Nat, NEW end \in Nat, NEW rest \in Nat,
           rest = end - c, n <= rest
    PROVE  Part(c, n, end, rest)
  BY DEF Part

\* A chunk put before runs of blobs makes runs of blobs.
LEMMA RunsGoOn ==
    ASSUME NEW start \in Nat, NEW c \in Nat, NEW end \in Nat, c < end,
           NEW n, n = ChunkLen(start + c, end - c), NEW s, Runs(s, start, c + n, end),
           NEW t, t = <<[start |-> c, len |-> n]>> \o s
    PROVE  Runs(t, start, c, end)
  <1>1. PICK abs \in Nat, rest \in Nat \ {0} : abs = start + c /\ rest = end - c
    OBVIOUS
  <1>2. /\ n \in 1..rest
        /\ \A x \in Nat : abs <= x /\ x < abs + n => x \div BlobRaw = abs \div BlobRaw
        /\ n < rest => (abs + n) \div BlobRaw # abs \div BlobRaw
    BY <1>1, ChunkIsRun
  <1>3. n \in Nat \ {0} /\ c + n <= end /\ (n < rest <=> c + n # end)
    <2>1. n \in Nat /\ 1 <= n /\ n <= rest
      BY <1>2
    <2>2. rest = end - c
      BY <1>1
    <2>3. Part(c, n, end, rest)
      BY <2>1, <2>2, PartOfRest
    <2>4. QED
      BY <2>1, <2>3 DEF Part
  <1>4. PICK x : x = [start |-> c, len |-> n]
    OBVIOUS
  <1>5. x \in ChunkSet /\ x.start = c /\ x.len = n
    BY <1>3, <1>4 DEF ChunkSet
  <1>6. Run(start, x, end)
    <2>1. ASSUME NEW k \in c..(c + n - 1) PROVE BlobAt(start, k) = BlobAt(start, c)
      <3>1. start + k \in Nat /\ abs <= start + k /\ start + k < abs + n
        BY <1>1, <1>3
      <3>2. QED
        BY <1>1, <1>2, <3>1 DEF BlobAt
    <2>2. QED
      BY <1>3, <1>5, <2>1 DEF Run
  <1>7. s \in Seq(ChunkSet) /\ t = <<x>> \o s
    BY <1>4 DEF Runs
  <1>8. PICK l \in Nat : l = Len(s)
    BY <1>7
  <1>9. /\ t \in Seq(ChunkSet) /\ Len(t) = l + 1 /\ t[1] = x
        /\ \A i \in 1..l : t[i + 1] = s[i]
        /\ \A i \in 2..(l + 1) : t[i] = s[i - 1]
    BY <1>5, <1>7, <1>8, PutBefore
  <1>10. \A i \in 1..(l + 1) : Run(start, t[i], end)
    <2>1. SUFFICES ASSUME NEW i \in 1..(l + 1), i # 1 PROVE Run(start, t[i], end)
      BY <1>6, <1>9
    <2>2. i \in 2..(l + 1) /\ i - 1 \in 1..l
      BY <2>1
    <2>3. QED
      BY <1>8, <1>9, <2>2 DEF Runs
  <1>11. c + n # end => l # 0 /\ s[1].start = c + n /\ s[l].start + s[l].len = end
    BY <1>7, <1>8 DEF Runs
  <1>12. c + n = end => l = 0
    BY <1>8 DEF Runs
  <1>13. t[l + 1].start + t[l + 1].len = end
    <2>1. CASE c + n = end
      BY <1>5, <1>9, <1>12, <2>1
    <2>2. CASE c + n # end
      <3>1. l \in 1..l
        BY <1>11, <2>2
      <3>2. QED
        BY <1>9, <1>11, <2>2, <3>1
    <2>3. QED
      BY <2>1, <2>2
  <1>14. \A i \in 1..l : Follows(start, t[i], t[i + 1])
    <2>1. SUFFICES ASSUME NEW i \in 1..l PROVE Follows(start, t[i], t[i + 1])
      OBVIOUS
    <2>2. CASE i = 1
      <3>1. c + n # end
        BY <1>12, <2>2
      <3>2. t[2] = s[1] /\ t[1] = x
        BY <1>9, <2>2
      <3>3. (start + (c + n)) \div BlobRaw # (start + c) \div BlobRaw
        <4>1. start + (c + n) = abs + n
          BY <1>1, <1>3
        <4>2. QED
          BY <1>1, <1>2, <1>3, <3>1, <4>1
      <3>4. Follows(start, x, s[1])
        BY <1>5, <1>11, <3>1, <3>3 DEF Follows, BlobAt
      <3>5. i + 1 = 2
        BY <2>2
      <3>6. t[i] = x /\ t[i + 1] = s[1]
        BY <2>2, <3>2, <3>5, Zenon
      <3>7. QED
        BY <3>4, <3>6
    <2>3. CASE i # 1
      <3>1. i - 1 \in 1..(l - 1) /\ i \in 2..(l + 1) /\ (i - 1) + 1 = i
        BY <2>3
      <3>2. Follows(start, s[i - 1], s[i])
        BY <1>8, <3>1 DEF Runs
      <3>3. t[i] = s[i - 1] /\ t[i + 1] = s[i]
        BY <1>9, <3>1
      <3>4. QED
        BY <3>2, <3>3
    <2>4. QED
      BY <2>2, <2>3
  <1>15. t # <<>>
    BY <1>9
  <1>16. (l + 1) - 1 = l
    OBVIOUS
  <1>17. QED
    BY <1>5, <1>9, <1>10, <1>13, <1>14, <1>15, <1>16 DEF Runs

\* Every planned sequence is one of runs: there is no least distance without.
LEMMA PlannedRuns ==
    ASSUME NEW f, f.start \in Nat, NEW from \in Nat, NEW end \in Nat, NEW g,
           Planned(g, f, end, Ending(from, end, end)), NEW m \in Nat
    PROVE  \A c \in Ending(from, end, m) : Runs(g[c], f.start, c, end)
  <1> DEFINE Good(n) == \A c \in Ending(from, end, n) : Runs(g[c], f.start, c, end)
  <1>1. SUFFICES ASSUME ~ Good(m) PROVE FALSE
    OBVIOUS
  <1>2. PICK T : T = {n \in Nat : ~ Good(n)}
    OBVIOUS
  <1>3. T \subseteq Nat /\ m \in T
    BY <1>1, <1>2
  <1>4. PICK n \in T : \A x \in Nat : <<x, n>> \in OpToRel(<, Nat) => x \notin T
    BY <1>3, NatLessThanWellFounded, WFMin
  <1>5. n \in Nat
    BY <1>3
  <1>6. n # 0 => Good(n - 1)
    <2>1. SUFFICES ASSUME n # 0 PROVE Good(n - 1)
      OBVIOUS
    <2>2. n - 1 \in Nat /\ <<n - 1, n>> \in OpToRel(<, Nat)
      BY <1>5, <2>1 DEF OpToRel
    <2>3. n - 1 \notin T
      BY <1>4, <2>2
    <2>4. QED
      BY <1>2, <2>2, <2>3
  <1>7. ASSUME NEW c \in Ending(from, end, n) PROVE Runs(g[c], f.start, c, end)
    <2>1. c \in Ending(from, end, end)
      BY DEF Ending
    <2>2. g[c] = IF c = end THEN <<>>
                 ELSE LET len == ChunkLen(f.start + c, end - c)
                      IN  <<[start |-> c, len |-> len]>> \o g[c + len]
      BY <2>1 DEF Planned
    <2>3. CASE c = end
      <3>1. g[c] = <<>>
        BY <2>2, <2>3
      <3>2. <<>> \in Seq(ChunkSet) /\ Len(<<>>) = 0
        OBVIOUS
      <3>3. QED
        BY <2>3, <3>1, <3>2 DEF Runs
    <2>4. CASE c # end
      <3>1. PICK len : len = ChunkLen(f.start + c, end - c)
        OBVIOUS
      <3>2. c \in Nat /\ c < end /\ n # 0 /\ c + len \in Ending(from, end, n - 1)
        <4>1. PICK start \in Nat : start = f.start
          OBVIOUS
        <4>2. len = ChunkLen(start + c, end - c)
          BY <3>1, <4>1
        <4>3. QED
          BY <1>5, <2>4, <4>2, ChunkAdvances
      <3>3. Runs(g[c + len], f.start, c + len, end)
        BY <1>6, <3>2
      <3>4. g[c] = <<[start |-> c, len |-> len]>> \o g[c + len]
        BY <2>2, <2>4, <3>1
      <3>5. QED
        BY <3>1, <3>2, <3>3, <3>4, RunsGoOn
    <2>5. QED
      BY <2>3, <2>4
  <1>8. Good(n)
    BY <1>7
  <1>9. QED
    BY <1>2, <1>4, <1>8

\* The plan of a range is the runs of its bytes.
LEMMA PlanRuns ==
    ASSUME NEW f, f.start \in Nat, f.len \in Nat, NEW from \in 0..(f.len - 1),
           NEW len \in 1..(f.len - from)
    PROVE  /\ from \in Nat /\ len \in Nat /\ from + len <= f.len /\ from # from + len
           /\ Runs(planNilfsFileRangeChunks(f, from, len), f.start, from, from + len)
  <1>1. PICK n \in Nat : n = f.len
    OBVIOUS
  <1>2. from \in Nat /\ len \in Nat /\ len # 0 /\ from + len <= n
    BY <1>1
  <1>3. Least(len, f.len - from) = len
    BY <1>1, <1>2 DEF Least
  <1>4. PICK end \in Nat : end = from + len
    BY <1>2
  <1>5. planNilfsFileRangeChunks(f, from, len) = Chunks(f, from, end)[from]
    BY <1>3, <1>4 DEF planNilfsFileRangeChunks
  <1>6. Planned(Chunks(f, from, end), f, end, Ending(from, end, end))
    BY <1>2, ChunksPlan
  <1>7. from \in Ending(from, end, end)
    BY <1>2, <1>4 DEF Ending
  <1>8. Runs(Chunks(f, from, end)[from], f.start, from, end)
    BY <1>2, <1>6, <1>7, PlannedRuns
  <1>9. QED
    BY <1>1, <1>2, <1>4, <1>5, <1>8

\* Files of whole bytes: all that the chunks need of the slab.
LEMMA ChunksOfFiles ==
    ASSUME \A f \in FilesOf : f.start \in Nat /\ f.len \in Nat
    PROVE  ChunksAreBlobRuns
  <1>1. SUFFICES ASSUME NEW f \in FilesOf, NEW from \in 0..(f.len - 1),
                        NEW len \in 1..(f.len - from),
                        NEW c, c = planNilfsFileRangeChunks(f, from, len)
                 PROVE  /\ c[1].start = from
                        /\ c[Len(c)].start + c[Len(c)].len = from + len
                        /\ \A i \in 1..Len(c) :
                              \A k \in c[i].start..(c[i].start + c[i].len - 1) :
                                 Home(f, k) = Home(f, c[i].start)
                        /\ \A i \in 1..(Len(c) - 1) :
                              /\ c[i + 1].start = c[i].start + c[i].len
                              /\ Home(f, c[i + 1].start) # Home(f, c[i].start)
    BY DEF ChunksAreBlobRuns
  <1>2. f.start \in Nat /\ f.len \in Nat
    OBVIOUS
  <1>3. PICK end \in Nat : end = from + len /\ end <= f.len /\ from # end
                           /\ Runs(c, f.start, from, end)
    BY <1>1, <1>2, PlanRuns
  <1>4. c[1].start = from /\ c[Len(c)].start + c[Len(c)].len = end /\ c \in Seq(ChunkSet)
    BY <1>3 DEF Runs
  <1>5. ASSUME NEW i \in 1..Len(c)
        PROVE  /\ c[i].start \in Nat /\ c[i].len \in Nat \ {0} /\ c[i].start + c[i].len <= end
               /\ c[i].start < f.len /\ Run(f.start, c[i], end)
    <2>1. c[i] \in ChunkSet
      BY <1>4, ElementOfSeq
    <2>2. Run(f.start, c[i], end)
      BY <1>3 DEF Runs
    <2>3. PICK x \in Nat, y \in Nat \ {0} : x = c[i].start /\ y = c[i].len
      BY <2>1 DEF ChunkSet
    <2>4. x + y <= end
      BY <2>2, <2>3 DEF Run
    <2>5. x < f.len
      BY <1>2, <1>3, <2>4
    <2>6. QED
      BY <2>2, <2>3, <2>4, <2>5
  <1>6. ASSUME NEW i \in 1..Len(c), NEW k, k \in c[i].start..(c[i].start + c[i].len - 1)
        PROVE  Home(f, k) = Home(f, c[i].start)
    <2>1. PICK x \in Nat, y \in Nat \ {0} : x = c[i].start /\ y = c[i].len /\ x + y <= end
      BY <1>5
    <2>2. k \in x..(x + y - 1)
      BY <1>6, <2>1
    <2>3. PICK z \in Nat : z = f.len /\ end <= z
      BY <1>2, <1>3
    <2>4. k \in Nat /\ k < z /\ x < z
      <3>1. x + y <= end
        BY <2>1
      <3>2. end <= z
        BY <2>3
      <3>3. x + y <= z
        BY <3>1, <3>2
      <3>4. k \in Int /\ x <= k /\ k <= x + y - 1
        BY <2>2
      <3>5. QED
        BY <3>3, <3>4
    <2>5. k \in Nat /\ k < f.len /\ x < f.len
      BY <2>3, <2>4
    <2>6. BlobAt(f.start, k) = BlobAt(f.start, x)
      BY <1>5, <1>6, <2>1 DEF Run
    <2>7. QED
      BY <1>2, <2>1, <2>5, <2>6, HomeSame DEF BlobAt
  <1>7. ASSUME NEW i \in 1..(Len(c) - 1)
        PROVE  /\ c[i + 1].start = c[i].start + c[i].len
               /\ Home(f, c[i + 1].start) # Home(f, c[i].start)
    <2>1. Len(c) \in Nat /\ i \in 1..Len(c) /\ i + 1 \in 1..Len(c)
      BY <1>4
    <2>2. Follows(f.start, c[i], c[i + 1])
      BY <1>3 DEF Runs
    <2>3. PICK x \in Nat, y \in Nat : x = c[i].start /\ y = c[i + 1].start /\ x < f.len /\ y < f.len
      BY <1>5, <2>1
    <2>4. BlobAt(f.start, y) # BlobAt(f.start, x)
      BY <2>2, <2>3 DEF Follows
    <2>5. Home(f, y) # Home(f, x)
      BY <1>2, <2>3, <2>4, HomeSame DEF BlobAt
    <2>6. QED
      BY <2>2, <2>3, <2>5 DEF Follows
  <1>8. QED
    BY <1>3, <1>4, <1>6, <1>7

-----------------------------------------------------------------------------
(* Files in a slab *)

\* Rounding up: the least number of parts that hold a.
LEMMA CeilDivIs ==
    ASSUME NEW a \in Nat, NEW c \in Nat \ {0}
    PROVE  /\ CeilDiv(a, c) \in Nat /\ a <= c * CeilDiv(a, c)
           /\ \A u \in Nat : c * u < a <=> u < CeilDiv(a, c)
  <1>1. PICK x \in Nat : x = a + c - 1
    OBVIOUS
  <1>2. PICK q \in Nat, e \in Nat : q = x \div c /\ e < c /\ x = c * q + e
    BY Division
  <1>3. CeilDiv(a, c) = q
    BY <1>1, <1>2 DEF CeilDiv
  <1>4. PICK b \in Nat : b = c * q
    BY TimesNat
  <1>5. a <= b /\ b < a + c
    BY <1>1, <1>2, <1>4
  <1>6. ASSUME NEW u \in Nat, u < q PROVE c * u < a
    <2>1. PICK g \in Nat \ {0} : g = q - u
      BY <1>6
    <2>2. c <= g * c
      BY TimesGrows
    <2>3. c * u = b - g * c
      BY <1>4, <2>1
    <2>4. PICK h \in Nat : h = g * c
      BY TimesNat
    <2>5. QED
      BY <1>5, <2>2, <2>3, <2>4
  <1>7. ASSUME NEW u \in Nat, u >= q PROVE c * u >= a
    <2>1. PICK g \in Nat : g = u - q
      BY <1>7
    <2>2. c * u = b + c * g
      BY <1>4, <2>1
    <2>3. PICK h \in Nat : h = c * g
      BY TimesNat
    <2>4. QED
      BY <1>5, <2>2, <2>3
  <1>8. QED
    <2>1. ASSUME NEW u \in Nat PROVE c * u < a <=> u < q
      <3>1. PICK y \in Nat : y = c * u
        BY TimesNat
      <3>2. CASE u < q
        BY <1>6, <3>2
      <3>3. CASE ~ (u < q)
        <4>1. y >= a
          BY <1>7, <3>1, <3>3
        <4>2. ~ (y < a)
          BY <4>1
        <4>3. QED
          BY <3>1, <3>3, <4>2
      <3>4. QED
        BY <3>2, <3>3
    <2>2. QED
      BY <1>3, <1>4, <1>5, <2>1

\* More has no fewer parts.
LEMMA CeilDivMonotone ==
    ASSUME NEW a \in Nat, NEW b \in Nat, a <= b, NEW c \in Nat \ {0}
    PROVE  CeilDiv(a, c) <= CeilDiv(b, c)
  <1>1. a + c - 1 \in Nat /\ b + c - 1 \in Nat /\ a + c - 1 <= b + c - 1
    OBVIOUS
  <1>2. QED
    BY <1>1, DivisionMonotone DEF CeilDiv

\* The records of the file table.
FileSet == [start : Nat, len : Lengths]

\* The raw offset that follows a file.
End(f) == f.start + f.len

\* Files that start an MDU each, every one after those before it.
WholeFiles(fs) ==
    /\ fs \in Seq(FileSet)
    /\ \A j \in 1..Len(fs) : fs[j].start % RawCapacity = 0
InOrder(fs) == \A i, j \in 1..Len(fs) : i < j => End(fs[i]) <= fs[j].start

\* The fields of a record.
LEMMA FileIs ==
    ASSUME NEW f \in FileSet
    PROVE  f.start \in Nat /\ f.len \in Nat \ {0} /\ End(f) \in Nat /\ f.start < End(f)
  <1>1. PICK a \in Nat, b \in Nat \ {0} : a = f.start /\ b = f.len
    BY NilFsAssumption DEF FileSet
  <1>2. QED
    BY <1>1 DEF End

\* The records of a table.
LEMMA FilesAre ==
    ASSUME NEW fs, WholeFiles(fs), NEW j \in 1..Len(fs)
    PROVE  fs[j] \in FileSet /\ Len(fs) \in Nat
  BY ElementOfSeq DEF WholeFiles

\* The reader infers the end of the last file.
LEMMA MaxEndIs ==
    ASSUME NEW fs, WholeFiles(fs), InOrder(fs), fs # <<>>
    PROVE  /\ Len(fs) \in Nat \ {0} /\ Len(fs) \in 1..Len(fs)
           /\ inferMaxEnd(fs) = End(fs[Len(fs)])
           /\ inferMaxEnd(fs) \in Nat \ {0}
           /\ \A j \in 1..Len(fs) : End(fs[j]) <= inferMaxEnd(fs)
  <1>1. Len(fs) \in Nat \ {0} /\ Len(fs) \in 1..Len(fs)
    BY EmptySeq, LenProperties DEF WholeFiles
  <1>2. PICK n \in Nat \ {0} : n = Len(fs)
    BY <1>1
  <1>3. \A j \in 1..n : End(fs[j]) \in Nat \ {0} /\ fs[j].start \in Nat /\ fs[j].start < End(fs[j])
    <2>1. SUFFICES ASSUME NEW j \in 1..n
                   PROVE  End(fs[j]) \in Nat \ {0} /\ fs[j].start \in Nat /\ fs[j].start < End(fs[j])
      OBVIOUS
    <2>2. fs[j] \in FileSet
      BY <1>2, FilesAre
    <2>3. QED
      BY <2>2, FileIs
  <1>4. n \in 1..n
    BY <1>2
  <1>5. PICK m \in Nat \ {0} : m = End(fs[n])
    BY <1>3, <1>4
  <1>6. ASSUME NEW j \in 1..n PROVE End(fs[j]) <= m
    <2>1. CASE j = n
      BY <1>5, <2>1
    <2>2. CASE j # n
      <3>1. j < n
        BY <2>2
      <3>2. End(fs[j]) <= fs[n].start
        BY <1>2, <1>4, <3>1 DEF InOrder
      <3>3. fs[n].start \in Nat /\ fs[n].start < m /\ End(fs[j]) \in Nat
        BY <1>3, <1>4, <1>5
      <3>4. QED
        BY <3>2, <3>3
    <2>3. QED
      BY <2>1, <2>2
  <1>7. PICK S : S = {0} \cup {fs[k].start + fs[k].len : k \in 1..Len(fs)}
    OBVIOUS
  <1>8. m \in S /\ \A x \in S : x \in Nat /\ x <= m
    BY <1>2, <1>3, <1>4, <1>5, <1>6, <1>7 DEF End
  <1>9. Max(S) = m
    <2>1. \A y \in S : m >= y
      BY <1>8
    <2>2. Max(S) \in S /\ \A y \in S : Max(S) >= y
      BY <1>8, <2>1, Zenon DEF Max
    <2>3. Max(S) \in Nat /\ Max(S) <= m /\ Max(S) >= m
      BY <1>8, <2>2
    <2>4. QED
      BY <2>3
  <1>10. inferMaxEnd(fs) = m
    BY <1>7, <1>9 DEF inferMaxEnd
  <1>11. QED
    BY <1>1, <1>2, <1>5, <1>6, <1>10

\* The user MDUs are those that some byte up to the last end is in.
LEMMA UserCountIs ==
    ASSUME NEW fs, WholeFiles(fs), InOrder(fs), fs # <<>>
    PROVE  /\ userCount(fs) \in Nat
           /\ inferMaxEnd(fs) <= RawCapacity * userCount(fs)
           /\ \A u \in Nat : RawCapacity * u < inferMaxEnd(fs) <=> u < userCount(fs)
  <1>1. PICK m \in Nat : m = inferMaxEnd(fs)
    BY MaxEndIs
  <1>2. QED
    BY <1>1, SizesAre, CeilDivIs DEF userCount

\* The number of witness MDUs is one.
LEMMA WitnessCountIs == ASSUME NEW n \in Nat PROVE WitnessCount(n) \in Nat
  <1>1. PICK x \in Nat : x = CeilDiv(WitnessBytes * n, RawCapacity)
    <2>1. WitnessBytes * n \in Nat
      BY TimesNat, NilFsAssumption
    <2>2. QED
      BY <2>1, SizesAre, CeilDivIs
  <1>2. Max({1, x}) \in Nat
    BY DEF Max
  <1>3. QED
    BY <1>1, <1>2 DEF WitnessCount

\* More user MDUs take no fewer witness MDUs.
LEMMA WitnessCountMonotone ==
    ASSUME NEW a \in Nat, NEW b \in Nat, a <= b
    PROVE  WitnessCount(a) <= WitnessCount(b)
  <1>1. PICK w \in Nat : w = WitnessBytes
    BY NilFsAssumption
  <1>2. w * a \in Nat /\ w * b \in Nat /\ w * a <= w * b
    <2>1. PICK g \in Nat : g = b - a
      OBVIOUS
    <2>2. w * b = w * a + w * g
      BY <2>1
    <2>3. w * a \in Nat /\ w * b \in Nat /\ w * g \in Nat
      BY TimesNat
    <2>4. QED
      BY <2>2, <2>3
  <1>3. PICK x \in Nat, y \in Nat :
           x = CeilDiv(w * a, RawCapacity) /\ y = CeilDiv(w * b, RawCapacity)
    BY <1>2, SizesAre, CeilDivIs
  <1>4. x <= y
    BY <1>2, <1>3, SizesAre, CeilDivMonotone
  <1>5. Max({1, x}) = IF x >= 1 THEN x ELSE 1
    BY DEF Max
  <1>6. Max({1, y}) = IF y >= 1 THEN y ELSE 1
    BY DEF Max
  <1>7. QED
    BY <1>1, <1>3, <1>4, <1>5, <1>6 DEF WitnessCount

-----------------------------------------------------------------------------
(* The slab on disk *)

\* The last index a slab of these files takes, and its first user MDU.
Top(fs)  == WitnessCount(userCount(fs)) + userCount(fs)
Base(fs) == 1 + WitnessCount(userCount(fs))

\* MDU u is of file f.
Owns(f, u) == f.start <= RawCapacity * u /\ RawCapacity * u < End(f)

\* What an index of the directory holds.
Cell == [kind : {"none", "meta", "user"}, slab : 0..MaxSlabs, user : Nat, rawLen : 0..RawCapacity]

\* The slab id of files fs fills the indices up to its top and no others, and
\* has what the encoder made of every file in the place of every MDU of it.
Laid(fs, id, dk) ==
    /\ InOrder(fs)
    /\ fs = <<>> => \A i \in MduIds : dk[i].kind = "none"
    /\ fs # <<>> => /\ Fits(fs)
                    /\ \A i \in MduIds : dk[i].kind # "none" <=> i <= Top(fs)
    /\ \A j \in 1..Len(fs) : \A u \in Nat :
          Owns(fs[j], u) => dk[Base(fs) + u] = Encoded(fs[j], id, u)

\* The type part of the invariant.
Shaped(st, fs, id, dk) ==
    /\ st \in BOOLEAN /\ WholeFiles(fs) /\ id \in 0..MaxSlabs /\ dk \in [MduIds -> Cell]

\* The inductive invariant: the slab of a striped deal is laid out as it was saved.
SlabInv ==
    /\ Shaped(striped, files, slab, disk)
    /\ striped => Laid(files, slab, disk)

\* The bounds are numbers.
LEMMA BoundsAre == MaxFiles \in Nat /\ MaxSlabs \in Nat /\ MaxMdu \in Nat
  BY NilFsAssumption

\* The indices of a slab with files.
LEMMA TopIs ==
    ASSUME NEW fs, WholeFiles(fs), InOrder(fs), fs # <<>>
    PROVE  /\ userCount(fs) \in Nat /\ WitnessCount(userCount(fs)) \in Nat
           /\ Top(fs) \in Nat /\ Base(fs) \in Nat
           /\ Base(fs) = WitnessCount(userCount(fs)) + 1
           /\ \A u \in Nat : u < userCount(fs) => Base(fs) + u \in 0..Top(fs)
  <1>1. PICK n \in Nat : n = userCount(fs)
    BY UserCountIs
  <1>2. PICK w \in Nat : w = WitnessCount(n)
    BY WitnessCountIs
  <1>3. Top(fs) = w + n /\ Base(fs) = 1 + w
    BY <1>1, <1>2 DEF Top, Base
  <1>4. QED
    BY <1>1, <1>2, <1>3

\* An MDU of a file is a user MDU.
LEMMA OwnedIsUser ==
    ASSUME NEW fs, WholeFiles(fs), InOrder(fs), NEW j \in 1..Len(fs), NEW u \in Nat,
           Owns(fs[j], u)
    PROVE  u < userCount(fs)
  <1>1. fs # <<>>
    OBVIOUS
  <1>2. PICK b \in Nat : b = RawCapacity * u
    BY SizesAre, TimesNat
  <1>3. fs[j] \in FileSet
    BY FilesAre
  <1>4. PICK e \in Nat, m \in Nat : e = End(fs[j]) /\ m = inferMaxEnd(fs)
    BY <1>1, <1>3, FileIs, MaxEndIs
  <1>5. e <= m
    BY <1>1, <1>4, MaxEndIs
  <1>6. b < e
    BY <1>2, <1>4 DEF Owns
  <1>7. b < m
    BY <1>5, <1>6
  <1>8. QED
    BY <1>1, <1>2, <1>4, <1>7, UserCountIs

\* The reader infers the number of witness MDUs that the slab was saved with.
LEMMA WitnessesInferred ==
    ASSUME WholeFiles(files), Laid(files, slab, disk), files # <<>>
    PROVE  inferWitnessCount(files) = WitnessCount(userCount(files))
  <1>1. InOrder(files) /\ Fits(files)
    BY DEF Laid
  <1>2. PICK n \in Nat, w \in Nat : n = userCount(files) /\ w = WitnessCount(n) /\ Top(files) = w + n
    BY <1>1, TopIs DEF Top
  <1>3. w + n <= MaxMdu
    BY <1>1, <1>2 DEF Fits
  <1>4. mdusOnDisk = 0..(w + n)
    <2>1. ASSUME NEW i \in MduIds PROVE disk[i].kind # "none" <=> i <= w + n
      BY <1>2 DEF Laid
    <2>2. \A i : i \in 0..(w + n) <=> (i \in MduIds /\ i <= w + n)
      BY <1>3, BoundsAre DEF MduIds
    <2>3. QED
      BY <2>1, <2>2 DEF mdusOnDisk
  <1>5. Cardinality(0..(w + n)) = w + n + 1
    <2>1. 0 \in Int /\ w + n \in Int /\ ~ (0 > w + n)
      OBVIOUS
    <2>2. Cardinality(0..(w + n)) = (w + n) - 0 + 1
      BY <2>1, FS_Interval
    <2>3. QED
      BY <2>2
  <1>6. QED
    BY <1>2, <1>4, <1>5 DEF inferWitnessCount

\* A header or witness MDU of slab id.
Meta(id) == [kind |-> "meta", slab |-> id, user |-> 0, rawLen |-> 0]

\* What a save of n user and w witness MDUs writes, index by index.
Saved(fs, id, first, dk, n, w) ==
    /\ dk = [i \in MduIds |-> dk[i]]
    /\ \A i \in MduIds : i <= w => dk[i] = Meta(id)
    /\ \A i \in MduIds : i > w + n => dk[i] = disk[i]
    /\ \A i \in MduIds : i > w /\ i <= w + n =>
          dk[i] = IF i - w - 1 < first THEN disk[1 + inferWitnessCount(files) + (i - w - 1)]
                  ELSE Encoded(fs[Len(fs)], id, i - w - 1)

\* A save does that.
LEMMA PersistedIs ==
    ASSUME NEW fs, NEW id, NEW first, NEW dk, dk = Persisted(fs, id, first),
           NEW n \in Nat, n = userCount(fs), NEW w \in Nat, w = WitnessCount(n)
    PROVE  Saved(fs, id, first, dk, n, w)
  <1>1. \A i \in MduIds : i \in Nat
    BY BoundsAre DEF MduIds
  <1>2. dk = [i \in MduIds |->
                CASE i <= w -> Meta(id)
                  [] i > w /\ i <= w + n ->
                        IF i - w - 1 < first THEN disk[1 + inferWitnessCount(files) + (i - w - 1)]
                        ELSE Encoded(fs[Len(fs)], id, i - w - 1)
                  [] OTHER -> disk[i]]
    BY DEF Persisted, Meta
  <1>3. \A i \in MduIds :
           dk[i] = CASE i <= w -> Meta(id)
                  [] i > w /\ i <= w + n ->
                        IF i - w - 1 < first THEN disk[1 + inferWitnessCount(files) + (i - w - 1)]
                        ELSE Encoded(fs[Len(fs)], id, i - w - 1)
                  [] OTHER -> disk[i]
    BY <1>2
  <1>4. dk = [i \in MduIds |-> dk[i]]
    BY <1>2
  <1>5. ASSUME NEW i \in MduIds, i <= w PROVE dk[i] = Meta(id)
    <2>1. ~ (i > w /\ i <= w + n)
      BY <1>1, <1>5
    <2>2. QED
      BY <1>3, <1>5, <2>1
  <1>6. ASSUME NEW i \in MduIds, i > w + n PROVE dk[i] = disk[i]
    <2>1. ~ (i > w /\ i <= w + n) /\ ~ (i <= w)
      BY <1>1, <1>6
    <2>2. QED
      BY <1>3, <2>1
  <1>7. ASSUME NEW i \in MduIds, i > w, i <= w + n
        PROVE  dk[i] = IF i - w - 1 < first THEN disk[1 + inferWitnessCount(files) + (i - w - 1)]
                       ELSE Encoded(fs[Len(fs)], id, i - w - 1)
    <2>1. (i > w /\ i <= w + n) /\ ~ (i <= w)
      BY <1>1, <1>7
    <2>2. QED
      BY <1>3, <2>1
  <1>8. QED
    BY <1>4, <1>5, <1>6, <1>7 DEF Saved

\* The length of an MDU of a file.
LEMMA EncodedIs ==
    ASSUME NEW f \in FileSet, NEW id \in 0..MaxSlabs, NEW u \in Nat,
           NEW b \in Nat, b = RawCapacity * u, b <= End(f)
    PROVE  /\ Encoded(f, id, u) \in Cell
           /\ Encoded(f, id, u).kind = "user" /\ Encoded(f, id, u).slab = id
           /\ Encoded(f, id, u).user = u
           /\ Encoded(f, id, u).rawLen = Least(RawCapacity, End(f) - b)
  <1>1. PICK c \in Nat : c = RawCapacity
    BY SizesAre
  <1>2. u * c = b
    BY <1>1
  <1>3. PICK e \in Nat : e = End(f)
    BY FileIs
  <1>4. PICK l \in 0..c : l = Least(c, e - b)
    <2>1. e - b \in Nat
      BY <1>3
    <2>2. QED
      BY <2>1 DEF Least
  <1>5. Encoded(f, id, u) = [kind |-> "user", slab |-> id, user |-> u, rawLen |-> l]
    <2>1. u * RawCapacity = b /\ f.start + f.len = e
      BY <1>1, <1>2, <1>3 DEF End
    <2>2. f.start + f.len - u * RawCapacity = e - b
      <3>1. PICK x \in Nat, y \in Nat : x = f.start /\ y = f.len /\ x + y = e
        BY <2>1, FileIs
      <3>2. x + (y - b) = e - b
        BY <3>1
      <3>3. QED
        BY <2>1, <3>1, <3>2, Zenon
    <2>3. Least(RawCapacity, f.start + f.len - u * RawCapacity) = l
      BY <1>1, <1>4, <2>2
    <2>4. QED
      BY <2>3 DEF Encoded
  <1>6. QED
    BY <1>1, <1>3, <1>4, <1>5 DEF Cell

\* The first file of a slab.
LEMMA OneFile ==
    ASSUME NEW n \in Lengths, NEW fs, fs = <<[start |-> 0, len |-> n]>>
    PROVE  WholeFiles(fs) /\ InOrder(fs) /\ fs # <<>> /\ Len(fs) = 1
  <1>1. [start |-> 0, len |-> n] \in FileSet
    BY DEF FileSet
  <1>2. fs \in Seq(FileSet) /\ Len(fs) = 1 /\ fs[1] = [start |-> 0, len |-> n]
    BY <1>1
  <1>3. 0 % RawCapacity = 0
    BY SizesAre, SmallRemainder
  <1>4. \A j \in 1..1 : j = 1
    OBVIOUS
  <1>5. WholeFiles(fs)
    BY <1>2, <1>3, <1>4 DEF WholeFiles
  <1>6. InOrder(fs)
    BY <1>2, <1>4 DEF InOrder
  <1>7. QED
    BY <1>2, <1>5, <1>6

\* The MDUs that a save encodes are of the last file.
LEMMA LastFileCell ==
    ASSUME NEW fs, WholeFiles(fs), InOrder(fs), fs # <<>>, NEW id \in 0..MaxSlabs,
           NEW u \in Nat, u < userCount(fs)
    PROVE  /\ Encoded(fs[Len(fs)], id, u) \in Cell
           /\ Encoded(fs[Len(fs)], id, u).kind = "user"
  <1>1. PICK b \in Nat : b = RawCapacity * u
    BY SizesAre, TimesNat
  <1>2. PICK f \in FileSet : f = fs[Len(fs)]
    BY MaxEndIs, FilesAre
  <1>3. PICK e \in Nat : e = End(f) /\ e = inferMaxEnd(fs)
    BY <1>2, MaxEndIs, FileIs
  <1>4. b < e
    BY <1>1, <1>3, UserCountIs
  <1>5. b <= End(f)
    BY <1>3, <1>4
  <1>6. Encoded(f, id, u) \in Cell /\ Encoded(f, id, u).kind = "user"
    BY <1>1, <1>5, EncodedIs
  <1>7. QED
    BY <1>2, <1>6

\* A slab saved anew keeps the types.
LEMMA FreshShaped ==
    ASSUME Shaped(striped, files, slab, disk), NEW fs, WholeFiles(fs), InOrder(fs), fs # <<>>,
           NEW id \in 0..MaxSlabs, NEW dk, dk = Persisted(fs, id, 0)
    PROVE  dk \in [MduIds -> Cell]
  <1>1. PICK n \in Nat, w \in Nat : n = userCount(fs) /\ w = WitnessCount(n)
    BY TopIs
  <1>2. /\ dk = [i \in MduIds |-> dk[i]]
        /\ \A i \in MduIds : i <= w => dk[i] = Meta(id)
        /\ \A i \in MduIds : i > w + n => dk[i] = disk[i]
        /\ \A i \in MduIds : i > w /\ i <= w + n =>
              dk[i] = IF i - w - 1 < 0 THEN disk[1 + inferWitnessCount(files) + (i - w - 1)]
                      ELSE Encoded(fs[Len(fs)], id, i - w - 1)
    <2>1. Saved(fs, id, 0, dk, n, w)
      BY <1>1, PersistedIs
    <2>2. QED
      BY <2>1 DEF Saved
  <1>3. Meta(id) \in Cell
    BY SizesAre DEF Meta, Cell
  <1>4. ASSUME NEW i \in MduIds PROVE dk[i] \in Cell
    <2>1. i \in Nat
      BY BoundsAre DEF MduIds
    <2>2. CASE i <= w
      BY <1>2, <1>3, <2>2
    <2>3. CASE i > w + n
      BY <1>2, <2>3 DEF Shaped
    <2>4. CASE i > w /\ i <= w + n
      <3>1. PICK u \in Nat : u = i - w - 1 /\ u < n /\ ~ (u < 0)
        BY <2>1, <2>4
      <3>2. dk[i] = Encoded(fs[Len(fs)], id, u)
        BY <1>2, <2>4, <3>1
      <3>3. QED
        BY <1>1, <3>1, <3>2, LastFileCell
    <2>5. QED
      BY <2>1, <2>2, <2>3, <2>4
  <1>5. QED
    BY <1>2, <1>4

\* A slab saved where nothing is.
LEMMA FreshLaid ==
    ASSUME NEW fs, WholeFiles(fs), InOrder(fs), Len(fs) = 1, fs # <<>>, Fits(fs),
           \A i \in MduIds : disk[i].kind = "none",
           NEW id \in 0..MaxSlabs, NEW dk, dk = Persisted(fs, id, 0)
    PROVE  Laid(fs, id, dk)
  <1>1. PICK n \in Nat, w \in Nat : n = userCount(fs) /\ w = WitnessCount(n)
    BY TopIs
  <1>2. /\ \A i \in MduIds : i <= w => dk[i] = Meta(id)
        /\ \A i \in MduIds : i > w + n => dk[i] = disk[i]
        /\ \A i \in MduIds : i > w /\ i <= w + n =>
              dk[i] = IF i - w - 1 < 0 THEN disk[1 + inferWitnessCount(files) + (i - w - 1)]
                      ELSE Encoded(fs[Len(fs)], id, i - w - 1)
    <2>1. Saved(fs, id, 0, dk, n, w)
      BY <1>1, PersistedIs
    <2>2. QED
      BY <2>1 DEF Saved
  <1>3. Top(fs) = w + n /\ Base(fs) = w + 1 /\ w + n <= MaxMdu
    BY <1>1, TopIs DEF Top, Fits
  <1>4. ASSUME NEW u \in Nat, u < n
        PROVE  /\ w + 1 + u \in MduIds
               /\ dk[w + 1 + u] = Encoded(fs[Len(fs)], id, u)
    <2>1. PICK i \in Nat : i = w + 1 + u /\ i > w /\ i <= w + n /\ i - w - 1 = u /\ ~ (u < 0)
      BY <1>4
    <2>2. i \in MduIds
      BY <1>3, <2>1, BoundsAre DEF MduIds
    <2>3. dk[i] = Encoded(fs[Len(fs)], id, u)
      BY <1>2, <2>1, <2>2
    <2>4. QED
      BY <2>1, <2>2, <2>3
  <1>5. ASSUME NEW i \in MduIds PROVE dk[i].kind # "none" <=> i <= w + n
    <2>1. i \in Nat
      BY BoundsAre DEF MduIds
    <2>2. CASE i <= w
      <3>1. dk[i].kind = "meta"
        BY <1>2, <2>2 DEF Meta
      <3>2. QED
        BY <2>1, <2>2, <3>1
    <2>3. CASE i > w + n
      <3>1. dk[i].kind = "none"
        BY <1>2, <2>3
      <3>2. QED
        BY <2>1, <2>3, <3>1
    <2>4. CASE i > w /\ i <= w + n
      <3>1. PICK u \in Nat : u = i - w - 1 /\ u < n /\ w + 1 + u = i
        BY <2>1, <2>4
      <3>2. dk[i] = Encoded(fs[Len(fs)], id, u)
        BY <1>4, <3>1
      <3>3. Encoded(fs[Len(fs)], id, u).kind = "user"
        BY <1>1, <3>1, LastFileCell
      <3>4. QED
        BY <2>4, <3>2, <3>3
    <2>5. QED
      BY <2>1, <2>2, <2>3, <2>4
  <1>6. ASSUME NEW j \in 1..Len(fs), NEW u \in Nat, Owns(fs[j], u)
        PROVE  dk[Base(fs) + u] = Encoded(fs[j], id, u)
    <2>1. u < n
      BY <1>1, <1>6, OwnedIsUser
    <2>2. j = Len(fs)
      OBVIOUS
    <2>3. dk[w + 1 + u] = Encoded(fs[j], id, u)
      BY <1>4, <2>1, <2>2
    <2>4. QED
      BY <1>3, <2>3
  <1>7. QED
    BY <1>3, <1>5, <1>6 DEF Laid

-----------------------------------------------------------------------------
(* Appending *)

\* The file that is appended to old.
NewFile(old, n) == [start |-> userCount(old) * RawCapacity, len |-> n]

\* Table fs is old with f at its end, in an MDU of its own.
Appended(old, f, fs) ==
    /\ WholeFiles(fs) /\ InOrder(fs) /\ fs # <<>>
    /\ Len(old) \in Nat /\ Len(fs) = Len(old) + 1
    /\ fs[Len(old) + 1] = f /\ \A j \in 1..Len(old) : fs[j] = old[j]
    /\ f.start = RawCapacity * userCount(old) /\ inferMaxEnd(old) <= f.start
    /\ userCount(old) <= userCount(fs)

\* The file that is appended comes after the others.
LEMMA AppendedFile ==
    ASSUME NEW old, WholeFiles(old), InOrder(old), old # <<>>, NEW n \in Lengths,
           NEW f, f = NewFile(old, n), NEW fs, fs = Append(old, f)
    PROVE  Appended(old, f, fs)
  <1>1. PICK c \in Nat \ {0}, u \in Nat, m \in Nat :
            c = RawCapacity /\ u = userCount(old) /\ m = inferMaxEnd(old)
    BY SizesAre, MaxEndIs, UserCountIs
  <1>2. PICK b \in Nat : b = c * u /\ b = u * c /\ m <= b
    <2>1. c * u \in Nat /\ c * u = u * c
      BY TimesNat
    <2>2. m <= c * u
      BY <1>1, UserCountIs
    <2>3. QED
      BY <2>1, <2>2
  <1>3. f = [start |-> b, len |-> n] /\ f.start = b /\ f \in FileSet
    BY <1>1, <1>2 DEF FileSet, NewFile
  <1>4. PICK l \in Nat : l = Len(old) /\ old \in Seq(FileSet)
    BY LenProperties DEF WholeFiles
  <1>5. /\ fs \in Seq(FileSet) /\ Len(fs) = l + 1 /\ fs[l + 1] = f
        /\ \A j \in 1..l : fs[j] = old[j]
    BY <1>3, <1>4, AppendProperties
  <1>6. \A j \in 1..(l + 1) : j = l + 1 \/ j \in 1..l
    OBVIOUS
  <1>7. b % c = 0
    <2>1. Divides(b, c, u, 0)
      BY <1>2 DEF Divides
    <2>2. QED
      BY <2>1, DivisionIs
  <1>8. WholeFiles(fs)
    BY <1>1, <1>3, <1>4, <1>5, <1>6, <1>7 DEF WholeFiles
  <1>9. \A j \in 1..l : End(old[j]) \in Nat /\ End(old[j]) <= m
    <2>1. SUFFICES ASSUME NEW j \in 1..l PROVE End(old[j]) \in Nat /\ End(old[j]) <= m
      OBVIOUS
    <2>2. old[j] \in FileSet
      BY <1>4, FilesAre
    <2>3. QED
      BY <1>1, <1>4, <2>2, FileIs, MaxEndIs
  <1>10. InOrder(fs)
    <2>1. SUFFICES ASSUME NEW i \in 1..(l + 1), NEW j \in 1..(l + 1), i < j
                   PROVE  End(fs[i]) <= fs[j].start
      BY <1>5 DEF InOrder
    <2>2. i \in 1..l
      BY <2>1
    <2>3. CASE j = l + 1
      <3>1. End(old[i]) <= b
        BY <1>2, <1>9, <2>2
      <3>2. QED
        BY <1>3, <1>5, <2>2, <2>3, <3>1
    <2>4. CASE j \in 1..l
      BY <1>4, <1>5, <2>1, <2>2, <2>4 DEF InOrder
    <2>5. QED
      BY <1>6, <2>3, <2>4
  <1>11. fs # <<>>
    BY <1>5
  <1>12. u <= userCount(fs)
    <2>1. PICK k \in Nat : k = inferMaxEnd(fs)
      BY <1>8, <1>10, <1>11, MaxEndIs
    <2>2. k = End(f)
      BY <1>5, <1>8, <1>10, <1>11, <2>1, MaxEndIs
    <2>3. m <= k
      BY <1>2, <1>3, <2>2, FileIs
    <2>4. CeilDiv(m, c) <= CeilDiv(k, c)
      BY <2>3, CeilDivMonotone
    <2>5. QED
      BY <1>1, <2>1, <2>4 DEF userCount
  <1>13. QED
    BY <1>1, <1>2, <1>3, <1>4, <1>5, <1>8, <1>10, <1>11, <1>12 DEF Appended

\* What the save after an append writes in every place.
LEMMA AppendSaves ==
    ASSUME Shaped(striped, files, slab, disk), Laid(files, slab, disk), files # <<>>,
           NEW len \in Lengths,
           NEW f, f = NewFile(files, len), NEW fs, fs = Append(files, f), Fits(fs),
           NEW dk, dk = Persisted(fs, slab, userCount(files))
    PROVE  dk \in [MduIds -> Cell] /\ Laid(fs, slab, dk)
  <1>1. WholeFiles(files) /\ InOrder(files) /\ Fits(files) /\ slab \in 0..MaxSlabs
    BY DEF Shaped, Laid
  <1>2. /\ WholeFiles(fs) /\ InOrder(fs) /\ fs # <<>>
        /\ Len(files) \in Nat /\ Len(fs) = Len(files) + 1
        /\ fs[Len(files) + 1] = f /\ \A j \in 1..Len(files) : fs[j] = files[j]
        /\ f.start = RawCapacity * userCount(files) /\ inferMaxEnd(files) <= f.start
        /\ userCount(files) <= userCount(fs)
    <2>1. Appended(files, f, fs)
      BY <1>1, AppendedFile
    <2>2. QED
      BY <2>1 DEF Appended
  <1>3. PICK m \in Nat, v \in Nat : m = userCount(files) /\ v = WitnessCount(m)
    BY <1>1, TopIs
  <1>4. PICK n \in Nat, w \in Nat : n = userCount(fs) /\ w = WitnessCount(n)
    BY <1>2, TopIs
  <1>5. m <= n /\ v <= w
    BY <1>2, <1>3, <1>4, WitnessCountMonotone
  <1>6. /\ Top(files) = v + m /\ Base(files) = v + 1 /\ v + m <= MaxMdu
        /\ Top(fs) = w + n /\ Base(fs) = w + 1 /\ w + n <= MaxMdu
    BY <1>1, <1>2, <1>3, <1>4, TopIs DEF Top, Fits
  <1>7. inferWitnessCount(files) = v
    BY <1>1, <1>3, WitnessesInferred
  <1>8. /\ dk = [i \in MduIds |-> dk[i]]
        /\ \A i \in MduIds : i <= w => dk[i] = Meta(slab)
        /\ \A i \in MduIds : i > w + n => dk[i] = disk[i]
        /\ \A i \in MduIds : i > w /\ i <= w + n =>
              dk[i] = IF i - w - 1 < m THEN disk[1 + inferWitnessCount(files) + (i - w - 1)]
                      ELSE Encoded(fs[Len(fs)], slab, i - w - 1)
    <2>1. dk = Persisted(fs, slab, m)
      BY <1>3
    <2>2. Saved(fs, slab, m, dk, n, w)
      BY <1>4, <2>1, PersistedIs
    <2>3. QED
      BY <2>2 DEF Saved
  <1>9. ASSUME NEW u \in Nat, u < n
        PROVE  /\ w + 1 + u \in MduIds
               /\ dk[w + 1 + u] = IF u < m THEN disk[v + 1 + u] ELSE Encoded(f, slab, u)
    <2>1. PICK i \in Nat : i = w + 1 + u /\ i > w /\ i <= w + n /\ i - w - 1 = u
      BY <1>9
    <2>2. i \in MduIds
      BY <1>6, <2>1, BoundsAre DEF MduIds
    <2>3. fs[Len(fs)] = f
      BY <1>2
    <2>4. 1 + inferWitnessCount(files) + (i - w - 1) = v + 1 + u
      BY <1>7, <2>1
    <2>5. dk[i] = IF u < m THEN disk[v + 1 + u] ELSE Encoded(f, slab, u)
      BY <1>8, <2>1, <2>2, <2>3, <2>4
    <2>6. QED
      BY <2>1, <2>2, <2>5
  <1>10. ASSUME NEW u \in Nat, u < m
         PROVE  v + 1 + u \in MduIds /\ disk[v + 1 + u] \in Cell /\ disk[v + 1 + u].kind # "none"
    <2>1. v + 1 + u \in MduIds /\ v + 1 + u <= v + m
      BY <1>6, <1>10, BoundsAre DEF MduIds
    <2>2. disk[v + 1 + u] \in Cell
      BY <2>1 DEF Shaped
    <2>3. disk[v + 1 + u].kind # "none"
      BY <1>6, <2>1 DEF Laid
    <2>4. QED
      BY <2>1, <2>2, <2>3
  <1>11. ASSUME NEW u \in Nat, u < n
         PROVE  Encoded(f, slab, u) \in Cell /\ Encoded(f, slab, u).kind = "user"
    <2>1. fs[Len(fs)] = f
      BY <1>2
    <2>2. u < userCount(fs)
      BY <1>4, <1>11
    <2>3. /\ Encoded(fs[Len(fs)], slab, u) \in Cell
          /\ Encoded(fs[Len(fs)], slab, u).kind = "user"
      BY <1>1, <1>2, <2>2, LastFileCell
    <2>4. QED
      BY <2>1, <2>3
  <1>12. Meta(slab) \in Cell /\ Meta(slab).kind = "meta"
    BY <1>1, SizesAre DEF Meta, Cell
  <1>13. ASSUME NEW i \in MduIds
         PROVE  dk[i] \in Cell /\ (dk[i].kind # "none" <=> i <= w + n)
    <2>1. i \in Nat
      BY BoundsAre DEF MduIds
    <2>2. CASE i <= w
      <3>1. dk[i] = Meta(slab) /\ i <= w + n
        BY <1>8, <2>1, <2>2
      <3>2. QED
        BY <1>12, <3>1
    <2>3. CASE i > w + n
      <3>1. ~ (i <= v + m) /\ ~ (i <= w + n)
        BY <1>5, <2>1, <2>3
      <3>2. dk[i] = disk[i]
        BY <1>8, <2>3
      <3>3. ~ (disk[i].kind # "none")
        BY <1>6, <3>1 DEF Laid
      <3>4. disk[i] \in Cell
        BY DEF Shaped
      <3>5. QED
        BY <3>1, <3>2, <3>3, <3>4
    <2>4. CASE i > w /\ i <= w + n
      <3>1. PICK u \in Nat : u = i - w - 1 /\ u < n /\ w + 1 + u = i
        BY <2>1, <2>4
      <3>2. dk[i] = IF u < m THEN disk[v + 1 + u] ELSE Encoded(f, slab, u)
        BY <1>9, <3>1
      <3>3. CASE u < m
        BY <1>10, <2>4, <3>2, <3>3
      <3>4. CASE ~ (u < m)
        BY <1>11, <2>4, <3>1, <3>2, <3>4
      <3>5. QED
        BY <3>3, <3>4
    <2>5. QED
      BY <2>1, <2>2, <2>3, <2>4
  <1>14. ASSUME NEW j \in 1..Len(fs), NEW u \in Nat, Owns(fs[j], u)
         PROVE  dk[Base(fs) + u] = Encoded(fs[j], slab, u)
    <2>1. u < n
      BY <1>2, <1>4, <1>14, OwnedIsUser
    <2>2. dk[w + 1 + u] = IF u < m THEN disk[v + 1 + u] ELSE Encoded(f, slab, u)
      BY <1>9, <2>1
    <2>3. CASE j \in 1..Len(files)
      <3>1. Owns(files[j], u) /\ fs[j] = files[j]
        BY <1>2, <1>14, <2>3
      <3>2. u < m
        BY <1>1, <1>3, <2>3, <3>1, OwnedIsUser
      <3>3. disk[v + 1 + u] = Encoded(files[j], slab, u)
        BY <1>6, <2>3, <3>1 DEF Laid
      <3>4. QED
        BY <1>6, <2>2, <3>1, <3>2, <3>3
    <2>4. CASE j = Len(files) + 1
      <3>1. fs[j] = f
        BY <1>2, <2>4
      <3>2. ~ (u < m)
        <4>1. PICK b \in Nat, d \in Nat : b = RawCapacity * u /\ d = RawCapacity * m
          BY SizesAre, TimesNat
        <4>2. d <= b
          BY <1>2, <1>3, <1>14, <3>1, <4>1 DEF Owns
        <4>3. PICK e \in Nat : e = inferMaxEnd(files) /\ e <= d
          BY <1>1, <1>2, <1>3, <4>1, MaxEndIs
        <4>4. ~ (b < e)
          BY <4>2, <4>3
        <4>5. QED
          BY <1>1, <1>3, <4>1, <4>3, <4>4, UserCountIs
      <3>3. QED
        BY <1>6, <2>2, <3>1, <3>2
    <2>5. QED
      BY <1>2, <2>3, <2>4
  <1>15. dk \in [MduIds -> Cell]
    BY <1>8, <1>13
  <1>16. Laid(fs, slab, dk)
    BY <1>2, <1>6, <1>13, <1>14 DEF Laid
  <1>17. QED
    BY <1>15, <1>16

-----------------------------------------------------------------------------
(* Reading back *)

\* The MDU of a byte is one of its file's, at a whole number of MDUs after the
\* file's start.
LEMMA MduOfByte ==
    ASSUME NEW f \in FileSet, f.start % RawCapacity = 0, NEW k \in Nat, k < f.len
    PROVE  \E u \in Nat, r \in Nat, b \in Nat, h \in Nat :
              /\ u = (f.start + k) \div RawCapacity /\ r = (f.start + k) % RawCapacity
              /\ r < RawCapacity /\ b = RawCapacity * u /\ f.start + k = b + r
              /\ Divides(b - f.start, RawCapacity, h, 0) /\ b - f.start \in Nat
              /\ Owns(f, u)
  <1>1. PICK c \in Nat \ {0} : c = RawCapacity
    BY SizesAre
  <1>2. PICK s \in Nat, l \in Nat : s = f.start /\ l = f.len /\ End(f) = s + l
    BY FileIs DEF End
  <1>3. PICK abs \in Nat : abs = s + k
    OBVIOUS
  <1>4. PICK u \in Nat, r \in Nat : u = abs \div c /\ r = abs % c /\ r < c /\ abs = c * u + r
    BY Division
  <1>5. PICK m \in Nat : m = s \div c /\ s = c * m
    <2>1. PICK x \in Nat, e \in Nat : x = s \div c /\ e = s % c /\ s = c * x + e
      BY Division
    <2>2. e = 0
      BY <1>1, <1>2, <2>1
    <2>3. s = c * x
      BY <2>1, <2>2
    <2>4. QED
      BY <2>1, <2>3
  <1>6. m <= u
    BY <1>3, <1>4, <1>5, DivisionMonotone
  <1>7. PICK h \in Nat : h = u - m
    BY <1>6
  <1>8. PICK b \in Nat : b = c * u
    BY TimesNat
  <1>9. b = s + c * h
    BY <1>5, <1>7, <1>8
  <1>10. PICK g \in Nat : g = c * h
    BY TimesNat
  <1>11. s <= b /\ b < s + l
    <2>1. b = s + g /\ s + k = b + r /\ k < l
      BY <1>2, <1>3, <1>4, <1>8, <1>9, <1>10
    <2>2. QED
      BY <2>1
  <1>12. Owns(f, u)
    BY <1>1, <1>2, <1>8, <1>11 DEF Owns
  <1>13. /\ u = (f.start + k) \div RawCapacity /\ r = (f.start + k) % RawCapacity
         /\ r < RawCapacity /\ b = RawCapacity * u /\ f.start + k = b + r
    BY <1>1, <1>2, <1>3, <1>4, <1>8
  <1>14. Divides(g, c, h, 0) /\ g = b - s
    BY <1>9, <1>10 DEF Divides
  <1>15. Divides(b - f.start, RawCapacity, h, 0) /\ b - f.start \in Nat
    BY <1>1, <1>2, <1>14
  <1>16. QED
    BY <1>12, <1>13, <1>15

\* A scalar of a file that is not its last, or is full, is a full scalar of its
\* MDU.
LEMMA FullScalar ==
    ASSUME NEW len \in Nat, NEW k \in Nat, k < len, NEW r \in Nat, r < RawCapacity,
           NEW h \in Nat, NEW a \in Nat, Divides(a, RawCapacity, h, 0), k = a + r,
           k \div PayloadBytes # len \div PayloadBytes
    PROVE  /\ PayloadBytes * (r \div PayloadBytes) + PayloadBytes <= RawCapacity
           /\ a + (PayloadBytes * (r \div PayloadBytes) + PayloadBytes) <= len
  <1>1. PICK c \in Nat \ {0}, p \in Nat \ {0}, q \in Nat :
           c = RawCapacity /\ p = PayloadBytes /\ c = p * q
    BY SizesAre
  <1>2. PICK x \in Nat, e \in Nat : x = r \div p /\ e < p /\ r = p * x + e
    BY Division
  <1>3. a = c * h
    BY <1>1 DEF Divides
  <1>4. PICK t \in Nat : t = q * h
    BY TimesNat
  <1>5. a = p * t
    BY <1>1, <1>3, <1>4
  <1>6. (a + r) \div p = t + (r \div p)
    <2>1. Divides(a + r, p, t + x, e)
      <3>1. PICK b \in Nat, z \in Nat : b = p * t /\ z = p * x
        BY TimesNat
      <3>2. p * (t + x) = b + z
        BY <3>1
      <3>3. a + r = p * (t + x) + e
        BY <1>2, <1>5, <3>1, <3>2
      <3>4. QED
        BY <1>2, <3>3 DEF Divides
    <2>2. QED
      BY <1>2, <2>1, DivisionIs
  <1>7. k \div p = t + x
    BY <1>2, <1>6
  <1>8. PICK y \in Nat, d \in Nat : y = len \div p /\ d < p /\ len = p * y + d
    BY Division
  <1>9. t + x < y
    <2>1. k \div p <= len \div p
      BY DivisionMonotone
    <2>2. QED
      BY <1>1, <1>7, <1>8, <2>1
  <1>10. PICK g \in Nat : y = t + x + 1 + g
    <2>1. y - (t + x + 1) \in Nat /\ y = t + x + 1 + (y - (t + x + 1))
      BY <1>9
    <2>2. QED
      BY <2>1
  <1>11. p * y = p * t + (p * x + p) + p * g
    BY <1>10
  <1>12. PICK v \in Nat, z \in Nat, b \in Nat : v = p * x /\ z = p * g /\ b = p * y
    BY TimesNat
  <1>13. a + (v + p) <= len
    BY <1>5, <1>8, <1>11, <1>12
  <1>14. v + p <= c
    <2>1. x < q
      <3>1. SUFFICES ASSUME x >= q PROVE FALSE
        OBVIOUS
      <3>2. PICK i \in Nat : x = q + i
        <4>1. x - q \in Nat /\ x = q + (x - q)
          BY <3>1
        <4>2. QED
          BY <4>1
      <3>3. p * x = c + p * i
        BY <1>1, <3>2
      <3>4. p * i \in Nat
        BY TimesNat
      <3>5. QED
        BY <1>1, <1>2, <1>12, <3>3, <3>4
    <2>2. PICK i \in Nat : q = x + 1 + i
      <3>1. q - (x + 1) \in Nat /\ q = x + 1 + (q - (x + 1))
        BY <2>1
      <3>2. QED
        BY <3>1
    <2>3. c = p * x + p + p * i
      BY <1>1, <2>2
    <2>4. p * i \in Nat
      BY TimesNat
    <2>5. QED
      BY <1>12, <2>3, <2>4
  <1>15. p * (r \div p) + p = v + p
    BY <1>2, <1>12
  <1>16. p * (r \div p) + p <= c /\ a + (p * (r \div p) + p) <= len
    BY <1>13, <1>14, <1>15
  <1>17. QED
    BY <1>1, <1>16

\* The next multiple is a whole step away.
LEMMA NextMultiple ==
    ASSUME NEW c \in Nat \ {0}, NEW u \in Nat, NEW b \in Nat, b = c * u,
           NEW t \in Nat, t % c = 0, b < t
    PROVE  b + c <= t
  <1>1. PICK m \in Nat : t = c * m
    <2>1. t \div c \in Nat /\ t = c * (t \div c) + (t % c)
      BY Division
    <2>2. PICK x \in Nat : x = t \div c
      BY <2>1
    <2>3. c * x \in Nat
      BY TimesNat
    <2>4. t = c * x
      BY <2>1, <2>2, <2>3
    <2>5. QED
      BY <2>4
  <1>2. u < m
    <2>1. SUFFICES ASSUME u >= m PROVE FALSE
      OBVIOUS
    <2>2. PICK i \in Nat : u = m + i
      <3>1. u - m \in Nat /\ u = m + (u - m)
        BY <2>1
      <3>2. QED
        BY <3>1
    <2>3. b = t + c * i
      BY <1>1, <2>2
    <2>4. c * i \in Nat
      BY TimesNat
    <2>5. QED
      BY <2>3, <2>4
  <1>3. PICK i \in Nat : m = u + 1 + i
    <2>1. m - (u + 1) \in Nat /\ m = u + 1 + (m - (u + 1))
      BY <1>2
    <2>2. QED
      BY <2>1
  <1>4. t = b + c + c * i
    BY <1>1, <1>3
  <1>5. c * i \in Nat
    BY TimesNat
  <1>6. QED
    BY <1>4, <1>5

\* Byte k of a file that starts at s is byte r of the MDU that starts at b.
Counted(s, k, b, r) == k = (b - s) + r

\* The same offset, counted from the start of the file and from that of the MDU.
LEMMA CountedFrom ==
    ASSUME NEW s \in Nat, NEW k \in Nat, NEW b \in Nat, NEW r \in Nat, s + k = b + r
    PROVE  Counted(s, k, b, r)
  BY DEF Counted

\* The place the reader takes byte k of file j from.
LEMMA ReadPlaceIs ==
    ASSUME NEW f, NEW k \in Nat, NEW u \in Nat, NEW r, NEW b \in Nat, NEW v,
           u = (f.start + k) \div RawCapacity, r = (f.start + k) % RawCapacity,
           b = u * RawCapacity, v = Least(RawCapacity, inferMaxEnd(files) - b), v \in Nat,
           NEW w, w = inferWitnessCount(files)
    PROVE  ReadPlace(f, k).mdu = 1 + w + u /\ ReadPlace(f, k).pos = DecodedPos(v, r)
  <1>1. Max({0, v}) = v
    BY DEF Max
  <1>2. QED
    BY <1>1 DEF ReadPlace

\* Every byte that SavedReadsBack is about is where the reader looks.
LEMMA ByteReadsBack ==
    ASSUME SlabInv, striped, NEW j \in 1..Len(files), NEW k, k \in 0..(files[j].len - 1),
           ~ (j < Len(files) /\ k \div PayloadBytes = files[j].len \div PayloadBytes)
    PROVE  ReadsBack(files[j], k)
  <1>1. /\ WholeFiles(files) /\ slab \in 0..MaxSlabs /\ Laid(files, slab, disk) /\ InOrder(files)
        /\ Fits(files) /\ files # <<>>
    BY DEF SlabInv, Shaped, Laid
  <1>2. PICK f \in FileSet : f = files[j] /\ f.start % RawCapacity = 0
    BY <1>1, FilesAre DEF WholeFiles
  <1>3. PICK s \in Nat, l \in Nat \ {0}, e \in Nat : s = f.start /\ l = f.len /\ e = End(f) /\ e = s + l
    BY FileIs DEF End
  <1>4. k \in Nat /\ k < l
    <2>1. k \in 0..(l - 1)
      BY <1>2, <1>3
    <2>2. QED
      BY <2>1
  <1>5. PICK u \in Nat, r \in Nat, b \in Nat, h \in Nat :
              /\ u = (f.start + k) \div RawCapacity /\ r = (f.start + k) % RawCapacity
              /\ r < RawCapacity /\ b = RawCapacity * u /\ f.start + k = b + r
              /\ Divides(b - f.start, RawCapacity, h, 0) /\ b - f.start \in Nat
              /\ Owns(f, u)
    BY <1>2, <1>3, <1>4, MduOfByte
  <1>6. PICK c \in Nat \ {0} : c = RawCapacity
    BY SizesAre
  <1>7. r < c /\ b = c * u
    BY <1>5, <1>6
  <1>8. s + k = b + r /\ b - s \in Nat /\ Divides(b - s, RawCapacity, h, 0)
    BY <1>3, <1>5
  <1>9. e = s + l
    BY <1>3
  <1>10. b + r < e /\ b < e
    BY <1>4, <1>8, <1>9
  <1>11. PICK w \in Nat, n \in Nat : /\ n = userCount(files) /\ w = WitnessCount(n)
                                    /\ w = inferWitnessCount(files)
                                    /\ Base(files) = w + 1 /\ w + n <= MaxMdu
    BY <1>1, TopIs, WitnessesInferred DEF Fits
  <1>12. u < n
    BY <1>1, <1>2, <1>5, <1>11, OwnedIsUser
  <1>13. PICK cell : cell = disk[w + 1 + u]
    OBVIOUS
  <1>14. cell = Encoded(f, slab, u)
    BY <1>1, <1>2, <1>5, <1>11, <1>13 DEF Laid
  <1>15. /\ cell.kind = "user" /\ cell.slab = slab /\ cell.user = u
         /\ cell.rawLen = Least(c, e - b)
    <2>1. b <= End(f)
      BY <1>3, <1>10
    <2>2. b = RawCapacity * u
      BY <1>5
    <2>3. /\ Encoded(f, slab, u).kind = "user" /\ Encoded(f, slab, u).slab = slab
          /\ Encoded(f, slab, u).user = u
          /\ Encoded(f, slab, u).rawLen = Least(RawCapacity, End(f) - b)
      BY <1>1, <2>1, <2>2, EncodedIs
    <2>4. QED
      BY <1>3, <1>6, <1>14, <2>3
  <1>16. PICK len \in Nat : len = Least(c, e - b) /\ len = cell.rawLen /\ r < len
    <2>1. e - b \in Nat /\ r < e - b
      BY <1>10
    <2>2. QED
      BY <1>15, <1>7, <2>1 DEF Least
  <1>17. PICK top \in Nat : top = inferMaxEnd(files) /\ e <= top
    BY <1>1, <1>2, <1>3, MaxEndIs
  <1>18. PICK v \in Nat : v = Least(c, top - b)
    <2>1. top - b \in Nat
      BY <1>10, <1>17
    <2>2. QED
      BY <2>1 DEF Least
  <1>19. DecodedPos(v, r) = EncodedPos(len, r)
    <2>1. CASE j = Len(files)
      <3>1. top = e
        BY <1>1, <1>2, <1>3, <1>17, <2>1, MaxEndIs
      <3>2. v = len
        BY <1>16, <1>18, <3>1
      <3>3. QED
        BY <1>16, <3>2, SameLengthReads
    <2>2. CASE j # Len(files)
      <3>1. PICK last \in Nat : last = Len(files) /\ last \in 1..Len(files) /\ j < last
        BY <1>1, <2>2, MaxEndIs
      <3>2. PICK g \in FileSet : g = files[last] /\ g.start % c = 0 /\ End(g) = top
        BY <1>1, <1>6, <1>17, <3>1, FilesAre, MaxEndIs DEF WholeFiles
      <3>3. PICK t \in Nat : t = g.start /\ t < top /\ e <= t
        BY <1>1, <1>2, <1>3, <3>1, <3>2, FileIs DEF InOrder
      <3>4. b + c <= t
        <4>1. t % c = 0
          BY <3>2, <3>3
        <4>2. b < t
          BY <1>10, <3>3
        <4>3. QED
          BY <1>7, <4>1, <4>2, NextMultiple
      <3>5. v = c
        BY <1>18, <3>3, <3>4 DEF Least
      <3>6. k \div PayloadBytes # l \div PayloadBytes
        BY <1>2, <1>3, <3>1
      <3>7. k = (b - s) + r
        <4>1. Counted(s, k, b, r)
          BY <1>4, <1>8, CountedFrom
        <4>2. QED
          BY <4>1 DEF Counted
      <3>8. PICK a \in Nat : a = b - s /\ Divides(a, RawCapacity, h, 0) /\ k = a + r
        BY <1>8, <3>7
      <3>9. PICK d : d = PayloadBytes * (r \div PayloadBytes) + PayloadBytes
        OBVIOUS
      <3>10. d <= RawCapacity /\ a + d <= l
        <4>1. r < RawCapacity /\ k \in Nat /\ k < l
          BY <1>4, <1>6, <1>7
        <4>2. QED
          BY <3>6, <3>8, <3>9, <4>1, FullScalar
      <3>11. d \in Nat
        <4>1. r \div PayloadBytes \in Nat
          BY SizesAre, Division
        <4>2. PayloadBytes * (r \div PayloadBytes) \in Nat
          BY <4>1, SizesAre, TimesNat
        <4>3. QED
          BY <3>9, <4>2, SizesAre
      <3>12. d <= len
        <4>1. d <= e - b
          BY <1>9, <3>8, <3>10, <3>11
        <4>2. QED
          BY <1>6, <1>16, <3>10, <4>1 DEF Least
      <3>13. DecodedPos(RawCapacity, r) = EncodedPos(len, r)
        BY <1>16, <3>9, <3>12, FullScalarReads
      <3>14. QED
        BY <1>6, <3>5, <3>13
    <2>3. QED
      BY <2>1, <2>2
  <1>20. ReadPlace(f, k).mdu = 1 + w + u /\ ReadPlace(f, k).pos = DecodedPos(v, r)
    <2>1. b = u * RawCapacity /\ v = Least(RawCapacity, inferMaxEnd(files) - b)
      BY <1>5, <1>6, <1>17, <1>18
    <2>2. /\ u = (f.start + k) \div RawCapacity /\ r = (f.start + k) % RawCapacity
          /\ k \in Nat /\ w = inferWitnessCount(files)
      BY <1>4, <1>5, <1>11
    <2>3. QED
      BY <2>1, <2>2, ReadPlaceIs
  <1>21. 1 + w + u \in MduIds /\ 1 + w + u = w + 1 + u
    BY <1>11, <1>12, BoundsAre DEF MduIds
  <1>22. ReadsBack(f, k)
    BY <1>5, <1>13, <1>15, <1>16, <1>19, <1>20, <1>21 DEF ReadsBack
  <1>23. QED
    BY <1>2, <1>22

\* The invariant says that the offsets agree.
LEMMA SlabInvGood == SlabInv => LocalReadsBack
  <1>1. SUFFICES ASSUME SlabInv PROVE LocalReadsBack
    OBVIOUS
  <1>2. Shaped(striped, files, slab, disk) /\ WholeFiles(files)
    BY <1>1 DEF SlabInv, Shaped
  <1>3. \A f \in FilesOf : f \in FileSet /\ f.start % RawCapacity = 0
    BY <1>2, FilesAre DEF FilesOf, WholeFiles
  <1>4. SlabTypeOK
    BY <1>2, <1>3 DEF SlabTypeOK, Shaped, WholeFiles, FileSet, Cell
  <1>5. SavedReadsBack
    BY <1>1, ByteReadsBack DEF SavedReadsBack
  <1>6. ChunksAreBlobRuns
    <2>1. \A f \in FilesOf : f.start \in Nat /\ f.len \in Nat
      BY <1>3, FileIs
    <2>2. QED
      BY <2>1, ChunksOfFiles
  <1>7. QED
    BY <1>4, <1>5, <1>6 DEF LocalReadsBack

\* No files: nothing to find.
LEMMA EmptySlab ==
    ASSUME NEW dk, dk = [i \in MduIds |-> Nothing], NEW id \in 0..MaxSlabs
    PROVE  WholeFiles(<<>>) /\ dk \in [MduIds -> Cell] /\ Laid(<<>>, id, dk)
  <1>1. <<>> \in Seq(FileSet) /\ Len(<<>>) = 0
    OBVIOUS
  <1>2. 0 \in 0..MaxSlabs /\ 0 \in 0..RawCapacity
    BY BoundsAre, SizesAre
  <1>3. Nothing \in Cell /\ Nothing.kind = "none"
    BY <1>2 DEF Nothing, Cell
  <1>4. QED
    BY <1>1, <1>3 DEF WholeFiles, Laid, InOrder

\* The invariant holds of the empty directory.
LEMMA SlabInitInv == SlabInit => SlabInv
  <1>1. SUFFICES ASSUME SlabInit PROVE SlabInv
    OBVIOUS
  <1>2. 0 \in 0..MaxSlabs
    BY BoundsAre
  <1>3. WholeFiles(<<>>) /\ disk \in [MduIds -> Cell] /\ Laid(<<>>, 0, disk)
    BY <1>1, <1>2, EmptySlab DEF SlabInit
  <1>4. QED
    BY <1>1, <1>2, <1>3 DEF SlabInit, SlabInv, Shaped

\* What a step comes to, in constants.
LEMMA SlabInvNext ==
    ASSUME NEW fs, fs = files', NEW id, id = slab', NEW dk, dk = disk', striped' = striped,
           Shaped(striped, fs, id, dk), striped => Laid(fs, id, dk)
    PROVE  SlabInv'
  BY DEF SlabInv, Shaped, Laid, WholeFiles, InOrder, Fits, MduIds, Cell

\* Appending a file keeps it.
LEMMA AppendFileInv ==
    ASSUME SlabInv, NEW n \in Lengths, AppendFile(n) PROVE SlabInv'
  <1>1. /\ Shaped(striped, files, slab, disk) /\ striped /\ Laid(files, slab, disk)
        /\ files # <<>>
    BY DEF SlabInv, AppendFile, BaseReadable
  <1>2. PICK fs, dk : fs = files' /\ dk = disk'
    OBVIOUS
  <1>3. PICK f : f = NewFile(files, n)
    OBVIOUS
  <1>4. fs = Append(files, f) /\ Fits(fs) /\ dk = Persisted(fs, slab, userCount(files))
    BY <1>2, <1>3 DEF AppendFile, NewFile
  <1>5. dk \in [MduIds -> Cell] /\ Laid(fs, slab, dk)
    BY <1>1, <1>3, <1>4, AppendSaves
  <1>6. WholeFiles(fs)
    <2>1. Appended(files, f, fs)
      BY <1>1, <1>3, <1>4, AppendedFile DEF Shaped, Laid
    <2>2. QED
      BY <2>1 DEF Appended
  <1>7. slab' = slab /\ striped' = striped
    BY DEF AppendFile
  <1>8. Shaped(striped, fs, slab, dk)
    BY <1>1, <1>5, <1>6 DEF Shaped
  <1>9. QED
    BY <1>2, <1>5, <1>7, <1>8, SlabInvNext

\* A fresh slab, written over what the directory holds, keeps it.
LEMMA FreshSlabInv ==
    ASSUME SlabInv, NEW n \in Lengths, FreshSlab(n) PROVE SlabInv'
  <1>1. Shaped(striped, files, slab, disk) /\ (striped => Laid(files, slab, disk))
    BY DEF SlabInv
  <1>2. PICK fs, id, dk : fs = files' /\ id = slab' /\ dk = disk'
    OBVIOUS
  <1>3. /\ fs = <<[start |-> 0, len |-> n]>> /\ Fits(fs) /\ id = slab + 1 /\ slab < MaxSlabs
        /\ dk = Persisted(fs, id, 0) /\ striped' = striped
    BY <1>2 DEF FreshSlab
  <1>4. id \in 0..MaxSlabs
    <2>1. slab \in 0..MaxSlabs
      BY <1>1 DEF Shaped
    <2>2. QED
      BY <1>3, <2>1, BoundsAre
  <1>5. WholeFiles(fs) /\ InOrder(fs) /\ fs # <<>> /\ Len(fs) = 1
    BY <1>3, OneFile
  <1>6. dk \in [MduIds -> Cell]
    BY <1>1, <1>3, <1>4, <1>5, FreshShaped
  <1>7. ASSUME striped PROVE Laid(fs, id, dk)
    <2>1. Laid(files, slab, disk) /\ WholeFiles(files)
      BY <1>1, <1>7 DEF Shaped
    <2>2. files = <<>>
      <3>1. SUFFICES ASSUME files # <<>> PROVE FALSE
        OBVIOUS
      <3>2. PICK w \in Nat : w = inferWitnessCount(files)
        BY <2>1, <3>1, WitnessesInferred, TopIs DEF Laid
      <3>3. inferWitnessCount(files) >= 0
        BY <3>2
      <3>4. QED
        BY <1>7, <3>1, <3>3 DEF FreshSlab, BaseReadable
    <2>3. \A i \in MduIds : disk[i].kind = "none"
      BY <2>1, <2>2 DEF Laid
    <2>4. QED
      BY <1>3, <1>4, <1>5, <2>3, FreshLaid
  <1>8. Shaped(striped, fs, id, dk)
    BY <1>1, <1>4, <1>5, <1>6 DEF Shaped
  <1>9. QED
    BY <1>2, <1>3, <1>7, <1>8, SlabInvNext

\* Deleting the directory keeps it.
LEMMA DeleteDirectoryInv == ASSUME SlabInv, DeleteDirectory PROVE SlabInv'
  <1>1. Shaped(striped, files, slab, disk)
    BY DEF SlabInv
  <1>2. PICK fs, dk : fs = files' /\ dk = disk'
    OBVIOUS
  <1>3. fs = <<>> /\ dk = [i \in MduIds |-> Nothing] /\ slab' = slab /\ striped' = striped
    BY <1>2 DEF DeleteDirectory
  <1>4. WholeFiles(fs) /\ dk \in [MduIds -> Cell] /\ Laid(fs, slab, dk)
    BY <1>1, <1>3, EmptySlab DEF Shaped
  <1>5. Shaped(striped, fs, slab, dk)
    BY <1>1, <1>4 DEF Shaped
  <1>6. QED
    BY <1>2, <1>3, <1>4, <1>5, SlabInvNext

\* Every step keeps it.
LEMMA SlabNextInv == SlabInv /\ [SlabNext]_slabVars => SlabInv'
  <1>1. SUFFICES ASSUME SlabInv, [SlabNext]_slabVars PROVE SlabInv'
    OBVIOUS
  <1>2. CASE DeleteDirectory
    BY <1>1, <1>2, DeleteDirectoryInv
  <1>3. ASSUME NEW n \in Lengths, AppendFile(n) PROVE SlabInv'
    BY <1>1, <1>3, AppendFileInv
  <1>4. ASSUME NEW n \in Lengths, FreshSlab(n) PROVE SlabInv'
    BY <1>1, <1>4, FreshSlabInv
  <1>5. CASE UNCHANGED slabVars
    <2>1. files = files' /\ slab = slab' /\ disk = disk' /\ striped' = striped
      BY <1>5 DEF slabVars
    <2>2. PICK fs, id, dk : fs = files /\ id = slab /\ dk = disk
      OBVIOUS
    <2>3. Shaped(striped, fs, id, dk) /\ (striped => Laid(fs, id, dk))
      BY <1>1, <2>2 DEF SlabInv
    <2>4. QED
      BY <2>1, <2>2, <2>3, SlabInvNext
  <1>6. QED
    BY <1>1, <1>2, <1>3, <1>4, <1>5 DEF SlabNext

\* Offsets agree in every slab, whatever the sizes of scalars, blobs, MDUs and
\* files: processFile, readNilfsFileFromOpfs and planNilfsFileRangeChunks.
THEOREM SlabReadsBack == SlabSpec => []LocalReadsBack
  <1>1. SlabSpec => []SlabInv
    BY SlabInitInv, SlabNextInv, PTL DEF SlabSpec
  <1>2. QED
    BY <1>1, SlabInvGood, PTL
=============================================================================
