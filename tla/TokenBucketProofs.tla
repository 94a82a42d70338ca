------------------------- MODULE TokenBucketProofs -------------------------
(***************************************************************************)
(* The bound a token bucket keeps, for every capacity, rate and run of the *)
(* clock.                                                                  *)
(***************************************************************************)
EXTENDS TokenBucket, TLAPS

BucketInv == TypeOK /\ WindowAccount

(* Multiplication by the rate, as far as the steps below need it.              *)
LEMMA Accrual ==
    ASSUME NEW a \in Int, NEW b \in Int
    PROVE  /\ Rate * (a - b) \in Int
           /\ Rate * ((a + 1) - b) = Rate * (a - b) + Rate
           /\ a >= b => Rate * (a - b) >= 0
BY BucketAssumption

(* What accrues over two spans on end is what accrues over both.              *)
LEMMA AccrualSum ==
    \A a \in Int : \A b \in Int : \A c \in Int :
        Rate * (a - b) + Rate * (b - c) = Rate * (a - c)
BY BucketAssumption

(* A refilled bucket is never over-full, and never emptier than before.        *)
LEMMA RefilledRange ==
    ASSUME TypeOK
    PROVE  Refilled \in 0..Capacity /\ Refilled >= tokens /\ Rate * (now - last) >= 0
<1>0. now \in Int /\ last \in Int /\ now >= last BY DEF TypeOK
<1>1. Rate * (now - last) \in Int /\ Rate * (now - last) >= 0
  BY <1>0, Accrual
<1> QED BY <1>1, BucketAssumption DEF TypeOK, Refilled, Least

(* A bucket that has just been refilled holds what it holds.                   *)
LEMMA FreshRefill ==
    ASSUME now \in Nat, NEW left \in 0..Capacity, Refill(left), now' = now
    PROVE  Refilled' = left
<1>1. tokens' = left /\ last' = now' BY DEF Refill
<1>2. Rate * (now' - last') = 0 BY <1>1, BucketAssumption
<1> QED BY <1>1, <1>2, BucketAssumption DEF Refilled, Least

(* The bucket starts full and the window with nothing passed.                  *)
LEMMA BucketInitInv == Init => BucketInv
<1> SUFFICES ASSUME Init PROVE BucketInv
  OBVIOUS
<1>1. TypeOK BY BucketAssumption DEF Init, TypeOK
<1>2. Rate * (now - last) = 0 /\ Rate * (now - open) = 0 /\ passed * Unit = 0
  BY BucketAssumption DEF Init
<1>3. WindowAccount
  BY <1>2, BucketAssumption DEF Init, WindowAccount, Refilled, Least
<1> QED BY <1>1, <1>3 DEF BucketInv

(* Every step keeps the account of the window.                                 *)
LEMMA BucketNextInv == BucketInv /\ [Next]_vars => BucketInv'
<1> SUFFICES ASSUME BucketInv, [Next]_vars PROVE BucketInv'
  OBVIOUS
<1>0. /\ TypeOK /\ Refilled \in 0..Capacity
      /\ passed * Unit + Refilled <= Capacity + Rate * (now - open)
      /\ passed * Unit \in Int /\ Rate * (now - open) \in Int
  BY RefilledRange, BucketAssumption DEF BucketInv, WindowAccount, TypeOK
<1>1. CASE Consume
  <2>1. Refilled - Unit \in 0..Capacity BY <1>0, <1>1, BucketAssumption DEF Consume
  <2>2. Refilled' = Refilled - Unit BY <1>0, <1>1, <2>1, FreshRefill DEF Consume, TypeOK
  <2>3. passed' * Unit = passed * Unit + Unit BY <1>0, <1>1, BucketAssumption DEF Consume, TypeOK
  <2>4. WindowAccount'
    BY <1>0, <1>1, <2>2, <2>3, BucketAssumption DEF Consume, WindowAccount
  <2>5. TypeOK' BY <1>0, <1>1, <2>1 DEF Consume, Refill, TypeOK
  <2> QED BY <2>4, <2>5 DEF BucketInv
<1>2. CASE Refuse
  <2>1. Refilled' = Refilled BY <1>0, <1>2, FreshRefill DEF Refuse, TypeOK
  <2>2. WindowAccount' BY <1>0, <1>2, <2>1 DEF Refuse, WindowAccount, window
  <2>3. TypeOK' BY <1>0, <1>2 DEF Refuse, Refill, TypeOK, window
  <2> QED BY <2>2, <2>3 DEF BucketInv
<1>3. CASE WaitTime
  <2>1. Refilled' = Refilled BY <1>0, <1>3, FreshRefill DEF WaitTime, TypeOK
  <2>2. WindowAccount' BY <1>0, <1>3, <2>1 DEF WaitTime, WindowAccount, window
  <2>3. wake' \in Int BY <1>0, <1>3, BucketAssumption DEF WaitTime, TypeOK
  <2>4. TypeOK' BY <1>0, <1>3, <2>3 DEF WaitTime, Refill, TypeOK, window
  <2> QED BY <2>2, <2>4 DEF BucketInv
<1>4. CASE Tick
  <2>1. /\ now' = now + 1 /\ tokens' = tokens /\ last' = last /\ open' = open /\ passed' = passed
    BY <1>4 DEF Tick, bucket, window
  <2>2. /\ Rate * (now' - last) = Rate * (now - last) + Rate
        /\ Rate * (now' - open) = Rate * (now - open) + Rate
        /\ Rate * (now - last) \in Int
    <3>1. now \in Int /\ last \in Int /\ open \in Int BY <1>0 DEF TypeOK
    <3>2. Rate * ((now + 1) - last) = Rate * (now - last) + Rate BY <3>1, Accrual, Zenon
    <3>3. Rate * ((now + 1) - open) = Rate * (now - open) + Rate BY <3>1, Accrual, Zenon
    <3>4. Rate * (now - last) \in Int BY <3>1, Accrual
    <3> QED BY <2>1, <3>2, <3>3, <3>4
  <2>3. Refilled' <= Refilled + Rate
    BY <1>0, <2>1, <2>2, BucketAssumption DEF Refilled, Least, TypeOK
  <2>4. WindowAccount'
    <3>1. Refilled' \in Int
      BY <1>0, <2>1, <2>2, BucketAssumption DEF Refilled, Least, TypeOK
    <3> QED BY <1>0, <2>1, <2>2, <2>3, <3>1, BucketAssumption DEF WindowAccount
  <2>5. TypeOK' BY <1>0, <1>4, <2>1 DEF Tick, TypeOK
  <2> QED BY <2>4, <2>5 DEF BucketInv
<1>5. CASE OpenWindow
  <2>1. /\ tokens' = tokens /\ last' = last /\ now' = now /\ open' = now /\ passed' = 0
    BY <1>5 DEF OpenWindow, bucket
  <2>2. Refilled' = Refilled BY <2>1 DEF Refilled
  <2>3. Rate * (now' - open') = 0 /\ passed' * Unit = 0
    BY <1>0, <2>1, BucketAssumption DEF TypeOK
  <2>4. WindowAccount' BY <1>0, <2>2, <2>3, BucketAssumption DEF WindowAccount
  <2>5. TypeOK' BY <1>0, <1>5, <2>1 DEF OpenWindow, TypeOK
  <2> QED BY <2>4, <2>5 DEF BucketInv
<1>6. CASE UNCHANGED vars
  BY <1>6 DEF vars, bucket, window, BucketInv, TypeOK, WindowAccount, Refilled
<1> QED BY <1>1, <1>2, <1>3, <1>4, <1>5, <1>6 DEF Next

(* The account of the window always balances.                                  *)
THEOREM BucketCorrect == Spec => []BucketInv
BY BucketInitInv, BucketNextInv, PTL DEF Spec

(* No window lets through more than one burst and what accrued in it.          *)
THEOREM FloodsAreBounded == Spec => []WindowBounded
<1>1. BucketInv => WindowBounded
  <2> SUFFICES ASSUME BucketInv PROVE WindowBounded
    OBVIOUS
  <2>1. Refilled \in 0..Capacity BY RefilledRange DEF BucketInv
  <2>2. passed * Unit \in Int /\ Rate * (now - open) \in Int
    BY BucketAssumption DEF BucketInv, TypeOK
  <2> QED BY <2>1, <2>2, BucketAssumption DEF BucketInv, WindowAccount, WindowBounded
<1> QED BY <1>1, BucketCorrect, PTL

(* A quotient rounded up is enough.                                            *)
LEMMA RoundedUp ==
    ASSUME NEW x \in Nat
    PROVE  /\ (x + Rate - 1) \div Rate \in Nat
           /\ Rate * ((x + Rate - 1) \div Rate) >= x
BY BucketAssumption

(* If the sleeper's time has come, there is a token for it.                    *)
LEMMA AwakeFindsToken ==
    ASSUME TypeOK, WaitAccount, wake >= 0, now >= wake
    PROVE  Refilled >= Unit
<1>1. now \in Int /\ last \in Int /\ wake \in Int BY DEF TypeOK
<1>2. Rate * (now - wake) + Rate * (wake - last) = Rate * (now - last)
  BY ONLY <1>1, AccrualSum, Zenon
<1>3. Rate * (now - wake) >= 0 /\ Rate * (now - wake) \in Int /\ Rate * (wake - last) \in Int
  BY <1>1, Accrual
<1>4. tokens + Rate * (wake - last) >= Unit BY DEF WaitAccount
<1>5. tokens + Rate * (now - last) >= Unit BY <1>2, <1>3, <1>4, BucketAssumption DEF TypeOK
<1> QED BY <1>5, BucketAssumption DEF Refilled, Least

(* Every step keeps the account of the wait.                                   *)
LEMMA WaitNextInv == BucketInv /\ WaitAccount /\ [Next]_vars => WaitAccount'
<1> SUFFICES ASSUME BucketInv, WaitAccount, [Next]_vars PROVE WaitAccount'
  OBVIOUS
<1>0. /\ TypeOK /\ Refilled \in 0..Capacity
      /\ now \in Int /\ last \in Int /\ wake \in Int /\ tokens \in Int
  BY RefilledRange DEF BucketInv, TypeOK
<1>1. CASE Consume
  BY <1>1 DEF Consume, WaitAccount
<1>2. CASE Refuse
  <2>1. tokens' = Refilled /\ last' = now /\ wake' = wake /\ Refilled < Unit
    BY <1>2 DEF Refuse, Refill
  <2>2. CASE wake >= 0
    <3>1. wake > now BY <1>0, <2>1, <2>2, AwakeFindsToken, BucketAssumption
    <3>2. Refilled = tokens + Rate * (now - last)
      BY <1>0, <2>1, BucketAssumption DEF Refilled, Least
    <3>3. Rate * (wake - now) + Rate * (now - last) = Rate * (wake - last)
      BY ONLY <1>0, AccrualSum, Zenon
    <3>4. tokens + Rate * (wake - last) >= Unit BY <2>2 DEF WaitAccount
    <3>5. Rate * (wake - now) \in Int /\ Rate * (now - last) \in Int BY <1>0, Accrual
    <3> QED BY <1>0, <2>1, <3>2, <3>3, <3>4, <3>5 DEF WaitAccount
  <2> QED BY <2>1, <2>2 DEF WaitAccount
<1>3. CASE WaitTime
  <2>1. tokens' = Refilled /\ last' = now BY <1>3 DEF WaitTime, Refill
  <2>2. CASE Refilled >= Unit
    <3>1. wake' = now BY <1>3, <2>2 DEF WaitTime
    <3>2. Rate * (wake' - last') = 0 BY <1>0, <2>1, <3>1, BucketAssumption
    <3> QED BY <1>0, <2>1, <2>2, <3>2 DEF WaitAccount
  <2>3. CASE Refilled < Unit
    <3> DEFINE short == Unit - Refilled
               ticks == (short + Rate - 1) \div Rate
    <3>1. short \in Nat BY <1>0, <2>3, BucketAssumption
    <3>2. ticks \in Nat /\ Rate * ticks >= short BY <3>1, RoundedUp
    <3>3. wake' = now + ticks BY <1>0, <1>3, <2>3, BucketAssumption DEF WaitTime
    <3> HIDE DEF ticks
    <3>4. wake' - last' = ticks BY <1>0, <2>1, <3>2, <3>3
    <3>5. Rate * ticks \in Int BY <3>2, BucketAssumption
    <3> QED BY <1>0, <2>1, <3>2, <3>4, <3>5, BucketAssumption DEF WaitAccount
  <2> QED BY <1>0, <2>2, <2>3, BucketAssumption
<1>4. CASE Tick \/ OpenWindow \/ UNCHANGED vars
  BY <1>4 DEF Tick, OpenWindow, vars, bucket, WaitAccount
<1> QED BY <1>1, <1>2, <1>3, <1>4 DEF Next

(* A sender that sleeps as long as it is told finds a token when it wakes.     *)
THEOREM WaitsAreEnough == Spec => []WaitIsEnough
<1>1. Init => WaitAccount BY DEF Init, WaitAccount
<1>2. BucketInv /\ WaitAccount => WaitIsEnough
  BY AwakeFindsToken DEF BucketInv, WaitIsEnough
<1> QED BY <1>1, <1>2, BucketCorrect, WaitNextInv, PTL DEF Spec
=============================================================================
