------------------------- MODULE GrantReservesProofs -------------------------
(***************************************************************************)
(* The rolling limits hold for every policy: no window, wherever it        *)
(* starts, sees more than the cap committed or moved out, whatever the     *)
(* token does in between, and the checkpoints account for what happened.   *)
(* And a funded founder's reserve pays what has accrued, and the           *)
(* controller's vaults hold what they owe, out of one supply.              *)
(*                                                                         *)
(* The caps are not inductive by themselves.  What is: the checkpoints are *)
(* in block order, none is of the future, and every cutoff has a boundary  *)
(* between expired and live ones up to which they sum to what really       *)
(* moved.                                                                  *)
(***************************************************************************)
EXTENDS GrantReserves, CurveProofs, SequenceTheorems

----------------------------------------------------------------------------
(* Checkpoint arrays and running totals.                                   *)

\* The first n checkpoints have expired at the cutoff, the others have not.
Boundary(cps, cutoff, n) ==
  /\ \A i \in 1 .. n : cps[i].timestamp <= cutoff
  /\ \A i \in n + 1 .. Len(cps) : cps[i].timestamp > cutoff

Ordered(cps) == \A i, j \in 1 .. Len(cps) : i < j => cps[i].timestamp < cps[j].timestamp

\* What the checkpoints say up to any time is what moved up to that time.
SumsUp(cps, total) ==
  \A c \in DOMAIN total : \E n \in 0 .. Len(cps) :
    Boundary(cps, c, n) /\ total[c] = Cumulative(cps, n)

Monotone(total) == \A c, d \in DOMAIN total : c <= d => total[c] <= total[d]

\* The array of a contract at block time now, against the history up to last.
TrueAccount(cps, total, now_, last) ==
  /\ cps \in Seq(Checkpoint) /\ total \in [0 .. last -> Nat]
  /\ \A i \in 1 .. Len(cps) : cps[i].timestamp <= now_
  /\ Ordered(cps) /\ SumsUp(cps, total) /\ Monotone(total)

Capped(total, window, cap) == \A t \in DOMAIN total : Moved(total, t, window) <= cap

\* The elements of a checkpoint array are numbers.
LEMMA CheckpointsTyped ==
  ASSUME NEW cps \in Seq(Checkpoint)
  PROVE  /\ Len(cps) \in Nat
         /\ \A i \in 1 .. Len(cps) : cps[i] \in Checkpoint
         /\ \A i \in 1 .. Len(cps) : cps[i].timestamp \in Nat /\ cps[i].cumulative \in Nat
         /\ \A n \in 0 .. Len(cps) : Cumulative(cps, n) \in Nat
         /\ Gross(cps) \in Nat
  <1>1. Len(cps) \in Nat /\ \A i \in 1 .. Len(cps) : cps[i] \in Checkpoint
    OBVIOUS
  <1>2. \A i \in 1 .. Len(cps) : cps[i].timestamp \in Nat /\ cps[i].cumulative \in Nat
    BY <1>1 DEF Checkpoint
  <1>3. \A n \in 0 .. Len(cps) : Cumulative(cps, n) \in Nat
    BY <1>1, <1>2 DEF Cumulative
  <1> QED BY <1>1, <1>2, <1>3 DEF Gross

\* Two boundaries are one: the checkpoint after the smaller would be both
\* expired and live.
LEMMA BoundaryIsUnique ==
  ASSUME NEW cps \in Seq(Checkpoint), NEW c \in Nat,
         NEW n \in 0 .. Len(cps), NEW m \in 0 .. Len(cps),
         Boundary(cps, c, n), Boundary(cps, c, m)
  PROVE  m = n
  <1>1. Len(cps) \in Nat /\ \A i \in 1 .. Len(cps) : cps[i].timestamp \in Nat
    BY CheckpointsTyped
  <1>2. CASE m < n
    <2>1. m + 1 \in 1 .. n /\ m + 1 \in m + 1 .. Len(cps) /\ m + 1 \in 1 .. Len(cps)
      BY <1>1, <1>2
    <2> QED BY <1>1, <2>1 DEF Boundary
  <1>3. CASE n < m
    <2>1. n + 1 \in 1 .. m /\ n + 1 \in n + 1 .. Len(cps) /\ n + 1 \in 1 .. Len(cps)
      BY <1>1, <1>3
    <2> QED BY <1>1, <2>1 DEF Boundary
  <1> QED BY <1>1, <1>2, <1>3

\* What the binary search is specified to return is the boundary.
LEMMA UpperBoundIsBoundary ==
  ASSUME NEW cps \in Seq(Checkpoint), NEW c \in Nat, NEW n \in 0 .. Len(cps), Boundary(cps, c, n)
  PROVE  UpperBound(cps, c) = n
  <1>1. UpperBound(cps, c) = CHOOSE m \in 0 .. Len(cps) : Boundary(cps, c, m)
    BY DEF UpperBound, Boundary
  <1> QED BY <1>1, BoundaryIsUnique

\* From now on the total is what the last checkpoint says.
LEMMA TotalIsGross ==
  ASSUME NEW cps, NEW total, NEW now_ \in Nat, NEW last \in Nat,
         TrueAccount(cps, total, now_, last),
         NEW t \in 0 .. last, t >= now_
  PROVE  total[t] = Gross(cps)
  <1>1. /\ cps \in Seq(Checkpoint) /\ DOMAIN total = 0 .. last
        /\ \A i \in 1 .. Len(cps) : cps[i].timestamp <= now_
        /\ SumsUp(cps, total)
    BY DEF TrueAccount
  <1>2. Len(cps) \in Nat /\ \A i \in 1 .. Len(cps) : cps[i].timestamp \in Nat
    BY <1>1, CheckpointsTyped
  <1>3. PICK n \in 0 .. Len(cps) : Boundary(cps, t, n) /\ total[t] = Cumulative(cps, n)
    BY <1>1 DEF SumsUp
  <1>4. n = Len(cps)
    <2> SUFFICES ASSUME n < Len(cps) PROVE FALSE
      BY <1>2
    <2>1. Len(cps) \in n + 1 .. Len(cps) /\ Len(cps) \in 1 .. Len(cps)
      BY <1>2
    <2> QED BY <1>1, <1>2, <1>3, <2>1 DEF Boundary
  <1> QED BY <1>3, <1>4 DEF Gross

\* rollingCommitted() and rollingOutflow() are what moved in the window that
\* ends now, and would be at any later time.
LEMMA RollingIsMoved ==
  ASSUME NEW cps, NEW total, NEW now_ \in Nat, NEW last \in Nat,
         TrueAccount(cps, total, now_, last),
         NEW window \in Nat, NEW t \in 0 .. last, t >= now_
  PROVE  RollingTotal(cps, t, window) = Moved(total, t, window)
  <1>1. cps \in Seq(Checkpoint) /\ DOMAIN total = 0 .. last /\ SumsUp(cps, total)
    BY DEF TrueAccount
  <1>2. total[t] = Gross(cps)
    BY TotalIsGross
  <1>3. CASE t < window
    <2>1. Gross(cps) \in Nat
      BY <1>1, CheckpointsTyped
    <2> QED BY <1>2, <1>3, <2>1 DEF RollingTotal, Moved
  <1>4. CASE ~ (t < window)
    <2>1. t - window \in 0 .. last
      BY <1>4
    <2>2. PICK n \in 0 .. Len(cps) :
            Boundary(cps, t - window, n) /\ total[t - window] = Cumulative(cps, n)
      BY <1>1, <2>1 DEF SumsUp
    <2>3. UpperBound(cps, t - window) = n
      BY <1>1, <2>1, <2>2, UpperBoundIsBoundary
    <2> QED BY <1>2, <1>4, <2>2, <2>3 DEF RollingTotal, Moved
  <1> QED BY <1>3, <1>4

\* Nothing has moved out of an empty array.
LEMMA EmptyAccount ==
  ASSUME NEW now_ \in Nat, NEW last \in Nat
  PROVE  TrueAccount(<<>>, [t \in 0 .. last |-> 0], now_, last)
  <1> DEFINE total == [t \in 0 .. last |-> 0]
  <1>1. total \in [0 .. last -> Nat] /\ \A t \in 0 .. last : total[t] = 0
    OBVIOUS
  <1>2. <<>> \in Seq(Checkpoint) /\ Len(<<>>) = 0
    OBVIOUS
  <1>3. SumsUp(<<>>, total)
    <2> SUFFICES ASSUME NEW c \in 0 .. last
                 PROVE  Boundary(<<>>, c, 0) /\ total[c] = Cumulative(<<>>, 0)
      BY <1>2 DEF SumsUp
    <2> QED BY <1>1, <1>2 DEF Boundary, Cumulative
  <1>4. Monotone(total)
    BY DEF Monotone
  <1> HIDE DEF total
  <1> QED BY <1>1, <1>2, <1>3, <1>4 DEF TrueAccount, Ordered

\* Time passes over an account without changing it.
LEMMA AccountAges ==
  ASSUME NEW cps, NEW total, NEW now_ \in Nat, NEW later \in Nat, now_ <= later, NEW last \in Nat,
         TrueAccount(cps, total, now_, last)
  PROVE  TrueAccount(cps, total, later, last)
  <1>1. cps \in Seq(Checkpoint)
    BY DEF TrueAccount
  <1> QED BY <1>1, CheckpointsTyped DEF TrueAccount

\* An array after a movement of the current block: k older checkpoints as they
\* were, and the block's.
Recorded(cps, after, now_, amount, k) ==
  /\ Len(after) = k + 1
  /\ \A i \in 1 .. k : after[i] = cps[i] /\ cps[i].timestamp < now_
  /\ after[k + 1].timestamp = now_ /\ after[k + 1].cumulative = Gross(cps) + amount
  /\ k = Len(cps) \/ (k = Len(cps) - 1 /\ cps[Len(cps)].timestamp = now_)

\* What recording a movement of the current block makes of the array.
LEMMA RecordShape ==
  ASSUME NEW cps \in Seq(Checkpoint), NEW now_ \in Nat, NEW amount \in Nat,
         \A i \in 1 .. Len(cps) : cps[i].timestamp <= now_, Ordered(cps)
  PROVE  /\ Record(cps, now_, amount) \in Seq(Checkpoint)
         /\ \E k \in 0 .. Len(cps) : Recorded(cps, Record(cps, now_, amount), now_, amount, k)
  <1> DEFINE after == Record(cps, now_, amount)
  <1>0. /\ Len(cps) \in Nat /\ Gross(cps) \in Nat
        /\ \A i \in 1 .. Len(cps) : cps[i] \in Checkpoint
        /\ \A i \in 1 .. Len(cps) : cps[i].timestamp \in Nat
    BY CheckpointsTyped
  <1>1. Gross(cps) + amount \in Nat
    BY <1>0
  <1>2. CASE Len(cps) > 0 /\ cps[Len(cps)].timestamp = now_
    <2>1. after = [cps EXCEPT ![Len(cps)].cumulative = Gross(cps) + amount]
      BY <1>2 DEF Record
    <2>2. PICK k \in 0 .. Len(cps) : k + 1 = Len(cps)
      <3>1. Len(cps) - 1 \in 0 .. Len(cps) /\ (Len(cps) - 1) + 1 = Len(cps)
        BY <1>0, <1>2
      <3> QED BY <3>1
    <2>3. k + 1 \in 1 .. Len(cps) /\ cps[k + 1] \in Checkpoint
      BY <1>0, <2>2
    <2>4. /\ after \in Seq(Checkpoint) /\ Len(after) = k + 1
          /\ \A i \in 1 .. k : after[i] = cps[i]
          /\ after[k + 1] = [cps[k + 1] EXCEPT !.cumulative = Gross(cps) + amount]
      <3>1. [cps[k + 1] EXCEPT !.cumulative = Gross(cps) + amount] \in Checkpoint
        BY <1>1, <2>3 DEF Checkpoint
      <3>2. after = [cps EXCEPT ![k + 1] = [cps[k + 1] EXCEPT !.cumulative = Gross(cps) + amount]]
        BY <2>1, <2>2
      <3> HIDE DEF after
      <3>3. /\ after \in Seq(Checkpoint) /\ Len(after) = Len(cps)
            /\ \A i \in 1 .. Len(cps) :
                 after[i] = IF i = k + 1 THEN [cps[k + 1] EXCEPT !.cumulative = Gross(cps) + amount]
                            ELSE cps[i]
        BY <2>3, <3>1, <3>2, ExceptSeq
      <3>4. \A i \in 1 .. k : i \in 1 .. Len(cps) /\ i # k + 1
        BY <1>0, <2>2
      <3>5. after[k + 1] = [cps[k + 1] EXCEPT !.cumulative = Gross(cps) + amount]
        BY <2>3, <3>3, Zenon
      <3>6. \A i \in 1 .. k : after[i] = cps[i]
        BY <3>3, <3>4, Zenon
      <3> QED BY <2>2, <3>3, <3>5, <3>6
    <2>5. after[k + 1].timestamp = now_ /\ after[k + 1].cumulative = Gross(cps) + amount
      <3> HIDE DEF after
      <3> QED BY <1>2, <2>2, <2>3, <2>4 DEF Checkpoint
    <2>6. \A i \in 1 .. k : cps[i].timestamp < now_
      <3> TAKE i \in 1 .. k
      <3>1. i \in 1 .. Len(cps) /\ i < k + 1
        BY <2>2
      <3> QED BY <1>2, <2>2, <2>3, <3>1 DEF Ordered
    <2> HIDE DEF after
    <2>7. k = Len(cps) - 1 /\ cps[Len(cps)].timestamp = now_
      BY <1>0, <1>2, <2>2
    <2>8. Recorded(cps, after, now_, amount, k)
      BY <2>4, <2>5, <2>6, <2>7 DEF Recorded
    <2> QED BY <2>4, <2>8 DEF after
  <1>3. CASE ~ (Len(cps) > 0 /\ cps[Len(cps)].timestamp = now_)
    <2> DEFINE entry == [timestamp |-> now_, cumulative |-> Gross(cps) + amount]
    <2>1. after = Append(cps, entry)
      BY <1>3 DEF Record
    <2>2. entry \in Checkpoint /\ entry.timestamp = now_ /\ entry.cumulative = Gross(cps) + amount
      BY <1>1 DEF Checkpoint
    <2> HIDE DEF entry, after
    <2>3. /\ after \in Seq(Checkpoint) /\ Len(after) = Len(cps) + 1
          /\ \A i \in 1 .. Len(cps) : after[i] = cps[i]
          /\ after[Len(cps) + 1] = entry
      BY <1>0, <2>1, <2>2
    <2>4. \A i \in 1 .. Len(cps) : cps[i].timestamp < now_
      <3> TAKE i \in 1 .. Len(cps)
      <3>1. /\ Len(cps) > 0 /\ Len(cps) \in 1 .. Len(cps) /\ (i = Len(cps) \/ i < Len(cps))
            /\ cps[Len(cps)].timestamp # now_
        BY <1>0, <1>3
      <3>2. cps[Len(cps)].timestamp < now_
        BY <1>0, <3>1
      <3> QED BY <1>0, <3>1, <3>2 DEF Ordered
    <2>5. Len(cps) \in 0 .. Len(cps)
      BY <1>0
    <2>6. Recorded(cps, after, now_, amount, Len(cps))
      BY <2>2, <2>3, <2>4 DEF Recorded
    <2> QED BY <2>3, <2>5, <2>6 DEF after
  <1> QED BY <1>2, <1>3

\* The elements of a history after a movement of the current block.
LEMMA SinceAdds ==
  ASSUME NEW last \in Nat, NEW total \in [0 .. last -> Int], NEW now_ \in Nat, NEW amount \in Int
  PROVE  /\ Since(total, now_, amount) \in [0 .. last -> Int]
         /\ \A c \in 0 .. last :
              Since(total, now_, amount)[c] = IF c >= now_ THEN total[c] + amount ELSE total[c]
  BY DEF Since

\* A recorded movement keeps the account true.
LEMMA RecordAccounts ==
  ASSUME NEW cps, NEW total, NEW now_ \in Nat, NEW last \in Nat,
         TrueAccount(cps, total, now_, last), NEW amount \in Nat
  PROVE  TrueAccount(Record(cps, now_, amount), Since(total, now_, amount), now_, last)
  <1> DEFINE after == Record(cps, now_, amount)
             sum == Since(total, now_, amount)
  <1>1. /\ cps \in Seq(Checkpoint) /\ total \in [0 .. last -> Nat]
        /\ \A i \in 1 .. Len(cps) : cps[i].timestamp <= now_
        /\ Ordered(cps) /\ SumsUp(cps, total) /\ Monotone(total)
    BY DEF TrueAccount
  <1>2. /\ Len(cps) \in Nat /\ Gross(cps) \in Nat
        /\ \A i \in 1 .. Len(cps) : cps[i].timestamp \in Nat
    BY <1>1, CheckpointsTyped
  <1> HIDE DEF after, sum
  <1>3. after \in Seq(Checkpoint)
    BY <1>1, RecordShape DEF after
  <1>4. PICK k \in 0 .. Len(cps) :
          /\ Len(after) = k + 1
          /\ \A i \in 1 .. k : after[i] = cps[i] /\ cps[i].timestamp < now_
          /\ after[k + 1].timestamp = now_ /\ after[k + 1].cumulative = Gross(cps) + amount
          /\ k = Len(cps) \/ (k = Len(cps) - 1 /\ cps[Len(cps)].timestamp = now_)
    <2>1. \E k \in 0 .. Len(cps) : Recorded(cps, after, now_, amount, k)
      BY <1>1, RecordShape DEF after
    <2> QED BY <2>1 DEF Recorded
  <1>5. /\ total \in [0 .. last -> Int]
        /\ sum \in [0 .. last -> Int] /\ DOMAIN sum = 0 .. last
        /\ \A c \in 0 .. last : sum[c] = IF c >= now_ THEN total[c] + amount ELSE total[c]
    <2>1. total \in [0 .. last -> Int]
      BY <1>1
    <2>2. /\ sum \in [0 .. last -> Int]
          /\ \A c \in 0 .. last : sum[c] = IF c >= now_ THEN total[c] + amount ELSE total[c]
      BY <2>1 DEF sum, Since
    <2> QED BY <2>1, <2>2
  <1>6. \A c \in 0 .. last : c >= now_ => total[c] = Gross(cps)
    BY TotalIsGross
  <1>7. sum \in [0 .. last -> Nat] /\ Monotone(sum)
    <2>1. \A c \in 0 .. last : sum[c] \in Nat
      BY <1>1, <1>5
    <2>2. sum \in [0 .. last -> Nat]
      <3>1. sum \in [0 .. last -> Int]
        BY <1>1, <1>5, SinceAdds DEF sum
      <3> QED BY <2>1, <3>1
    <2>3. \A c, d \in 0 .. last : c <= d => sum[c] <= sum[d]
      <3> TAKE c, d \in 0 .. last
      <3>1. total[c] \in Nat /\ total[d] \in Nat /\ (c <= d => total[c] <= total[d])
        BY <1>1 DEF Monotone
      <3>2. /\ sum[c] = IF c >= now_ THEN total[c] + amount ELSE total[c]
            /\ sum[d] = IF d >= now_ THEN total[d] + amount ELSE total[d]
        BY <1>5
      <3> QED BY <3>1, <3>2
    <2> QED BY <1>5, <2>2, <2>3 DEF Monotone
  <1>8. \A i \in 1 .. Len(after) : after[i].timestamp <= now_
    <2> TAKE i \in 1 .. Len(after)
    <2>1. CASE i = k + 1
      BY <1>4, <2>1
    <2>2. CASE i # k + 1
      <3>1. i \in 1 .. k /\ i \in 1 .. Len(cps)
        BY <1>2, <1>4, <2>2
      <3>2. after[i] = cps[i] /\ cps[i].timestamp < now_ /\ cps[i].timestamp \in Nat
        BY <1>2, <1>4, <3>1
      <3> QED BY <3>2
    <2> QED BY <2>1, <2>2
  <1>9. Ordered(after)
    <2> SUFFICES ASSUME NEW i \in 1 .. Len(after), NEW j \in 1 .. Len(after), i < j
                 PROVE  after[i].timestamp < after[j].timestamp
      BY DEF Ordered
    <2>1. i \in 1 .. k /\ i \in 1 .. Len(cps) /\ after[i] = cps[i] /\ cps[i].timestamp < now_
      BY <1>2, <1>4
    <2>2. CASE j = k + 1
      BY <1>4, <2>1, <2>2
    <2>3. CASE j # k + 1
      <3>1. j \in 1 .. k /\ j \in 1 .. Len(cps) /\ after[j] = cps[j]
        BY <1>2, <1>4, <2>3
      <3> QED BY <1>1, <2>1, <3>1 DEF Ordered
    <2> QED BY <2>2, <2>3
  <1>10. SumsUp(after, sum)
    <2> SUFFICES ASSUME NEW c \in 0 .. last
                 PROVE  \E n \in 0 .. Len(after) :
                          Boundary(after, c, n) /\ sum[c] = Cumulative(after, n)
      BY <1>5 DEF SumsUp
    <2>1. CASE c >= now_
      <3>1. sum[c] = Gross(cps) + amount
        BY <1>5, <1>6, <2>1
      <3>2. Cumulative(after, k + 1) = Gross(cps) + amount
        BY <1>4 DEF Cumulative
      <3>3. Boundary(after, c, k + 1)
        <4>1. \A i \in 1 .. k + 1 : after[i].timestamp <= c
          <5>1. \A i \in 1 .. Len(after) : after[i].timestamp \in Nat
            BY <1>3, CheckpointsTyped
          <5> QED BY <1>4, <1>8, <2>1, <5>1
        <4> QED BY <1>4, <4>1 DEF Boundary
      <3> QED BY <1>4, <3>1, <3>2, <3>3
    <2>2. CASE c < now_
      <3>1. PICK n \in 0 .. Len(cps) : Boundary(cps, c, n) /\ total[c] = Cumulative(cps, n)
        BY <1>1 DEF SumsUp
      <3>2. n <= k
        <4> SUFFICES ASSUME n > k PROVE FALSE
          BY <1>4
        <4>1. n = Len(cps) /\ Len(cps) \in 1 .. n /\ cps[Len(cps)].timestamp = now_
          BY <1>2, <1>4
        <4> QED BY <2>2, <3>1, <4>1 DEF Boundary
      <3>3. Cumulative(after, n) = Cumulative(cps, n)
        BY <1>4, <3>2 DEF Cumulative
      <3>4. Boundary(after, c, n)
        <4>1. \A i \in 1 .. n : after[i].timestamp <= c
          BY <1>4, <3>1, <3>2 DEF Boundary
        <4>2. \A i \in n + 1 .. Len(after) : after[i].timestamp > c
          <5> TAKE i \in n + 1 .. Len(after)
          <5>1. CASE i = k + 1
            BY <1>4, <2>2, <5>1
          <5>2. CASE i # k + 1
            <6>1. i \in 1 .. k /\ i \in n + 1 .. Len(cps)
              BY <1>2, <1>4, <5>2
            <6> QED BY <1>4, <3>1, <6>1 DEF Boundary
          <5> QED BY <5>1, <5>2
        <4> QED BY <4>1, <4>2 DEF Boundary
      <3>5. sum[c] = total[c]
        BY <1>5, <2>2
      <3>6. n \in 0 .. Len(after)
        BY <1>4, <3>2
      <3> QED BY <3>1, <3>3, <3>4, <3>5, <3>6
    <2> QED BY <2>1, <2>2
  <1> QED BY <1>3, <1>7, <1>8, <1>9, <1>10 DEF TrueAccount, after, sum

\* A movement that fits what the window leaves keeps every window within the
\* cap: those that end before now do not see it, those that began after now do
\* not either, and of the others the one that ends now is the fullest.
LEMMA CapIsKept ==
  ASSUME NEW cps, NEW total, NEW now_ \in Nat, NEW last \in Nat,
         TrueAccount(cps, total, now_, last), now_ <= last,
         NEW window \in Nat, NEW cap \in Int, Capped(total, window, cap),
         NEW amount \in Nat, amount <= cap - Moved(total, now_, window)
  PROVE  Capped(Since(total, now_, amount), window, cap)
  <1> DEFINE sum == Since(total, now_, amount)
  <1>1. total \in [0 .. last -> Nat] /\ total \in [0 .. last -> Int] /\ Monotone(total)
    BY DEF TrueAccount
  <1>2. /\ DOMAIN sum = 0 .. last
        /\ \A c \in 0 .. last : sum[c] = IF c >= now_ THEN total[c] + amount ELSE total[c]
    <2>1. /\ sum \in [0 .. last -> Int]
          /\ \A c \in 0 .. last : sum[c] = IF c >= now_ THEN total[c] + amount ELSE total[c]
      BY <1>1 DEF Since
    <2> HIDE DEF sum
    <2> QED BY <2>1
  <1>3. \A t \in 0 .. last : t >= now_ => total[t] = Gross(cps)
    BY TotalIsGross
  <1> HIDE DEF sum
  <1> SUFFICES ASSUME NEW t \in 0 .. last
               PROVE  Moved(sum, t, window) <= cap
    BY <1>2 DEF Capped, sum
  <1>4. Moved(total, t, window) <= cap
    BY <1>1 DEF Capped
  <1>5. now_ \in 0 .. last /\ total[now_] \in Nat /\ total[t] \in Nat
    BY <1>1
  <1>6. CASE t < window
    <2>1. CASE t < now_
      BY <1>2, <1>4, <1>5, <1>6, <2>1 DEF Moved
    <2>2. CASE t >= now_
      BY <1>2, <1>3, <1>5, <1>6, <2>2 DEF Moved
    <2> QED BY <2>1, <2>2
  <1>7. CASE t >= window
    <2>0. PICK b \in 0 .. last : b = t - window
      BY <1>7
    <2>1. total[b] \in Nat /\ sum[b] = IF b >= now_ THEN total[b] + amount ELSE total[b]
      BY <1>1, <1>2
    <2>2. Moved(sum, t, window) = sum[t] - sum[b] /\ Moved(total, t, window) = total[t] - total[b]
      BY <1>7, <2>0 DEF Moved
    <2>3. CASE t < now_ \/ b >= now_
      BY <1>2, <1>4, <1>5, <2>0, <2>1, <2>2, <2>3
    <2>4. CASE t >= now_ /\ b < now_
      <3>1. sum[t] = total[t] + amount /\ sum[b] = total[b] /\ total[t] = total[now_]
        BY <1>2, <1>3, <1>5, <2>1, <2>4
      <3>2. CASE now_ < window
        <4>1. amount <= cap - total[now_]
          BY <1>5, <3>2 DEF Moved
        <4> QED BY <1>5, <2>1, <2>2, <3>1, <4>1
      <3>3. CASE now_ >= window
        <4>0. PICK e \in 0 .. last : e = now_ - window
          BY <1>5, <3>3
        <4>1. amount <= cap - (total[now_] - total[e])
          BY <1>5, <3>3, <4>0 DEF Moved
        <4>2. total[e] <= total[b] /\ total[e] \in Nat
          BY <1>1, <2>0, <2>4, <4>0 DEF Monotone
        <4> QED BY <1>5, <2>1, <2>2, <3>1, <4>1, <4>2
      <3> QED BY <3>2, <3>3
    <2> QED BY <2>0, <2>3, <2>4
  <1> QED BY <1>6, <1>7

----------------------------------------------------------------------------
(* The inductive invariants.                                               *)

\* The controller's checkpoints account for its commitments, all within the cap.
ControllerInv ==
  /\ now \in Nat
  /\ running = "ReserveController" => now <= MaxTime
  /\ TrueAccount(commitments, committed, now, MaxTime)
  /\ Capped(committed, WINDOW, ROLLING_CAP)

\* A transferOut call in progress, which token and holders may do anything to.
Transfer ==
  [to : Accounts, amount : Nat, moved : BOOLEAN, ok : BOOLEAN, before : [from : Int, to : Int],
   saved : [outflows : Seq(Checkpoint), entered : {FALSE}, bal : [Accounts -> Int],
            spent : [0 .. VaultTime -> Nat]]]

\* What a call will commit to if the balances change by exactly its amount: it
\* is recorded over the account it started from, whose window has room for it.
InTransfer(f) ==
  /\ f \in Transfer
  /\ TrueAccount(f.saved.outflows, f.saved.spent, now, VaultTime)
  /\ Capped(f.saved.spent, WINDOW_SECONDS, OUTFLOW_CAP)
  /\ f.amount <= OUTFLOW_CAP - Moved(f.saved.spent, now, WINDOW_SECONDS)
  /\ outflows = Record(f.saved.outflows, now, f.amount)
  /\ spent = Since(f.saved.spent, now, f.before.from - balances["reserve"])

\* The vault is at rest with a true account, or in exactly one call.
VaultInv ==
  /\ now \in Nat /\ balances \in [Accounts -> Int] /\ entered \in BOOLEAN
  /\ IF running = "PurposeReserveVault" THEN now <= VaultTime
     ELSE outflows = <<>> /\ frames = <<>>
  /\ \/ /\ frames = <<>> /\ entered = FALSE
        /\ TrueAccount(outflows, spent, now, VaultTime)
        /\ Capped(spent, WINDOW_SECONDS, OUTFLOW_CAP)
     \/ frames = <<frames[1]>> /\ entered = TRUE /\ InTransfer(frames[1])

\* The founder's grant is three percent, sound and irrevocable, and once funded
\* the vault holds what it has not released.
FounderInv ==
  /\ now \in Nat /\ supply \in Amount /\ funded \in BOOLEAN
  /\ reserve \in Int /\ held \in Int /\ founder \in Int
  /\ grant.initialized =>
       /\ running = "FounderGrantReserve" /\ now <= MaxTime
       /\ Sound(grant) /\ grant.terms.kind = "Founder" /\ ~ grant.cancelled
       /\ grant.lastTransition <= now
       /\ 100 * grant.terms.allocation = 3 * supply
  /\ ~ grant.initialized => grant = EmptyGrant
  /\ running = "FounderGrantReserve" => now <= MaxTime
  /\ IF funded
       THEN /\ grant.initialized
            /\ held = grant.terms.allocation - grant.released /\ founder = grant.released
       ELSE held = 0 /\ founder = 0 /\ grant.released = 0

ReservesInv == ControllerInv /\ VaultInv /\ FounderInv

----------------------------------------------------------------------------
(* The clock, and the controller.                                          *)

\* Block time never goes back, whichever contract runs.
LEMMA ClockAdvances ==
  ASSUME now \in Nat, [ReservesNext]_reservesVars
  PROVE  now' \in Nat /\ now <= now'
  <1>1. CASE UNCHANGED reservesVars
    BY <1>1 DEF reservesVars, vars
  <1>2. CASE RunController
    <2>1. ASSUME NEW b, NEW terms, Commit(b, terms) PROVE now' = now
      BY <2>1 DEF Commit
    <2>2. ASSUME NEW i, Release(i) \/ Cancel(i) PROVE now' = now
      BY <2>2 DEF Release, Cancel
    <2>3. ASSUME NEW amount, Supply(amount) PROVE now' = now
      BY <2>3 DEF Supply
    <2>4. CASE Tick
      BY <2>4 DEF Tick
    <2> QED BY <1>2, <2>1, <2>2, <2>3, <2>4 DEF RunController, Next
  <1>3. CASE RunFounder
    <2>1. ASSUME NEW terms, NEW same, Founder!Construct(terms, same) PROVE now' = now
      BY <2>1 DEF Founder!Construct
    <2>2. Founder!Fund \/ Founder!Release \/ Founder!Cancel => now' = now
      BY DEF Founder!Fund, Founder!Release, Founder!Cancel, Founder!vars
    <2>3. ASSUME NEW amount, Founder!Deliver(amount) PROVE now' = now
      BY <2>3 DEF Founder!Deliver
    <2>4. CASE Founder!Tick
      BY <2>4 DEF Founder!Tick
    <2> QED BY <1>3, <2>1, <2>2, <2>3, <2>4 DEF RunFounder, Founder!Next
  <1>4. CASE RunVault
    <2>1. ASSUME NEW to, NEW amount, Vault!TransferOut(to, amount) PROVE now' = now
      BY <2>1 DEF Vault!TransferOut
    <2>2. Vault!Finish => now' = now
      BY DEF Vault!Finish, Vault!Rollback
    <2>3. ASSUME NEW d, NEW c, NEW ok, Vault!TokenMoves(d, c, ok) PROVE now' = now
      BY <2>3 DEF Vault!TokenMoves
    <2>4. Vault!TokenReturnsFalse \/ Vault!TokenReverts => now' = now
      BY DEF Vault!TokenReturnsFalse, Vault!TokenReverts, Vault!Rollback
    <2>5. ASSUME NEW from, NEW to, NEW amount, Vault!Outside(from, to, amount) PROVE now' = now
      BY <2>5 DEF Vault!Outside
    <2>6. CASE Vault!Tick
      BY <2>6 DEF Vault!Tick
    <2> QED BY <1>4, <2>1, <2>2, <2>3, <2>4, <2>5, <2>6 DEF RunVault, Vault!Next
  <1>5. CASE RunGrant
    <2>1. ASSUME NEW b, NEW r, NEW terms, GrantsVault!Construct(b, r, terms) PROVE now' = now
      BY <2>1 DEF GrantsVault!Construct
    <2>2. GrantsVault!Fund \/ GrantsVault!Release \/ GrantsVault!Cancel \/ GrantsVault!CancelVested
          => now' = now
      BY DEF GrantsVault!Fund, GrantsVault!Release, GrantsVault!Cancel, GrantsVault!CancelVested,
             GrantsVault!Call
    <2>3. GrantsVault!Finish => now' = now
      BY DEF GrantsVault!Finish, GrantsVault!Rollback
    <2>4. ASSUME NEW fee, NEW ok, GrantsVault!TokenMoves(fee, ok) PROVE now' = now
      BY <2>4 DEF GrantsVault!TokenMoves
    <2>5. GrantsVault!TokenReturnsFalse \/ GrantsVault!TokenReverts => now' = now
      BY DEF GrantsVault!TokenReturnsFalse, GrantsVault!TokenReverts, GrantsVault!Rollback
    <2>6. ASSUME NEW from, NEW to, NEW amount, GrantsVault!Outside(from, to, amount)
          PROVE  now' = now
      BY <2>6 DEF GrantsVault!Outside
    <2>7. CASE GrantsVault!Tick
      BY <2>7 DEF GrantsVault!Tick
    <2> QED BY <1>5, <2>1, <2>2, <2>3, <2>4, <2>5, <2>6, <2>7 DEF RunGrant, GrantsVault!Next
  <1> QED BY <1>1, <1>2, <1>3, <1>4, <1>5 DEF ReservesNext

LEMMA ControllerStarts == ReservesInit => ControllerInv
  <1> SUFFICES ASSUME ReservesInit PROVE ControllerInv
    OBVIOUS
  <1>1. MaxTime \in Nat /\ WINDOW \in Nat /\ ROLLING_CAP \in Nat
    BY WidthAssumption, PolicyAssumption
  <1>2. /\ now \in Nat /\ (running = "ReserveController" => now <= MaxTime)
        /\ commitments = <<>> /\ committed = [t \in 0 .. MaxTime |-> 0]
    BY <1>1 DEF ReservesInit, Init, Founder!Init, Founder!Time, Time
  <1>3. TrueAccount(commitments, committed, now, MaxTime)
    BY <1>1, <1>2, EmptyAccount
  <1>4. Capped(committed, WINDOW, ROLLING_CAP)
    BY <1>1, <1>2 DEF Capped, Moved
  <1> QED BY <1>2, <1>3, <1>4 DEF ControllerInv

\* A commitment within the caps is recorded within the cap of every window.
LEMMA CommitKeepsCap ==
  ASSUME ControllerInv, running = "ReserveController", NEW b, NEW terms \in Terms, Commit(b, terms)
  PROVE  /\ TrueAccount(commitments', committed', now, MaxTime)
         /\ Capped(committed', WINDOW, ROLLING_CAP)
  <1> DEFINE amount == terms.allocation
  <1>1. MaxTime \in Nat /\ WINDOW \in Nat /\ ROLLING_CAP \in Nat
    BY WidthAssumption, PolicyAssumption
  <1>2. /\ now \in Nat /\ now \in 0 .. MaxTime
        /\ TrueAccount(commitments, committed, now, MaxTime)
        /\ Capped(committed, WINDOW, ROLLING_CAP)
    BY <1>1 DEF ControllerInv
  <1>3. amount \in Nat
    BY WidthAssumption DEF Terms, Amount
  <1>4. /\ commitments' = Record(commitments, now, amount)
        /\ committed' = Since(committed, now, amount)
        /\ amount <= ROLLING_CAP - RollingTotal(commitments, now, WINDOW)
    BY DEF Commit, WithinCaps, rollingCommitted
  <1> HIDE DEF amount
  <1>5. RollingTotal(commitments, now, WINDOW) = Moved(committed, now, WINDOW)
    BY <1>1, <1>2, RollingIsMoved
  <1>6. TrueAccount(Record(commitments, now, amount), Since(committed, now, amount), now, MaxTime)
    BY <1>1, <1>2, <1>3, RecordAccounts
  <1>7. Capped(Since(committed, now, amount), WINDOW, ROLLING_CAP)
    BY <1>1, <1>2, <1>3, <1>4, <1>5, CapIsKept
  <1> QED BY <1>4, <1>6, <1>7

LEMMA ControllerKeeps == ControllerInv /\ [ReservesNext]_reservesVars => ControllerInv'
  <1> SUFFICES ASSUME ControllerInv, [ReservesNext]_reservesVars PROVE ControllerInv'
    OBVIOUS
  <1>1. MaxTime \in Nat
    BY WidthAssumption
  <1>2. now \in Nat /\ TrueAccount(commitments, committed, now, MaxTime)
    BY DEF ControllerInv
  <1>3. now' \in Nat /\ now <= now'
    BY <1>2, ClockAdvances
  <1>4. TrueAccount(commitments, committed, now', MaxTime)
    BY <1>1, <1>2, <1>3, AccountAges
  <1>5. CASE UNCHANGED <<commitments, committed>> /\ running' = running
             /\ (running = "ReserveController" => now' <= MaxTime)
    BY <1>3, <1>4, <1>5 DEF ControllerInv
  <1>6. CASE UNCHANGED reservesVars
    BY <1>5, <1>6 DEF reservesVars, vars, ControllerInv
  <1>7. CASE RunFounder \/ RunVault \/ RunGrant
    BY <1>5, <1>7 DEF RunFounder, RunVault, RunGrant
  <1>8. CASE RunController
    <2>0. running = "ReserveController" /\ running' = running /\ now <= MaxTime /\ Next
      BY <1>8 DEF RunController, ControllerInv
    <2>1. ASSUME NEW b \in Beneficiaries, NEW terms \in Proposals, Commit(b, terms)
          PROVE  ControllerInv'
      <3>1. terms \in Terms
        BY PolicyAssumption
      <3>2. now' = now
        BY <2>1 DEF Commit
      <3>3. /\ TrueAccount(commitments', committed', now, MaxTime)
            /\ Capped(committed', WINDOW, ROLLING_CAP)
        BY <2>0, <2>1, <3>1, CommitKeepsCap
      <3> QED BY <1>3, <2>0, <3>2, <3>3 DEF ControllerInv
    <2>2. CASE \E i \in DOMAIN vaults : Release(i) \/ Cancel(i)
      BY <1>5, <2>0, <2>2 DEF Release, Cancel
    <2>3. CASE \E terms \in Proposals : Supply(terms.allocation)
      BY <1>5, <2>0, <2>3 DEF Supply
    <2>4. CASE Tick
      BY <1>1, <1>2, <1>5, <2>0, <2>4 DEF Tick
    <2> QED BY <2>0, <2>1, <2>2, <2>3, <2>4 DEF Next
  <1> QED BY <1>6, <1>7, <1>8 DEF ReservesNext

\* The controller's checkpoints are true at every time, and every window is
\* within the cap.
THEOREM ControllerInvariant == ReservesSpec => []ControllerInv
  <1> QED BY ControllerStarts, ControllerKeeps, PTL DEF ReservesSpec

\* Gross commitments stay within the cap in every window, wherever it starts,
\* and rollingCommitted() is exactly those commitments now and at every later
\* time (58-106), for every policy and every history of commitments, releases
\* and cancellations.
THEOREM CommitmentsAreCapped == ReservesSpec => []EveryWindowWithinCap
  <1>1. ControllerInv => EveryWindowWithinCap
    <2> SUFFICES ASSUME ControllerInv PROVE EveryWindowWithinCap
      OBVIOUS
    <2>1. MaxTime \in Nat /\ WINDOW \in Nat /\ now \in Nat
      BY WidthAssumption, PolicyAssumption DEF ControllerInv
    <2>2. TrueAccount(commitments, committed, now, MaxTime)
      BY DEF ControllerInv
    <2>3. \A t \in Time : Moved(committed, t, WINDOW) <= ROLLING_CAP
      BY <2>2 DEF ControllerInv, Capped, TrueAccount, Time
    <2>4. ASSUME NEW t \in now .. MaxTime
          PROVE  RollingTotal(commitments, t, WINDOW) = Moved(committed, t, WINDOW)
      <3>1. t \in 0 .. MaxTime /\ t >= now
        BY <2>1
      <3> QED BY <2>1, <2>2, <3>1, RollingIsMoved
    <2> QED BY <2>3, <2>4 DEF EveryWindowWithinCap
  <1> QED BY <1>1, ControllerInvariant, PTL

----------------------------------------------------------------------------
(* The controller's tokens: what its vaults hold, and what they owe.       *)

VaultRecord == [grant : Grant, held : Int]
Balances == [reserve : Int, others : Int]

\* Two amounts make balances.
LEMMA BalanceTyped ==
  ASSUME NEW x \in Int, NEW y \in Int
  PROVE  [reserve |-> x, others |-> y] \in Balances
  BY DEF Balances

\* Balances are two amounts.
LEMMA BalanceFields ==
  ASSUME NEW b \in Balances
  PROVE  b.reserve \in Int /\ b.others \in Int
  BY DEF Balances

\* One of the two changes.
LEMMA BalanceMoves ==
  ASSUME NEW b \in Balances, NEW x \in Int
  PROVE  /\ [b EXCEPT !.reserve = b.reserve + x] = [reserve |-> b.reserve + x, others |-> b.others]
         /\ [b EXCEPT !.reserve = b.reserve - x] = [reserve |-> b.reserve - x, others |-> b.others]
         /\ [b EXCEPT !.others = b.others + x] = [reserve |-> b.reserve, others |-> b.others + x]
  BY DEF Balances

\* A vault of a grant and an amount.
LEMMA VaultFields ==
  ASSUME NEW g \in Grant, NEW x \in Int
  PROVE  /\ [grant |-> g, held |-> x] \in VaultRecord
         /\ [grant |-> g, held |-> x].grant = g /\ [grant |-> g, held |-> x].held = x
  BY DEF VaultRecord

\* The two parts of a vault.
LEMMA VaultFieldsTyped ==
  ASSUME NEW v \in VaultRecord
  PROVE  v.grant \in Grant /\ v.held \in Int
  BY DEF VaultRecord

\* What the controller's vaults hold, as Conservation adds it up.
HeldSum(vs) == FoldSet(LAMBDA i, sum : vs[i].held + sum, 0, DOMAIN vs)

\* What each of them holds.
HeldOf(vs) == [i \in DOMAIN vs |-> vs[i].held]

\* The fold over the vaults is the sum of what each of them holds.
LEMMA HeldAddsUp ==
  ASSUME NEW vs, IsFiniteSet(DOMAIN vs), \A i \in DOMAIN vs : vs[i].held \in Int
  PROVE  \E h : Sums(h, HeldOf(vs), DOMAIN vs) /\ HeldSum(vs) = h[DOMAIN vs]
  <1> DEFINE D == DOMAIN vs
             g == HeldOf(vs)
             Turn(h, U) == IF U = {} THEN 0
                           ELSE vs[CHOOSE x \in U : TRUE].held
                                + h[U \ {CHOOSE x \in U : TRUE}]
             F == CHOOSE h : h = [U \in SUBSET D |-> Turn(h, U)]
  <1>1. HeldSum(vs) = F[D]
    BY DEF HeldSum, FoldSet, MapThenFoldSet
  <1>2. \A U \in SUBSET D : U # {} => g[Chosen(U)] = vs[CHOOSE x \in U : TRUE].held
    BY ChosenIsIn DEF HeldOf, Chosen
  <1>3. \A x \in D : g[x] \in Int
    BY DEF HeldOf
  <1>4. PICK k : SumsByChoice(k, g, D)
    BY <1>3, SumsByChoiceExists
  <1>5. k = [U \in SUBSET D |-> Turn(k, U)]
    BY <1>2, <1>4 DEF SumsByChoice, Chosen
  <1>6. F = [U \in SUBSET D |-> Turn(F, U)]
    <2> HIDE DEF Turn
    <2> QED BY <1>5
  <1> HIDE DEF F
  <1>7. SumsByChoice(F, g, D)
    BY <1>2, <1>6 DEF SumsByChoice, Chosen
  <1> QED BY <1>1, <1>3, <1>7, SumsByChoiceSums

\* Vaults in order of creation.
VaultList(vs) == /\ vs \in Seq(VaultRecord)
                 /\ IsFiniteSet(DOMAIN vs)
                 /\ \A i \in DOMAIN vs : vs[i].held \in Int

\* There are finitely many vaults, each with a number of tokens.
LEMMA ListsAreFinite ==
  ASSUME NEW vs \in Seq(VaultRecord)
  PROVE  VaultList(vs)
  <1>1. Len(vs) \in Nat /\ DOMAIN vs = 1 .. Len(vs)
    OBVIOUS
  <1>2. IsFiniteSet(1 .. Len(vs))
    BY <1>1, FS_Interval
  <1>3. \A i \in DOMAIN vs : vs[i] \in VaultRecord
    BY <1>1
  <1> QED BY <1>1, <1>2, <1>3, VaultFieldsTyped DEF VaultList

\* No vault holds nothing.
LEMMA NothingHeld == HeldSum(<<>>) = 0
  <1>1. DOMAIN <<>> = {} /\ IsFiniteSet({})
    BY FS_EmptySet
  <1>2. PICK h : Sums(h, HeldOf(<<>>), {}) /\ HeldSum(<<>>) = h[{}]
    BY <1>1, HeldAddsUp
  <1> QED BY <1>2 DEF Sums

\* A vault more holds its tokens more.
LEMMA VaultAdds ==
  ASSUME NEW vs \in Seq(VaultRecord), NEW v \in VaultRecord
  PROVE  HeldSum(Append(vs, v)) = HeldSum(vs) + v.held /\ HeldSum(vs) \in Int
  <1> DEFINE n == Len(vs) + 1
             ws == Append(vs, v)
  <1>1. /\ ws \in Seq(VaultRecord) /\ n \in Nat
        /\ DOMAIN vs = 1 .. Len(vs) /\ DOMAIN ws = 1 .. n
        /\ ws[n] = v /\ \A i \in DOMAIN vs : ws[i] = vs[i]
    OBVIOUS
  <1> HIDE DEF ws
  <1>2. VaultList(vs) /\ VaultList(ws)
    BY <1>1, ListsAreFinite
  <1>3. PICK h : Sums(h, HeldOf(vs), DOMAIN vs) /\ HeldSum(vs) = h[DOMAIN vs]
    BY <1>2, HeldAddsUp DEF VaultList
  <1>4. PICK k : Sums(k, HeldOf(ws), DOMAIN ws) /\ HeldSum(ws) = k[DOMAIN ws]
    BY <1>2, HeldAddsUp DEF VaultList
  <1>5. n \in DOMAIN ws /\ (DOMAIN ws) \ {n} = DOMAIN vs /\ Len(vs) \in Nat
    BY <1>1
  <1>6. k[DOMAIN ws] = HeldOf(ws)[n] + k[DOMAIN vs]
    BY <1>4, <1>5 DEF Sums
  <1>7. k[DOMAIN vs] = h[DOMAIN vs]
    <2>1. \A x \in DOMAIN vs : HeldOf(ws)[x] = HeldOf(vs)[x]
      BY <1>1, <1>5 DEF HeldOf
    <2>2. DOMAIN vs \in SUBSET DOMAIN ws
      BY <1>5
    <2> QED BY <1>2, <1>3, <1>4, <2>1, <2>2, SumsAgree DEF VaultList
  <1>8. HeldOf(ws)[n] = v.held
    BY <1>1, <1>5 DEF HeldOf
  <1>9. h[DOMAIN vs] \in Int /\ v.held \in Int
    BY <1>3, VaultFieldsTyped DEF Sums
  <1> QED BY <1>3, <1>4, <1>6, <1>7, <1>8, <1>9 DEF ws

\* What one vault pays, the vaults hold less.
LEMMA VaultPays ==
  ASSUME NEW vs \in Seq(VaultRecord), NEW n \in DOMAIN vs,
         NEW v \in VaultRecord
  PROVE  HeldSum([vs EXCEPT ![n] = v]) = HeldSum(vs) - vs[n].held + v.held
  <1> DEFINE ws == [vs EXCEPT ![n] = v]
             D == DOMAIN vs
  <1>1. /\ ws \in Seq(VaultRecord) /\ DOMAIN ws = D
        /\ ws[n] = v /\ \A i \in D : i # n => ws[i] = vs[i]
    OBVIOUS
  <1> HIDE DEF ws
  <1>2. VaultList(vs) /\ VaultList(ws)
    BY <1>1, ListsAreFinite
  <1>3. PICK h : Sums(h, HeldOf(vs), D) /\ HeldSum(vs) = h[D]
    BY <1>2, HeldAddsUp DEF VaultList
  <1>4. PICK k : Sums(k, HeldOf(ws), D) /\ HeldSum(ws) = k[D]
    BY <1>1, <1>2, HeldAddsUp DEF VaultList
  <1> DEFINE E == D \ {n}
  <1>5. E \in SUBSET D /\ D \in SUBSET D
    OBVIOUS
  <1>6. k[D] = HeldOf(ws)[n] + k[E] /\ h[D] = HeldOf(vs)[n] + h[E]
    BY <1>3, <1>4, <1>5 DEF Sums
  <1>7. k[E] = h[E]
    <2>1. \A x \in E : HeldOf(ws)[x] = HeldOf(vs)[x]
      BY <1>1 DEF HeldOf
    <2> HIDE DEF E
    <2> QED BY <1>1, <1>2, <1>3, <1>4, <1>5, <2>1, SumsAgree DEF VaultList
  <1>8. HeldOf(ws)[n] = v.held /\ HeldOf(vs)[n] = vs[n].held
    BY <1>1 DEF HeldOf
  <1>9. h[E] \in Int /\ v.held \in Int /\ vs[n].held \in Int
    BY <1>2, <1>3, <1>5, VaultFieldsTyped DEF Sums, VaultList
  <1> HIDE DEF E
  <1> QED BY <1>3, <1>4, <1>6, <1>7, <1>8, <1>9 DEF ws

\* What the grant of a vault still owes.
Owed(g) == (IF g.cancelled THEN g.frozenEntitlement ELSE g.terms.allocation) - g.released

\* Every vault's grant is sound, not of the future, and held to the token; and
\* the reserve, the vaults and everybody else hold the supply between them.
TokensInv ==
  /\ now \in Nat
  /\ running = "ReserveController" => now <= MaxTime
  /\ vaults \in Seq(VaultRecord)
  /\ \A n \in DOMAIN vaults :
       /\ Sound(vaults[n].grant) /\ vaults[n].grant.lastTransition <= now
       /\ vaults[n].held = Owed(vaults[n].grant)
  /\ bal \in Balances
  /\ bal.reserve + bal.others + HeldSum(vaults) = INITIAL_SUPPLY

\* Without vaults nothing is owed.
LEMMA TokensStart == ReservesInit => TokensInv
  <1> SUFFICES ASSUME ReservesInit PROVE TokensInv
    OBVIOUS
  <1>1. INITIAL_SUPPLY \in Int /\ MaxTime \in Nat
    BY WidthAssumption, PolicyAssumption DEF Amount
  <1>2. /\ now \in Nat /\ (running = "ReserveController" => now <= MaxTime)
        /\ vaults = <<>> /\ bal = [reserve |-> 0, others |-> INITIAL_SUPPLY]
    BY <1>1 DEF ReservesInit, Init, Founder!Init, Founder!Time, Time
  <1>3. vaults \in Seq(VaultRecord) /\ DOMAIN vaults = {}
    BY <1>2
  <1>4. bal \in Balances
    BY <1>1, <1>2, BalanceTyped
  <1> QED BY <1>1, <1>2, <1>3, <1>4, NothingHeld DEF TokensInv

\* A new vault is funded from the reserve with all its grant allocates.
LEMMA CommitKeepsTokens ==
  ASSUME TokensInv, running = "ReserveController",
         NEW b, NEW terms \in Terms, Commit(b, terms)
  PROVE  running' = running => TokensInv'
  <1> DEFINE g == initialize(EmptyGrant, terms)
             v == [grant |-> g, held |-> terms.allocation]
  <1>1. /\ vaults' = Append(vaults, v) /\ now' = now /\ _validate(terms)
        /\ bal' = [bal EXCEPT !.reserve = bal.reserve - terms.allocation]
    BY DEF Commit, InitializeAllowed
  <1>2. /\ Sound(g) /\ g.terms = terms /\ g.released = 0 /\ g.lastTransition = 0 /\ ~ g.cancelled
    BY <1>1, InitializeSound
  <1> HIDE DEF g
  <1>3. terms.allocation \in Int
    BY WidthAssumption DEF Terms, Amount
  <1>4. v \in VaultRecord /\ v.grant = g /\ v.held = terms.allocation
    BY <1>2, <1>3, VaultFields DEF Sound
  <1>5. v.held = Owed(v.grant)
    BY <1>2, <1>3, <1>4 DEF Owed
  <1> HIDE DEF v
  <1>6. now \in Nat /\ vaults \in Seq(VaultRecord)
    BY DEF TokensInv
  <1>7. /\ HeldSum(vaults') = HeldSum(vaults) + terms.allocation /\ HeldSum(vaults) \in Int
        /\ vaults' \in Seq(VaultRecord)
    BY <1>1, <1>4, <1>6, VaultAdds
  <1>8. /\ bal' \in Balances
        /\ bal'.reserve = bal.reserve - terms.allocation /\ bal'.others = bal.others
        /\ bal.reserve \in Int /\ bal.others \in Int
    <2>1. bal \in Balances
      BY DEF TokensInv
    <2>2. bal' = [reserve |-> bal.reserve - terms.allocation, others |-> bal.others]
      BY <1>1, <1>3, <2>1, BalanceMoves
    <2>3. bal.reserve \in Int /\ bal.others \in Int /\ bal.reserve - terms.allocation \in Int
      BY <1>3, <2>1, BalanceFields
    <2>4. bal' \in Balances
      BY <2>2, <2>3, BalanceTyped
    <2> QED BY <2>2, <2>3, <2>4
  <1>9. bal'.reserve + bal'.others + HeldSum(vaults') = INITIAL_SUPPLY
    BY <1>3, <1>7, <1>8 DEF TokensInv
  <1>10. ASSUME NEW n \in DOMAIN vaults'
         PROVE  /\ Sound(vaults'[n].grant) /\ vaults'[n].grant.lastTransition <= now
                /\ vaults'[n].held = Owed(vaults'[n].grant)
    <2>1. CASE n \in DOMAIN vaults
      <3>1. vaults'[n] = vaults[n]
        BY <1>1, <1>6, <2>1
      <3> QED BY <2>1, <3>1 DEF TokensInv
    <2>2. CASE n \notin DOMAIN vaults
      <3>1. vaults'[n] = v
        BY <1>1, <1>6, <2>2
      <3> QED BY <1>2, <1>4, <1>5, <1>6, <3>1
    <2> QED BY <2>1, <2>2
  <1> QED BY <1>1, <1>7, <1>8, <1>9, <1>10 DEF TokensInv

\* A vault that pays what its grant no longer owes, to the reserve or to others.
LEMMA PaymentKeepsTokens ==
  ASSUME TokensInv, running = "ReserveController", NEW n \in DOMAIN vaults,
         NEW g, Sound(g), g.lastTransition <= now, NEW amount \in Int,
         vaults[n].held - amount = Owed(g),
         vaults' = [vaults EXCEPT ![n] = [grant |-> g, held |-> vaults[n].held - amount]],
         bal' \in Balances,
         bal'.reserve + bal'.others = bal.reserve + bal.others + amount,
         now' = now, running' = running
  PROVE  TokensInv'
  <1> DEFINE v == [grant |-> g, held |-> vaults[n].held - amount]
  <1>1. vaults \in Seq(VaultRecord) /\ now \in Nat
    BY DEF TokensInv
  <1>2. vaults[n].held \in Int
    BY <1>1, ListsAreFinite DEF VaultList
  <1>3. v \in VaultRecord /\ v.held = vaults[n].held - amount /\ v.grant = g
    BY <1>2, VaultFields DEF Sound
  <1>4. vaults' = [vaults EXCEPT ![n] = v]
    OBVIOUS
  <1> HIDE DEF v
  <1>5. /\ HeldSum(vaults') = HeldSum(vaults) - vaults[n].held + v.held
        /\ vaults' \in Seq(VaultRecord) /\ DOMAIN vaults' = DOMAIN vaults
    <2>1. HeldSum([vaults EXCEPT ![n] = v]) = HeldSum(vaults) - vaults[n].held + v.held
      BY <1>1, <1>3, VaultPays
    <2>2. [vaults EXCEPT ![n] = v] \in Seq(VaultRecord)
      BY <1>1, <1>3
    <2> QED BY <1>1, <1>4, <2>1, <2>2
  <1>6. HeldSum(vaults) \in Int
    BY <1>1, <1>3, VaultAdds
  <1>7. /\ bal.reserve \in Int /\ bal.others \in Int
        /\ bal.reserve + bal.others + HeldSum(vaults) = INITIAL_SUPPLY
    BY BalanceFields DEF TokensInv
  <1>8. bal'.reserve + bal'.others + HeldSum(vaults') = INITIAL_SUPPLY
    <2>1. HeldSum(vaults') = HeldSum(vaults) - amount
      BY <1>2, <1>3, <1>5, <1>6
    <2>2. HeldSum(vaults') \in Int
      BY <1>6, <2>1
    <2> QED BY <1>6, <1>7, <2>1
  <1>9. ASSUME NEW m \in DOMAIN vaults'
        PROVE  /\ Sound(vaults'[m].grant) /\ vaults'[m].grant.lastTransition <= now
               /\ vaults'[m].held = Owed(vaults'[m].grant)
    <2>1. CASE m # n
      <3>1. vaults'[m] = vaults[m] /\ m \in DOMAIN vaults
        BY <1>1, <1>4, <1>5, <2>1
      <3> QED BY <3>1 DEF TokensInv
    <2>2. CASE m = n
      <3>1. vaults'[m] = v
        BY <1>1, <1>4, <2>2
      <3> QED BY <1>3, <3>1
    <2> QED BY <2>1, <2>2
  <1> QED BY <1>5, <1>8, <1>9 DEF TokensInv

\* Every step of every contract keeps the tokens.
LEMMA TokensKeep == TokensInv /\ [ReservesNext]_reservesVars => TokensInv'
  <1> SUFFICES ASSUME TokensInv, [ReservesNext]_reservesVars PROVE TokensInv'
    OBVIOUS
  <1>1. MaxTime \in Nat /\ now \in Nat /\ now' \in Nat /\ now <= now'
    BY WidthAssumption, ClockAdvances DEF TokensInv
  <1>2. CASE UNCHANGED <<vaults, bal>> /\ running' = running
             /\ (running = "ReserveController" => now' <= MaxTime)
    <2>1. \A n \in DOMAIN vaults : vaults[n].grant.lastTransition <= now'
      <3>1. \A n \in DOMAIN vaults : vaults[n].grant.lastTransition \in Nat
        BY WidthAssumption DEF TokensInv, Sound, Grant, Time
      <3> QED BY <1>1, <3>1 DEF TokensInv
    <2> QED BY <1>1, <1>2, <2>1 DEF TokensInv
  <1>3. CASE UNCHANGED reservesVars
    BY <1>2, <1>3 DEF reservesVars, vars, TokensInv
  <1>4. CASE RunFounder \/ RunVault \/ RunGrant
    BY <1>2, <1>4 DEF RunFounder, RunVault, RunGrant
  <1>5. CASE RunController
    <2>0. running = "ReserveController" /\ running' = running /\ now <= MaxTime /\ Next
      BY <1>5 DEF RunController, TokensInv
    <2>1. now \in Time
      BY <1>1, <2>0 DEF Time
    <2>2. ASSUME NEW b \in Beneficiaries, NEW terms \in Proposals, Commit(b, terms)
          PROVE  TokensInv'
      BY <2>0, <2>2, CommitKeepsTokens, PolicyAssumption
    <2>3. ASSUME NEW n \in DOMAIN vaults, Release(n)
          PROVE  TokensInv'
      <3> DEFINE g == vaults[n].grant
                 amount == available(g, now)
                 h == release(g, now, amount)
      <3>1. /\ ReleaseAllowed(g, now, amount) /\ now' = now
            /\ vaults' = [vaults EXCEPT ![n] = [grant |-> h, held |-> vaults[n].held - amount]]
            /\ bal' = [bal EXCEPT !.others = bal.others + amount]
        BY <2>3 DEF Release
      <3>2. Sound(g) /\ g.lastTransition <= now /\ vaults[n].held = Owed(g)
        BY DEF TokensInv
      <3>3. now >= g.lastTransition /\ g \in Grant
        BY <3>1, <3>2 DEF Sound, ReleaseAllowed, _requireCurrent
      <3>4. amount \in Nat
        <4>1. _entitlement(g, now) \in Amount /\ g.released <= _entitlement(g, now)
          BY <2>1, <3>2, <3>3, SoundCovers
        <4> QED BY <3>3, <4>1, WidthAssumption DEF available, Amount, Grant
      <3>5. /\ Sound(h) /\ h.terms = g.terms /\ h.released = g.released + amount
            /\ h.lastTransition = now /\ h.frozenEntitlement = g.frozenEntitlement
            /\ h.cancelled = g.cancelled
        BY <2>1, <3>1, <3>2, <3>4, ReleaseSound
      <3>6. /\ g.released \in Int /\ g.frozenEntitlement \in Int /\ g.terms.allocation \in Int
        BY <3>3, WidthAssumption DEF Grant, Terms, Amount
      <3> HIDE DEF h, amount, g
      <3>7. vaults[n].held - amount = Owed(h)
        BY <3>2, <3>4, <3>5, <3>6 DEF Owed
      <3>8. /\ bal' \in Balances
            /\ bal'.reserve + bal'.others = bal.reserve + bal.others + amount
        <4>1. bal \in Balances /\ amount \in Int
          BY <3>4 DEF TokensInv
        <4>2. bal' = [reserve |-> bal.reserve, others |-> bal.others + amount]
          BY <3>1, <4>1, BalanceMoves
        <4>3. bal.reserve \in Int /\ bal.others \in Int /\ bal.others + amount \in Int
          BY <4>1, BalanceFields
        <4> QED BY <4>1, <4>2, <4>3, BalanceTyped
      <3>9. h.lastTransition <= now
        BY <1>1, <3>5
      <3>10. amount \in Int
        BY <3>4
      <3> QED BY <2>0, <3>1, <3>5, <3>7, <3>8, <3>9, <3>10, PaymentKeepsTokens
    <2>4. ASSUME NEW n \in DOMAIN vaults, Cancel(n)
          PROVE  TokensInv'
      <3> DEFINE g == vaults[n].grant
                 amount == refund(g, now)
                 h == cancel(g, now)
      <3>1. /\ CancelAllowed(g, now) /\ now' = now
            /\ vaults' = [vaults EXCEPT ![n] = [grant |-> h, held |-> vaults[n].held - amount]]
            /\ bal' = [bal EXCEPT !.reserve = bal.reserve + amount]
        BY <2>4 DEF Cancel
      <3>2. Sound(g) /\ vaults[n].held = Owed(g) /\ g \in Grant /\ ~ g.cancelled
        BY <3>1 DEF TokensInv, Sound, CancelAllowed
      <3>3. /\ Sound(h) /\ h.terms = g.terms /\ h.released = g.released /\ h.lastTransition = now
            /\ h.frozenEntitlement = _curve(g.terms, now) /\ h.cancelled
            /\ amount = g.terms.allocation - _curve(g.terms, now) /\ amount \in Amount
        BY <2>1, <3>1, <3>2, CancelSound
      <3> HIDE DEF amount
      <3>4. /\ g.released \in Int /\ g.terms.allocation \in Int /\ amount \in Int
        BY <3>2, <3>3, WidthAssumption DEF Grant, Terms, Amount
      <3>5. _curve(g.terms, now) \in Int
        BY <3>3, WidthAssumption DEF Sound, Grant, Amount
      <3> HIDE DEF h, g
      <3>6. vaults[n].held - amount = Owed(h)
        BY <3>2, <3>3, <3>4, <3>5 DEF Owed
      <3>7. /\ bal' \in Balances
            /\ bal'.reserve + bal'.others = bal.reserve + bal.others + amount
        <4>1. bal \in Balances
          BY DEF TokensInv
        <4>2. bal' = [reserve |-> bal.reserve + amount, others |-> bal.others]
          BY <3>1, <3>4, <4>1, BalanceMoves
        <4>3. bal.reserve \in Int /\ bal.others \in Int /\ bal.reserve + amount \in Int
          BY <3>4, <4>1, BalanceFields
        <4> QED BY <3>4, <4>2, <4>3, BalanceTyped
      <3>8. h.lastTransition <= now
        BY <1>1, <3>3
      <3> QED BY <2>0, <3>1, <3>3, <3>4, <3>6, <3>7, <3>8, PaymentKeepsTokens
    <2>5. ASSUME NEW terms \in Proposals, Supply(terms.allocation)
          PROVE  TokensInv'
      <3>1. terms.allocation \in Int
        BY WidthAssumption, PolicyAssumption DEF Terms, Amount
      <3>2. /\ UNCHANGED <<now, vaults>>
            /\ bal' = [reserve |-> bal.reserve + terms.allocation,
                       others |-> bal.others - terms.allocation]
        BY <2>5 DEF Supply
      <3>3. bal.reserve \in Int /\ bal.others \in Int
        BY BalanceFields DEF TokensInv
      <3>4. /\ bal' \in Balances
            /\ bal'.reserve + bal'.others = bal.reserve + bal.others
        BY <3>1, <3>2, <3>3, BalanceTyped
      <3> QED BY <2>0, <3>2, <3>4 DEF TokensInv
    <2>6. CASE Tick
      BY <1>1, <1>2, <2>0, <2>6 DEF Tick
    <2> QED BY <2>0, <2>2, <2>3, <2>4, <2>5, <2>6 DEF Next
  <1> QED BY <1>3, <1>4, <1>5 DEF ReservesNext

\* Whatever happens to a vault and to the others, it holds to the token what its
\* grant still owes, and no token is made or lost (58-88), however many vaults
\* there are.
THEOREM TokensAreConserved == ReservesSpec => []Conservation
  <1>1. ReservesSpec => []TokensInv
    BY TokensStart, TokensKeep, PTL DEF ReservesSpec
  <1>2. TokensInv => Conservation
    BY DEF TokensInv, Conservation, HeldSum, Owed
  <1> QED BY <1>1, <1>2, PTL

----------------------------------------------------------------------------
(* The purpose vault.                                                      *)

\* The vault computes with the operators of RollingWindow.
LEMMA VaultOperators ==
  ASSUME NEW cps, NEW total, NEW t, NEW amount, NEW window
  PROVE  /\ Vault!Record(cps, t, amount) = Record(cps, t, amount)
         /\ Vault!RollingTotal(cps, t, window) = RollingTotal(cps, t, window)
         /\ Vault!Since(total, t, amount) = Since(total, t, amount)
         /\ Vault!Moved(total, t, window) = Moved(total, t, window)
  <1>1. Vault!Record(cps, t, amount) = Record(cps, t, amount)
    BY DEF Vault!Record, Record, Vault!Gross, Gross, Vault!Cumulative, Cumulative
  <1>2. Vault!RollingTotal(cps, t, window) = RollingTotal(cps, t, window)
    BY DEF Vault!RollingTotal, RollingTotal, Vault!Gross, Gross, Vault!Cumulative, Cumulative,
           Vault!UpperBound, UpperBound
  <1>3. Vault!Since(total, t, amount) = Since(total, t, amount)
    BY DEF Vault!Since, Since
  <1>4. Vault!Moved(total, t, window) = Moved(total, t, window)
    BY DEF Vault!Moved, Moved
  <1> QED BY <1>1, <1>2, <1>3, <1>4

LEMMA VaultConstants ==
  /\ VaultTime \in Nat /\ WINDOW_SECONDS \in Nat /\ OUTFLOW_CAP \in Nat /\ OPENS_AT \in Nat
  /\ OPENS_AT # 0 /\ TokenSupply \in Nat /\ MaxFee \in Nat /\ MaxGift \in Nat
  /\ "reserve" \in Accounts /\ "elsewhere" \in Accounts
  BY ReservesAssumption DEF Vault!Policy

\* Two movements of the same block are one of their sum.
LEMMA SinceTwice ==
  ASSUME NEW total, \A c \in DOMAIN total : total[c] \in Nat, NEW now_ \in Nat,
         NEW a \in Int, NEW b \in Int
  PROVE  Since(Since(total, now_, a), now_, b) = Since(total, now_, a + b)
  <1>1. DOMAIN Since(total, now_, a) = DOMAIN total
    BY DEF Since
  <1> QED BY <1>1 DEF Since

LEMMA SinceNothing ==
  ASSUME NEW last \in Nat, NEW total \in [0 .. last -> Nat], NEW now_ \in Nat
  PROVE  Since(total, now_, 0) = total
  <1>2. \A c \in 0 .. last : total[c] \in Nat
    OBVIOUS
  <1> QED BY <1>2 DEF Since

LEMMA VaultStarts == ReservesInit => VaultInv
  <1> SUFFICES ASSUME ReservesInit PROVE VaultInv
    OBVIOUS
  <1>0. Vault!Init
    BY DEF ReservesInit
  <1>1. /\ outflows = <<>> /\ entered = FALSE /\ frames = <<>> /\ now = 0
        /\ spent = [t \in 0 .. VaultTime |-> 0]
        /\ balances = [a \in Accounts |-> IF a = "reserve" THEN TokenSupply ELSE 0]
    BY <1>0 DEF Vault!Init
  <1>2. balances \in [Accounts -> Int]
    BY <1>1, VaultConstants
  <1>3. now \in Nat /\ now <= VaultTime
    BY <1>1, VaultConstants
  <1>4. TrueAccount(outflows, spent, now, VaultTime)
    BY <1>1, <1>3, VaultConstants, EmptyAccount
  <1>5. Capped(spent, WINDOW_SECONDS, OUTFLOW_CAP)
    BY <1>1, VaultConstants DEF Capped, Moved
  <1> QED BY <1>1, <1>2, <1>3, <1>4, <1>5 DEF VaultInv

\* transferOut() starts a call from an account with room for its amount.
LEMMA TransferStarts ==
  ASSUME VaultInv, running = "PurposeReserveVault", running' = running,
         NEW to \in Accounts \cup Vault!Refused, NEW amount \in Nat, Vault!TransferOut(to, amount)
  PROVE  VaultInv'
  <1>0. PICK f : f = [to |-> to, amount |-> amount, moved |-> FALSE, ok |-> FALSE,
                      before |-> [from |-> balances["reserve"], to |-> balances[to]],
                      saved |-> [outflows |-> outflows, entered |-> entered,
                                 bal |-> balances, spent |-> spent]]
    OBVIOUS
  <1>1. /\ ~ entered /\ to \in Accounts
        /\ amount <= OUTFLOW_CAP - Vault!RollingTotal(outflows, now, WINDOW_SECONDS)
        /\ entered' = TRUE /\ outflows' = Vault!Record(outflows, now, amount)
        /\ frames' = Append(frames, f)
        /\ UNCHANGED <<now, balances, spent>>
    BY <1>0 DEF Vault!TransferOut, Vault!Accepts, Vault!rollingOutflow
  <1>2. /\ now \in Nat /\ now <= VaultTime /\ balances \in [Accounts -> Int] /\ entered = FALSE
        /\ frames = <<>> /\ TrueAccount(outflows, spent, now, VaultTime)
        /\ Capped(spent, WINDOW_SECONDS, OUTFLOW_CAP)
    BY <1>1 DEF VaultInv
  <1>3. outflows \in Seq(Checkpoint) /\ spent \in [0 .. VaultTime -> Nat]
    BY <1>2 DEF TrueAccount
  <1>4. balances["reserve"] \in Int /\ balances[to] \in Int
    BY <1>1, <1>2, VaultConstants
  <1>5. f \in Transfer
    BY <1>0, <1>1, <1>2, <1>3, <1>4 DEF Transfer
  <1>6. /\ f.amount = amount /\ f.before.from = balances["reserve"]
        /\ f.saved.outflows = outflows /\ f.saved.spent = spent
    BY <1>0
  <1>7. frames' = <<f>> /\ frames'[1] = f
    BY <1>1, <1>2
  <1>8. Vault!RollingTotal(outflows, now, WINDOW_SECONDS) = Moved(spent, now, WINDOW_SECONDS)
    <2>1. now \in 0 .. VaultTime
      BY <1>2, VaultConstants
    <2>2. RollingTotal(outflows, now, WINDOW_SECONDS) = Moved(spent, now, WINDOW_SECONDS)
      BY <1>2, <2>1, VaultConstants, RollingIsMoved
    <2> QED BY <2>2, VaultOperators
  <1>9. outflows' = Record(outflows, now, amount)
    BY <1>1, VaultOperators
  <1>10. spent' = Since(spent, now, f.before.from - balances'["reserve"])
    <2>1. balances' = balances /\ f.before.from - balances'["reserve"] = 0 /\ spent' = spent
      BY <1>1, <1>4, <1>6
    <2> QED BY <1>2, <1>3, <2>1, VaultConstants, SinceNothing
  <1>11. InTransfer(f)'
    BY <1>1, <1>2, <1>5, <1>6, <1>8, <1>9, <1>10 DEF InTransfer
  <1> QED BY <1>1, <1>2, <1>7, <1>11 DEF VaultInv

\* There is never more than one call: the lock refuses a nested one.
LEMMA OneCall ==
  ASSUME VaultInv, frames # <<>>
  PROVE  /\ running = "PurposeReserveVault" /\ now \in Nat /\ now <= VaultTime
         /\ entered = TRUE /\ frames = <<frames[1]>> /\ Len(frames) = 1
         /\ InTransfer(frames[1]) /\ frames[1] \in Transfer
         /\ Vault!Top = frames[1] /\ Vault!Pop = <<>>
         /\ balances \in [Accounts -> Int]
  <1>1. /\ running = "PurposeReserveVault" /\ now \in Nat /\ now <= VaultTime
        /\ entered = TRUE /\ frames = <<frames[1]>> /\ InTransfer(frames[1])
        /\ balances \in [Accounts -> Int]
    BY DEF VaultInv
  <1>2. PICK f : f = frames[1]
    OBVIOUS
  <1>3. frames = <<f>> /\ Len(frames) = 1
    BY <1>1, <1>2
  <1>4. Vault!Top = frames[1]
    BY <1>3 DEF Vault!Top
  <1>5. Vault!Pop = <<>>
    BY <1>3 DEF Vault!Pop
  <1> QED BY <1>1, <1>3, <1>4, <1>5 DEF InTransfer

LEMMA Rebalanced ==
  ASSUME NEW S, NEW h \in [S -> Int], NEW a, NEW v \in Int
  PROVE  [h EXCEPT ![a] = v] \in [S -> Int]
  OBVIOUS

\* Whatever moves tokens during a call, the history of the call is what the
\* vault has lost since it began.
LEMMA CallGoesOn ==
  ASSUME VaultInv, frames # <<>>, NEW g \in Transfer,
         g.saved = frames[1].saved, g.amount = frames[1].amount, g.before = frames[1].before,
         frames' = <<g>>, balances' \in [Accounts -> Int],
         spent' = Since(spent, now, balances["reserve"] - balances'["reserve"]),
         UNCHANGED <<running, now, outflows, entered>>
  PROVE  VaultInv'
  <1>1. /\ running = "PurposeReserveVault" /\ now \in Nat /\ now <= VaultTime
        /\ entered = TRUE /\ InTransfer(frames[1]) /\ balances \in [Accounts -> Int]
    BY OneCall
  <1>2. g.saved.spent \in [0 .. VaultTime -> Nat] /\ g.before.from \in Int
    BY DEF Transfer
  <1>3. PICK b \in Int : b = balances["reserve"]
    BY <1>1, VaultConstants
  <1>4. PICK c \in Int : c = balances'["reserve"]
    BY VaultConstants
  <1>5. spent = Since(g.saved.spent, now, g.before.from - b)
    BY <1>1, <1>3 DEF InTransfer
  <1>6. PICK from \in Int : from = g.before.from
    BY <1>2
  <1>7. Since(Since(g.saved.spent, now, from - b), now, b - c)
          = Since(g.saved.spent, now, (from - b) + (b - c))
    <2>1. PICK u \in Int : u = from - b
      OBVIOUS
    <2>2. PICK v \in Int : v = b - c
      OBVIOUS
    <2>3. PICK total : total = g.saved.spent
      OBVIOUS
    <2>4. \A t \in DOMAIN total : total[t] \in Nat
      BY <1>2, <2>3
    <2>5. Since(Since(total, now, u), now, v) = Since(total, now, u + v)
      BY <1>1, <2>4, SinceTwice
    <2> QED BY <2>1, <2>2, <2>3, <2>5
  <1>8. (from - b) + (b - c) = from - c
    OBVIOUS
  <1>9. spent' = Since(g.saved.spent, now, g.before.from - balances'["reserve"])
    BY <1>3, <1>4, <1>5, <1>6, <1>7, <1>8
  <1>10. InTransfer(g)'
    BY <1>1, <1>9 DEF InTransfer
  <1>11. frames'[1] = g /\ now' = now /\ entered' = TRUE /\ running' = running
    BY <1>1
  <1> QED BY <1>1, <1>10, <1>11 DEF VaultInv

\* The token moves what it likes, and answers what it likes.
LEMMA TokenMovesKeeps ==
  ASSUME VaultInv, running' = running, NEW d \in Int, NEW c \in Int, NEW ok \in BOOLEAN,
         Vault!TokenMoves(d, c, ok)
  PROVE  VaultInv'
  <1>1. frames # <<>>
    BY DEF Vault!TokenMoves
  <1>2. PICK f : f = frames[1]
    OBVIOUS
  <1>3. /\ f \in Transfer /\ frames = <<f>> /\ Len(frames) = 1 /\ Vault!Top = f
        /\ balances \in [Accounts -> Int]
    BY <1>1, <1>2, OneCall
  <1>4. PICK g : g = [f EXCEPT !.moved = TRUE, !.ok = ok]
    OBVIOUS
  <1>5. /\ g \in Transfer /\ g.saved = f.saved /\ g.amount = f.amount /\ g.before = f.before
    BY <1>3, <1>4 DEF Transfer
  <1>6. frames' = <<g>>
    <2>1. frames' = [<<f>> EXCEPT ![1].moved = TRUE, ![1].ok = ok]
      BY <1>3 DEF Vault!TokenMoves
    <2> QED BY <1>4, <2>1
  <1>7. balances' \in [Accounts -> Int]
    <2>0. PICK n \in Nat : n = f.amount
      BY <1>3 DEF Transfer
    <2>1. PICK v \in Int : v = balances["reserve"] - n - d
      BY <1>3, VaultConstants
    <2>2. PICK debited : debited = [balances EXCEPT !["reserve"] = v]
      OBVIOUS
    <2>3. debited \in [Accounts -> Int] /\ f.to \in Accounts
      BY <1>3, <2>2, Rebalanced DEF Transfer
    <2>4. PICK w \in Int : w = debited[f.to] + n - c
      BY <2>3
    <2>5. PICK credited : credited = [debited EXCEPT ![f.to] = w]
      OBVIOUS
    <2>6. credited \in [Accounts -> Int]
      BY <2>3, <2>5, Rebalanced
    <2>7. PICK x \in Int : x = credited["elsewhere"] + d + c
      BY <2>6, VaultConstants
    <2>8. balances' = [credited EXCEPT !["elsewhere"] = x]
      BY <1>3, <2>0, <2>1, <2>2, <2>4, <2>5, <2>7 DEF Vault!TokenMoves
    <2> QED BY <2>6, <2>8, Rebalanced
  <1>8. /\ spent' = Since(spent, now, balances["reserve"] - balances'["reserve"])
        /\ UNCHANGED <<now, outflows, entered>>
    BY <1>1, VaultOperators DEF Vault!TokenMoves, Vault!NetOutflow
  <1> QED BY <1>1, <1>2, <1>5, <1>6, <1>7, <1>8, CallGoesOn

LEMMA ReturnsFalseKeeps ==
  ASSUME VaultInv, running' = running, Vault!TokenReturnsFalse
  PROVE  VaultInv'
  <1>1. frames # <<>>
    BY DEF Vault!TokenReturnsFalse
  <1>2. PICK f : f = frames[1]
    OBVIOUS
  <1>3. /\ f \in Transfer /\ frames = <<f>> /\ Len(frames) = 1 /\ InTransfer(frames[1])
        /\ balances \in [Accounts -> Int] /\ entered = TRUE
        /\ running = "PurposeReserveVault" /\ now \in Nat /\ now <= VaultTime
    BY <1>1, <1>2, OneCall
  <1>4. PICK g : g = [f EXCEPT !.moved = TRUE]
    OBVIOUS
  <1>5. /\ g \in Transfer /\ g.saved = f.saved /\ g.amount = f.amount /\ g.before = f.before
    BY <1>3, <1>4 DEF Transfer
  <1>6. frames' = <<g>> /\ UNCHANGED <<now, outflows, entered, balances, spent>>
    <2>1. frames' = [<<f>> EXCEPT ![1].moved = TRUE]
      BY <1>3 DEF Vault!TokenReturnsFalse
    <2>2. frames' = [<<f>> EXCEPT ![1] = g]
      BY <1>4, <2>1
    <2>3. frames' = <<g>>
      BY <2>2
    <2> QED BY <2>3 DEF Vault!TokenReturnsFalse
  <1>7. InTransfer(g)'
    BY <1>2, <1>3, <1>5, <1>6 DEF InTransfer
  <1>8. frames'[1] = g
    BY <1>6
  <1> QED BY <1>3, <1>6, <1>7, <1>8 DEF VaultInv

\* A holder's transfer, at rest or from a hook of the token.
LEMMA OutsideKeeps ==
  ASSUME VaultInv, running' = running, running = "PurposeReserveVault",
         NEW from \in Accounts, NEW to \in Accounts, NEW amount \in Int,
         Vault!Outside(from, to, amount)
  PROVE  VaultInv'
  <1>1. /\ UNCHANGED <<now, outflows, entered, frames>>
        /\ balances' = [balances EXCEPT ![from] = @ - amount, ![to] = @ + amount]
    BY DEF Vault!Outside
  <1>2. balances \in [Accounts -> Int]
    BY DEF VaultInv
  <1>3. balances' \in [Accounts -> Int]
    <2>0. from # to
      BY DEF Vault!Outside
    <2>1. PICK v \in Int : v = balances[from] - amount
      BY <1>2
    <2>2. PICK w \in Int : w = balances[to] + amount
      BY <1>2
    <2>3. PICK paid : paid = [balances EXCEPT ![from] = v]
      OBVIOUS
    <2>4. paid \in [Accounts -> Int] /\ paid[to] = balances[to]
      BY <1>2, <2>0, <2>3, Rebalanced
    <2>5. balances' = [paid EXCEPT ![to] = w]
      BY <1>1, <2>1, <2>2, <2>3, <2>4
    <2> QED BY <2>4, <2>5, Rebalanced
  <1>4. CASE frames = <<>>
    <2>1. spent' = spent
      BY <1>4 DEF Vault!Outside, Vault!NetOutflow
    <2> QED BY <1>1, <1>3, <1>4, <2>1 DEF VaultInv
  <1>5. CASE frames # <<>>
    <2>1. spent' = Since(spent, now, balances["reserve"] - balances'["reserve"])
      BY <1>5, VaultOperators DEF Vault!Outside, Vault!NetOutflow
    <2>2. PICK f : f = frames[1]
      OBVIOUS
    <2>3. f \in Transfer /\ frames' = <<f>>
      BY <1>1, <1>5, <2>2, OneCall
    <2> QED BY <1>1, <1>3, <1>5, <2>1, <2>2, <2>3, CallGoesOn
  <1> QED BY <1>4, <1>5

\* A call whose balances changed by exactly its amount is committed as recorded.
LEMMA ExactCallCommits ==
  ASSUME VaultInv, frames # <<>>, running' = running,
         frames[1].before.from - balances["reserve"] = frames[1].amount,
         frames' = <<>>, entered' = FALSE, UNCHANGED <<now, outflows, balances, spent>>
  PROVE  VaultInv'
  <1>1. /\ running = "PurposeReserveVault" /\ now \in Nat /\ now <= VaultTime
        /\ InTransfer(frames[1]) /\ frames[1] \in Transfer /\ balances \in [Accounts -> Int]
    BY OneCall
  <1>2. PICK f : f = frames[1]
    OBVIOUS
  <1>3. /\ TrueAccount(f.saved.outflows, f.saved.spent, now, VaultTime)
        /\ Capped(f.saved.spent, WINDOW_SECONDS, OUTFLOW_CAP)
        /\ f.amount <= OUTFLOW_CAP - Moved(f.saved.spent, now, WINDOW_SECONDS)
        /\ outflows = Record(f.saved.outflows, now, f.amount)
        /\ spent = Since(f.saved.spent, now, f.amount)
    BY <1>1, <1>2 DEF InTransfer
  <1>4. f.amount \in Nat
    BY <1>1, <1>2 DEF Transfer
  <1>5. TrueAccount(outflows, spent, now, VaultTime)
    BY <1>1, <1>3, <1>4, VaultConstants, RecordAccounts
  <1>6. Capped(spent, WINDOW_SECONDS, OUTFLOW_CAP)
    <2>1. OUTFLOW_CAP \in Int
      BY VaultConstants
    <2> QED BY <1>1, <1>3, <1>4, <2>1, VaultConstants, CapIsKept
  <1> QED BY <1>1, <1>5, <1>6 DEF VaultInv

\* A reverted call leaves what was before it.
LEMMA RollbackKeeps ==
  ASSUME VaultInv, frames # <<>>, running' = running, Vault!Rollback
  PROVE  VaultInv'
  <1>1. /\ running = "PurposeReserveVault" /\ now \in Nat /\ now <= VaultTime
        /\ InTransfer(frames[1]) /\ frames[1] \in Transfer
        /\ Vault!Top = frames[1] /\ Vault!Pop = <<>>
    BY OneCall
  <1>2. PICK f : f = frames[1]
    OBVIOUS
  <1>3. /\ outflows' = f.saved.outflows /\ balances' = f.saved.bal /\ spent' = f.saved.spent
        /\ entered' = f.saved.entered /\ frames' = <<>> /\ now' = now
    BY <1>1, <1>2 DEF Vault!Rollback
  <1>4. balances' \in [Accounts -> Int] /\ entered' = FALSE
    BY <1>1, <1>2, <1>3 DEF Transfer
  <1>5. /\ TrueAccount(outflows', spent', now, VaultTime)
        /\ Capped(spent', WINDOW_SECONDS, OUTFLOW_CAP)
    BY <1>1, <1>2, <1>3 DEF InTransfer
  <1> QED BY <1>1, <1>3, <1>4, <1>5 DEF VaultInv

LEMMA FinishKeeps ==
  ASSUME VaultInv, running' = running, Vault!Finish
  PROVE  VaultInv'
  <1>1. frames # <<>>
    BY DEF Vault!Finish
  <1>2. Vault!Top = frames[1] /\ Vault!Pop = <<>>
    BY <1>1, OneCall
  <1>3. CASE Vault!Rollback
    BY <1>1, <1>3, RollbackKeeps
  <1>4. CASE ~ Vault!Rollback
    <2>1. /\ entered' = FALSE /\ frames' = <<>> /\ UNCHANGED <<now, outflows, balances, spent>>
          /\ frames[1].before.from - balances["reserve"] = frames[1].amount
      BY <1>2, <1>4 DEF Vault!Finish, Vault!ExactMovement
    <2> QED BY <1>1, <2>1, ExactCallCommits
  <1> QED BY <1>3, <1>4

\* The other contracts leave the vault alone, at rest.
LEMMA OthersKeepVault ==
  ASSUME VaultInv, frames = <<>>, now' \in Nat, now <= now', running' = running,
         running = "PurposeReserveVault" => now' <= VaultTime, UNCHANGED vaultVars
  PROVE  VaultInv'
  <1>1. /\ now \in Nat /\ balances \in [Accounts -> Int] /\ entered = FALSE
        /\ TrueAccount(outflows, spent, now, VaultTime)
        /\ Capped(spent, WINDOW_SECONDS, OUTFLOW_CAP)
        /\ running # "PurposeReserveVault" => outflows = <<>>
    BY DEF VaultInv
  <1>2. TrueAccount(outflows, spent, now', VaultTime)
    BY <1>1, VaultConstants, AccountAges
  <1>3. UNCHANGED <<outflows, entered, balances, spent, frames>>
    BY DEF vaultVars
  <1> QED BY <1>1, <1>2, <1>3 DEF VaultInv

LEMMA VaultKeeps == VaultInv /\ [ReservesNext]_reservesVars => VaultInv'
  <1> SUFFICES ASSUME VaultInv, [ReservesNext]_reservesVars PROVE VaultInv'
    OBVIOUS
  <1>0. now \in Nat
    BY DEF VaultInv
  <1>1. now' \in Nat /\ now <= now'
    BY <1>0, ClockAdvances
  <1>2. CASE UNCHANGED reservesVars
    <2>1. UNCHANGED <<running, now, outflows, entered, balances, spent, frames>>
      BY <1>2 DEF reservesVars, vars, vaultVars
    <2> QED BY <2>1 DEF VaultInv, InTransfer
  <1>3. CASE RunController \/ RunFounder \/ RunGrant
    <2>1. running # "PurposeReserveVault" /\ running' = running /\ UNCHANGED vaultVars
      BY <1>3 DEF RunController, RunFounder, RunGrant
    <2>2. frames = <<>>
      BY <2>1 DEF VaultInv
    <2> QED BY <1>1, <2>1, <2>2, OthersKeepVault
  <1>4. CASE RunVault
    <2>0. running = "PurposeReserveVault" /\ running' = running /\ Vault!Next
      BY <1>4 DEF RunVault
    <2>1. ASSUME NEW to \in Accounts \cup Vault!Refused, NEW amount \in 0 .. TokenSupply,
                 Vault!TransferOut(to, amount)
          PROVE  VaultInv'
      BY <2>0, <2>1, VaultConstants, TransferStarts
    <2>2. CASE Vault!Finish
      BY <2>0, <2>2, FinishKeeps
    <2>3. ASSUME NEW d \in 0 .. MaxFee, NEW c \in 0 .. MaxFee, NEW ok \in BOOLEAN,
                 Vault!TokenMoves(d, c, ok)
          PROVE  VaultInv'
      BY <2>0, <2>3, TokenMovesKeeps
    <2>4. CASE Vault!TokenReturnsFalse
      BY <2>0, <2>4, ReturnsFalseKeeps
    <2>5. CASE Vault!TokenReverts
      BY <2>0, <2>5, RollbackKeeps DEF Vault!TokenReverts
    <2>6. ASSUME NEW from \in Accounts, NEW to \in Accounts, NEW amount \in 1 .. MaxGift,
                 Vault!Outside(from, to, amount)
          PROVE  VaultInv'
      BY <2>0, <2>6, OutsideKeeps
    <2>7. CASE Vault!Tick
      <3>1. /\ frames = <<>> /\ now < VaultTime /\ now' = now + 1
            /\ UNCHANGED <<outflows, entered, balances, spent, frames>>
        BY <2>7 DEF Vault!Tick
      <3>2. now' <= VaultTime
        BY <1>0, <3>1, VaultConstants
      <3> QED BY <1>1, <2>0, <3>1, <3>2, OthersKeepVault DEF vaultVars
    <2> QED BY <2>0, <2>1, <2>2, <2>3, <2>4, <2>5, <2>6, <2>7 DEF Vault!Next
  <1> QED BY <1>2, <1>3, <1>4 DEF ReservesNext

\* The purpose vault is at rest with a true account, or in one call over one.
THEOREM VaultInvariant == ReservesSpec => []VaultInv
  <1> QED BY VaultStarts, VaultKeeps, PTL DEF ReservesSpec

\* No window, wherever it starts, sees more than the cap leave the vault in
\* tokens that really moved (PurposeReserveVault.sol 74-107), whatever the token
\* takes as a fee, answers, calls back or undoes.
THEOREM OutflowsAreCapped == ReservesSpec => []EveryOutflowWithinCap
  <1>1. VaultInv => EveryOutflowWithinCap
    <2> SUFFICES ASSUME VaultInv, NEW t \in 0 .. VaultTime
                 PROVE  Vault!Moved(Vault!Committed.spent, t, WINDOW_SECONDS) <= OUTFLOW_CAP
      BY DEF EveryOutflowWithinCap, Vault!EveryWindowWithinCap
    <2>1. PICK total : total = Vault!Committed.spent
      OBVIOUS
    <2>2. \E cps : TrueAccount(cps, total, now, VaultTime) /\ Capped(total, WINDOW_SECONDS, OUTFLOW_CAP)
      <3>1. CASE frames = <<>>
        BY <2>1, <3>1 DEF VaultInv, Vault!Committed
      <3>2. CASE frames # <<>>
        BY <2>1, <3>2, OneCall DEF InTransfer, Vault!Committed
      <3> QED BY <3>1, <3>2
    <2>3. Moved(total, t, WINDOW_SECONDS) <= OUTFLOW_CAP
      BY <2>2 DEF Capped, TrueAccount
    <2> QED BY <2>1, <2>3, VaultOperators
  <1> QED BY <1>1, VaultInvariant, PTL

\* Every checkpoint says what had moved by its time.
LEMMA CheckpointsAreTrue ==
  ASSUME NEW cps, NEW total, NEW now_ \in Nat, NEW last \in Nat, now_ <= last,
         TrueAccount(cps, total, now_, last), NEW i \in 1 .. Len(cps)
  PROVE  cps[i].cumulative = total[cps[i].timestamp]
  <1>1. /\ cps \in Seq(Checkpoint) /\ DOMAIN total = 0 .. last
        /\ cps[i].timestamp <= now_ /\ Ordered(cps) /\ SumsUp(cps, total)
    BY DEF TrueAccount
  <1>2. Len(cps) \in Nat /\ \A j \in 1 .. Len(cps) : cps[j].timestamp \in Nat
    BY <1>1, CheckpointsTyped
  <1>3. PICK c \in 0 .. last : c = cps[i].timestamp
    BY <1>1, <1>2
  <1>4. PICK n \in 0 .. Len(cps) : Boundary(cps, c, n) /\ total[c] = Cumulative(cps, n)
    BY <1>1, <1>3 DEF SumsUp
  <1>5. n = i
    <2>1. CASE n < i
      <3>1. i \in n + 1 .. Len(cps)
        BY <1>2, <2>1
      <3> QED BY <1>3, <1>4, <3>1 DEF Boundary
    <2>2. CASE n > i
      <3>1. n \in 1 .. n /\ n \in 1 .. Len(cps)
        BY <1>2, <2>2
      <3>2. cps[n].timestamp <= c /\ c < cps[n].timestamp
        BY <1>1, <1>3, <1>4, <2>2, <3>1 DEF Boundary, Ordered
      <3> QED BY <1>2, <3>1, <3>2
    <2> QED BY <1>2, <2>1, <2>2
  <1> QED BY <1>3, <1>4, <1>5 DEF Cumulative

\* At rest the rolling total is a number.
LEMMA RollingOutflowTyped ==
  ASSUME VaultInv, frames = <<>>
  PROVE  Vault!rollingOutflow \in Int
  <1>1. /\ now \in Nat /\ TrueAccount(outflows, spent, now, VaultTime)
        /\ IF running = "PurposeReserveVault" THEN now <= VaultTime ELSE outflows = <<>>
    BY DEF VaultInv
  <1>2. Vault!rollingOutflow = RollingTotal(outflows, now, WINDOW_SECONDS)
    BY VaultOperators DEF Vault!rollingOutflow
  <1>3. CASE now <= VaultTime
    <2>1. now \in 0 .. VaultTime /\ spent \in [0 .. VaultTime -> Nat]
      BY <1>1, <1>3, VaultConstants DEF TrueAccount
    <2>2. RollingTotal(outflows, now, WINDOW_SECONDS) = Moved(spent, now, WINDOW_SECONDS)
      BY <1>1, <2>1, VaultConstants, RollingIsMoved
    <2>3. Moved(spent, now, WINDOW_SECONDS) \in Int
      <3>1. spent[now] \in Int
        BY <2>1
      <3>2. ~ (now < WINDOW_SECONDS) => spent[now - WINDOW_SECONDS] \in Int
        BY <2>1, VaultConstants
      <3> QED BY <3>1, <3>2 DEF Moved
    <2> QED BY <1>2, <2>2, <2>3
  <1>4. CASE outflows = <<>>
    <2>1. /\ <<>> \in Seq(Checkpoint) /\ Len(<<>>) = 0 /\ \A c \in Nat : Boundary(<<>>, c, 0)
      BY DEF Boundary
    <2>2. Gross(outflows) = 0
      BY <1>4, <2>1 DEF Gross, Cumulative
    <2>3. ~ (now < WINDOW_SECONDS) => UpperBound(outflows, now - WINDOW_SECONDS) = 0
      <3> SUFFICES ASSUME ~ (now < WINDOW_SECONDS)
                   PROVE  UpperBound(outflows, now - WINDOW_SECONDS) = 0
        OBVIOUS
      <3>1. now - WINDOW_SECONDS \in Nat /\ 0 \in 0 .. Len(<<>>)
        BY <1>1, <2>1, VaultConstants
      <3> QED BY <1>4, <2>1, <3>1, UpperBoundIsBoundary
    <2> QED BY <1>2, <2>2, <2>3 DEF RollingTotal, Cumulative
  <1> QED BY <1>1, <1>3, <1>4

\* The vault's own account is true (90-96), and what availableOutflow() reports,
\* transferOut() accepts at once, and no more (78-87 against 131-136).
THEOREM VaultAccountIsTrue == ReservesSpec => []AccountIsTrue
  <1>1. VaultInv => AccountIsTrue
    <2> SUFFICES ASSUME VaultInv PROVE AccountIsTrue
      OBVIOUS
    <2>1. ASSUME NEW i \in DOMAIN Vault!Committed.outflows
          PROVE  Vault!Committed.outflows[i].cumulative
                   = Vault!Committed.spent[Vault!Committed.outflows[i].timestamp]
      <3>1. PICK cps : cps = Vault!Committed.outflows
        OBVIOUS
      <3>2. PICK total : total = Vault!Committed.spent
        OBVIOUS
      <3>3. now \in Nat /\ TrueAccount(cps, total, now, VaultTime) /\ (now <= VaultTime \/ cps = <<>>)
        <4>1. CASE frames = <<>>
          BY <3>1, <3>2, <4>1 DEF VaultInv, Vault!Committed
        <4>2. CASE frames # <<>>
          BY <3>1, <3>2, <4>2, OneCall DEF InTransfer, Vault!Committed
        <4> QED BY <4>1, <4>2
      <3>4. DOMAIN cps = 1 .. Len(cps)
        BY <3>3 DEF TrueAccount
      <3>5. i \in 1 .. Len(cps) /\ now <= VaultTime
        BY <2>1, <3>1, <3>3, <3>4
      <3> QED BY <3>1, <3>2, <3>3, <3>5, VaultConstants, CheckpointsAreTrue
    <2>2. ASSUME frames = <<>>
          PROVE  /\ Vault!availableOutflow > 0 => Vault!Accepts("elsewhere", Vault!availableOutflow)
                 /\ ~ Vault!Accepts("elsewhere", Vault!availableOutflow + 1)
      <3>1. PICK rolling \in Int : rolling = Vault!rollingOutflow
        BY <2>2, RollingOutflowTyped
      <3>2. PICK balance \in Int : balance = balances["reserve"]
        BY VaultConstants DEF VaultInv
      <3>3. PICK out : out = Vault!availableOutflow
        OBVIOUS
      <3>4. entered = FALSE /\ now \in Nat
        BY <2>2 DEF VaultInv
      <3>5. "elsewhere" \notin Vault!Refused \cup {"reserve"}
        BY DEF Vault!Refused
      <3>6. out = IF now < OPENS_AT THEN 0
                  ELSE IF balance < OUTFLOW_CAP - rolling THEN balance ELSE OUTFLOW_CAP - rolling
        BY <3>1, <3>2, <3>3 DEF Vault!availableOutflow
      <3>7. \A amount : Vault!Accepts("elsewhere", amount) <=>
              /\ now >= OPENS_AT /\ amount # 0
              /\ amount <= OUTFLOW_CAP - rolling /\ amount <= balance
        BY <3>1, <3>2, <3>4, <3>5 DEF Vault!Accepts
      <3>8. out > 0 => Vault!Accepts("elsewhere", out)
        BY <3>4, <3>6, <3>7, VaultConstants
      <3>9. ~ Vault!Accepts("elsewhere", out + 1)
        BY <3>4, <3>6, <3>7, VaultConstants
      <3> QED BY <3>3, <3>8, <3>9
    <2> QED BY <2>1, <2>2 DEF AccountIsTrue, Vault!AccountIsTrue
  <1> QED BY <1>1, VaultInvariant, PTL

----------------------------------------------------------------------------
(* The founder's reserve.                                                  *)

\* It computes with the operators of GrantAccounting.
LEMMA FounderOperators ==
  /\ Founder!EmptyGrant = EmptyGrant /\ Founder!Terms = Terms /\ Founder!Time = Time
  /\ Founder!Amount = Amount
  /\ \A terms : Founder!_validate(terms) <=> _validate(terms)
  /\ \A terms, t : Founder!_curve(terms, t) = _curve(terms, t)
  /\ \A g, t : Founder!available(g, t) = available(g, t)
  /\ \A g, t, amount : /\ Founder!ReleaseAllowed(g, t, amount) <=> ReleaseAllowed(g, t, amount)
                       /\ Founder!release(g, t, amount) = release(g, t, amount)
  /\ \A g, terms : /\ Founder!InitializeAllowed(g, terms) <=> InitializeAllowed(g, terms)
                   /\ Founder!initialize(g, terms) = initialize(g, terms)
  /\ \A g, t : Founder!CancelAllowed(g, t) <=> CancelAllowed(g, t)
  <1>1. Founder!EmptyGrant = EmptyGrant
    BY DEF Founder!EmptyGrant, EmptyGrant, Founder!NoPurpose, NoPurpose
  <1>2. Founder!Time = Time /\ Founder!Amount = Amount
    BY DEF Founder!Time, Time, Founder!Amount, Amount
  <1>3. Founder!Terms = Terms
    BY <1>2 DEF Founder!Terms, Terms, Founder!NoPurpose, NoPurpose, Founder!Kind, Kind
  <1>4. \A terms : Founder!_validate(terms) <=> _validate(terms)
    BY DEF Founder!_validate, _validate, Founder!NoPurpose, NoPurpose
  <1>5. \A terms, t : Founder!_curve(terms, t) = _curve(terms, t)
    BY DEF Founder!_curve, _curve, Founder!Accrued, Accrued, Founder!QuotientPart, QuotientPart,
           Founder!RemainderProduct, RemainderProduct
  <1>6. \A g, t : Founder!available(g, t) = available(g, t)
    BY <1>5 DEF Founder!available, available, Founder!_entitlement, _entitlement
  <1>7. \A g, t, amount : /\ Founder!ReleaseAllowed(g, t, amount) <=> ReleaseAllowed(g, t, amount)
                          /\ Founder!release(g, t, amount) = release(g, t, amount)
    BY <1>6 DEF Founder!ReleaseAllowed, ReleaseAllowed, Founder!_requireCurrent, _requireCurrent,
                Founder!release, release
  <1>8. \A g, terms : /\ Founder!InitializeAllowed(g, terms) <=> InitializeAllowed(g, terms)
                      /\ Founder!initialize(g, terms) = initialize(g, terms)
    BY <1>4 DEF Founder!InitializeAllowed, InitializeAllowed, Founder!initialize, initialize
  <1>9. \A g, t : Founder!CancelAllowed(g, t) <=> CancelAllowed(g, t)
    BY DEF Founder!CancelAllowed, CancelAllowed
  <1> QED BY <1>1, <1>2, <1>3, <1>4, <1>5, <1>6, <1>7, <1>8, <1>9

LEMMA FounderArguments ==
  FounderProposals \subseteq Terms /\ Supplies \subseteq Amount /\ Deliveries \subseteq Amount
  BY ReservesAssumption, FounderOperators DEF Founder!ArgumentsTyped

LEMMA FounderStarts == ReservesInit => FounderInv
  <1> SUFFICES ASSUME ReservesInit PROVE FounderInv
    OBVIOUS
  <1>1. MaxTime \in Nat /\ MaxAmount \in Nat
    BY WidthAssumption
  <1>2. /\ grant = EmptyGrant /\ funded = FALSE /\ reserve = 0 /\ held = 0 /\ founder = 0
        /\ supply \in Amount
        /\ now \in Nat /\ (running = "FounderGrantReserve" => now <= MaxTime)
    <2>1. CASE running = "FounderGrantReserve"
      <3>1. Founder!Init
        BY <2>1 DEF ReservesInit
      <3> QED BY <1>1, <3>1, FounderOperators, FounderArguments DEF Founder!Init, Time
    <2>2. CASE running # "FounderGrantReserve"
      <3>1. Init /\ supply = 0 /\ grant = EmptyGrant /\ funded = FALSE
            /\ reserve = 0 /\ held = 0 /\ founder = 0
        BY <2>2 DEF ReservesInit
      <3> QED BY <1>1, <2>2, <3>1 DEF Init, Amount
    <2> QED BY <2>1, <2>2
  <1>3. ~ grant.initialized /\ grant.released = 0
    BY <1>2 DEF EmptyGrant
  <1>4. reserve \in Int /\ held \in Int /\ founder \in Int /\ ~ funded /\ funded \in BOOLEAN
    <2>1. reserve = 0 /\ held = 0 /\ founder = 0 /\ funded = FALSE
      BY <1>2
    <2>2. reserve \in Int /\ held \in Int /\ founder \in Int
      BY <2>1
    <2>3. ~ funded /\ funded \in BOOLEAN
      BY <2>1, Zenon
    <2> QED BY <2>2, <2>3
  <1>5. held = 0 /\ founder = 0 /\ grant = EmptyGrant
    BY <1>2
  <1>6. /\ supply \in Amount /\ now \in Nat
        /\ (running = "FounderGrantReserve" => now <= MaxTime)
    BY <1>2
  <1> HIDE <1>2
  <1> QED BY <1>3, <1>4, <1>5, <1>6, Zenon DEF FounderInv

\* The constructor accepts three percent to the token, or nothing.
LEMMA ThreePercentExact ==
  ASSUME NEW s \in Nat, s % 100 = 0, NEW a \in Nat, a = (s \div 100) * 3
  PROVE  100 * a = 3 * s
  <1>1. s \div 100 \in Nat /\ s = 100 * (s \div 100) + (s % 100)
    BY DivMod
  <1> QED BY <1>1

LEMMA FounderConstructs ==
  ASSUME FounderInv, running = "FounderGrantReserve", running' = running,
         NEW terms \in Terms, NEW same, Founder!Construct(terms, same)
  PROVE  FounderInv'
  <1>1. /\ Founder!ThreePercent(terms) /\ terms.kind = "Founder"
        /\ InitializeAllowed(grant, terms) /\ grant' = initialize(grant, terms)
        /\ UNCHANGED <<now, supply, funded, reserve, held, founder>>
    BY FounderOperators DEF Founder!Construct
  <1>2. ~ grant.initialized /\ _validate(terms)
    BY <1>1 DEF InitializeAllowed
  <1>3. /\ grant = EmptyGrant /\ ~ funded /\ held = 0 /\ founder = 0
        /\ now \in Nat /\ now <= MaxTime /\ supply \in Amount
    BY <1>2 DEF FounderInv
  <1>4. PICK g : g = initialize(EmptyGrant, terms)
    OBVIOUS
  <1>5. /\ Sound(g) /\ g.terms = terms /\ g.released = 0 /\ g.lastTransition = 0 /\ ~ g.cancelled
        /\ g.initialized
    BY <1>2, <1>4, InitializeSound DEF Sound
  <1>6. 100 * terms.allocation = 3 * supply
    <2>1. supply \in Nat /\ terms.allocation \in Nat
      BY <1>3, WidthAssumption DEF Amount, Terms
    <2> QED BY <1>1, <2>1, ThreePercentExact DEF Founder!ThreePercent
  <1>7. grant' = g
    BY <1>1, <1>3, <1>4
  <1> QED BY <1>1, <1>3, <1>5, <1>6, <1>7 DEF FounderInv

\* The transitions of a funded grant keep it sound and the vault solvent.
LEMMA FounderMoves ==
  ASSUME FounderInv, running = "FounderGrantReserve", running' = running,
         Founder!Fund \/ Founder!Release \/ Founder!Cancel
  PROVE  FounderInv'
  <1>0. /\ now \in Nat /\ now <= MaxTime /\ now \in Time
        /\ supply \in Amount /\ reserve \in Int /\ held \in Int /\ founder \in Int
    BY WidthAssumption DEF FounderInv, Time
  <1>1. CASE Founder!Fund
    <2>1. /\ grant.initialized /\ ~ funded /\ funded' = TRUE
          /\ reserve' = reserve - grant.terms.allocation /\ held' = held + grant.terms.allocation
          /\ UNCHANGED <<now, supply, grant, founder>>
      BY <1>1 DEF Founder!Fund
    <2>2. grant.terms.allocation \in Nat /\ grant.released = 0 /\ held = 0 /\ founder = 0
      BY <2>1, WidthAssumption DEF FounderInv, Sound, Grant, Terms, Amount
    <2> QED BY <1>0, <2>1, <2>2 DEF FounderInv
  <1>2. CASE Founder!Release
    <2>1. PICK amount : amount = available(grant, now)
      OBVIOUS
    <2>2. /\ funded /\ ReleaseAllowed(grant, now, amount)
          /\ grant' = release(grant, now, amount)
          /\ held' = held - amount /\ founder' = founder + amount
          /\ UNCHANGED <<now, supply, funded, reserve>>
      BY <1>2, <2>1, FounderOperators DEF Founder!Release
    <2>3. /\ grant.initialized /\ Sound(grant) /\ grant.terms.kind = "Founder" /\ ~ grant.cancelled
          /\ 100 * grant.terms.allocation = 3 * supply
          /\ held = grant.terms.allocation - grant.released /\ founder = grant.released
          /\ grant.lastTransition <= now
      BY <2>2 DEF FounderInv
    <2>4. amount \in Nat
      <3>1. /\ _entitlement(grant, now) \in Amount /\ grant.released <= _entitlement(grant, now)
        BY <1>0, <2>3, SoundCovers
      <3>2. grant.released \in Nat
        BY <2>3, WidthAssumption DEF Sound, Grant, Amount
      <3> QED BY <2>1, <3>1, <3>2, WidthAssumption DEF available, Amount
    <2>5. PICK g : g = release(grant, now, amount)
      OBVIOUS
    <2>6. /\ Sound(g) /\ g.terms = grant.terms /\ g.released = grant.released + amount
          /\ g.lastTransition = now /\ g.cancelled = grant.cancelled
      BY <1>0, <2>2, <2>3, <2>4, <2>5, ReleaseSound
    <2>7. g.initialized /\ grant' = g
      BY <2>2, <2>5, <2>6 DEF Sound
    <2>8. grant.released \in Nat /\ grant.terms.allocation \in Nat
      BY <2>3, WidthAssumption DEF Sound, Grant, Terms, Amount
    <2> QED BY <1>0, <2>2, <2>3, <2>4, <2>6, <2>7, <2>8 DEF FounderInv
  <1>3. CASE Founder!Cancel
    <2>1. funded
      BY <1>3 DEF Founder!Cancel
    <2>2. grant.terms.kind = "Founder"
      BY <2>1 DEF FounderInv
    <2>3. ~ Founder!CancelAllowed(grant, now)
      BY <2>2, FounderOperators DEF CancelAllowed
    <2>4. UNCHANGED <<now, supply, grant, funded, reserve, held, founder>>
      BY <1>3, <2>3 DEF Founder!Cancel, Founder!vars
    <2> QED BY <2>4 DEF FounderInv
  <1> QED BY <1>1, <1>2, <1>3

\* Time passes, and the other contracts run, over a founder's grant.
LEMMA OthersKeepFounder ==
  ASSUME FounderInv, now' \in Nat, now <= now', running' = running,
         running = "FounderGrantReserve" => now' <= MaxTime,
         UNCHANGED <<supply, grant, funded, held, founder>>, reserve' \in Int
  PROVE  FounderInv'
  <1>1. grant.initialized => grant.lastTransition \in Nat
    BY WidthAssumption DEF FounderInv, Sound, Grant, Time
  <1>2. now \in Nat
    BY DEF FounderInv
  <1>3. grant.initialized => grant.lastTransition <= now'
    BY <1>1, <1>2 DEF FounderInv
  <1> QED BY <1>3 DEF FounderInv

LEMMA FounderKeeps == FounderInv /\ [ReservesNext]_reservesVars => FounderInv'
  <1> SUFFICES ASSUME FounderInv, [ReservesNext]_reservesVars PROVE FounderInv'
    OBVIOUS
  <1>0. now \in Nat /\ reserve \in Int
    BY DEF FounderInv
  <1>1. now' \in Nat /\ now <= now'
    BY <1>0, ClockAdvances
  <1>2. CASE UNCHANGED reservesVars
    <2>1. UNCHANGED <<running, now, supply, grant, funded, reserve, held, founder>>
      BY <1>2 DEF reservesVars, vars, founderVars
    <2> QED BY <2>1 DEF FounderInv
  <1>3. CASE RunController \/ RunVault \/ RunGrant
    <2>1. running # "FounderGrantReserve" /\ running' = running /\ UNCHANGED founderVars
      BY <1>3 DEF RunController, RunVault, RunGrant
    <2> QED BY <1>0, <1>1, <2>1, OthersKeepFounder DEF founderVars
  <1>4. CASE RunFounder
    <2>0. running = "FounderGrantReserve" /\ running' = running /\ Founder!Next
      BY <1>4 DEF RunFounder
    <2>1. ASSUME NEW terms \in FounderProposals, NEW same \in BOOLEAN,
                 Founder!Construct(terms, same)
          PROVE  FounderInv'
      BY <2>0, <2>1, FounderArguments, FounderConstructs
    <2>2. CASE Founder!Fund \/ Founder!Release \/ Founder!Cancel
      BY <2>0, <2>2, FounderMoves
    <2>3. ASSUME NEW amount \in Deliveries, Founder!Deliver(amount)
          PROVE  FounderInv'
      <3>1. amount \in Nat
        BY FounderArguments, WidthAssumption DEF Amount
      <3>2. /\ reserve' = reserve + amount
            /\ UNCHANGED <<now, supply, grant, funded, held, founder>>
        BY <2>3 DEF Founder!Deliver
      <3>3. reserve' \in Int /\ now' <= MaxTime
        BY <1>0, <2>0, <3>1, <3>2 DEF FounderInv
      <3> QED BY <1>1, <2>0, <3>2, <3>3, OthersKeepFounder
    <2>4. CASE Founder!Tick
      <3>1. /\ now < MaxTime /\ now' = now + 1
            /\ UNCHANGED <<supply, grant, funded, reserve, held, founder>>
        BY <2>4 DEF Founder!Tick
      <3>2. now' <= MaxTime
        BY <1>0, <3>1, WidthAssumption
      <3> QED BY <1>0, <1>1, <2>0, <3>1, <3>2, OthersKeepFounder
    <2> QED BY <2>0, <2>1, <2>2, <2>3, <2>4 DEF Founder!Next
  <1> QED BY <1>2, <1>3, <1>4 DEF ReservesNext

THEOREM FounderInvariant == ReservesSpec => []FounderInv
  <1> QED BY FounderStarts, FounderKeeps, PTL DEF ReservesSpec

\* A funded founder's reserve holds or has paid exactly three percent of the
\* supply, and pays what has accrued at any time, the whole when accrual has
\* ended (FounderGrantReserve.sol 26-44): for every supply, every schedule and
\* every history of deliveries, claims and attempts to cancel.
THEOREM FoundersArePaid == ReservesSpec => []FounderIsPaid
  <1>1. FounderInv => FounderIsPaid
    <2> SUFFICES ASSUME FounderInv PROVE FounderIsPaid
      OBVIOUS
    <2>1. CASE ~ funded
      BY <2>1 DEF FounderInv, FounderIsPaid, Founder!FounderIsPaid,
                  Founder!FounderHasThreePercent, Founder!AccruedIsPayable
    <2>2. CASE funded
      <3>1. /\ Sound(grant) /\ ~ grant.cancelled /\ grant.lastTransition <= now
            /\ now \in Nat /\ now <= MaxTime
            /\ 100 * grant.terms.allocation = 3 * supply
            /\ held = grant.terms.allocation - grant.released /\ founder = grant.released
        BY <2>2 DEF FounderInv
      <3>2. /\ now \in Time /\ grant.released \in Nat /\ grant.terms.allocation \in Nat
            /\ grant.terms.cliff \in Nat /\ grant.terms.end \in Nat
            /\ grant.terms.cliff < grant.terms.end
        BY <3>1, WidthAssumption DEF Sound, Grant, Terms, Amount, Time, _validate
      <3>3. /\ _entitlement(grant, now) \in Nat
            /\ _entitlement(grant, now) <= grant.terms.allocation
            /\ grant.released <= _entitlement(grant, now)
        BY <3>1, <3>2, SoundCovers, WidthAssumption DEF Amount
      <3>4. now >= grant.terms.end => _entitlement(grant, now) = grant.terms.allocation
        BY <3>1, <3>2 DEF _entitlement, _curve
      <3>5. Founder!available(grant, now) = _entitlement(grant, now) - grant.released
        BY FounderOperators DEF available
      <3>6. 0 <= Founder!available(grant, now) /\ Founder!available(grant, now) <= held
        BY <3>1, <3>2, <3>3, <3>5
      <3>7. now >= grant.terms.end => Founder!available(grant, now) = held
        BY <3>1, <3>4, <3>5
      <3>8. 100 * (held + founder) = 3 * supply
        BY <3>1, <3>2
      <3> QED BY <2>2, <3>6, <3>7, <3>8 DEF FounderIsPaid, Founder!FounderIsPaid,
                  Founder!FounderHasThreePercent, Founder!AccruedIsPayable
    <2> QED BY <2>1, <2>2
  <1> QED BY <1>1, FounderInvariant, PTL
----------------------------------------------------------------------------
(* The grant vault.  Its theorems are proved where it stands alone         *)
(* (GrantVaultProofs); here they are carried over to the run of this       *)
(* composition, of which it is one component among four.                   *)

Grants == INSTANCE GrantVaultProofs
            WITH Proposals <- GrantProposals, Accounts <- GrantAccounts,
                 vault <- grantVault, bal <- grantBalances, frames <- calls

\* The vault of the composition and the vault of the theorems are one.
LEMMA OneVault ==
  /\ GrantsVault!Init => Grants!Init
  /\ GrantsVault!Next => Grants!Next
  BY DEF GrantsVault!Init, Grants!Init, GrantsVault!Next, Grants!Next,
         GrantsVault!Construct, Grants!Construct, GrantsVault!Fund, Grants!Fund,
         GrantsVault!Release, Grants!Release, GrantsVault!Cancel, Grants!Cancel,
         GrantsVault!CancelVested, Grants!CancelVested, GrantsVault!Finish, Grants!Finish,
         GrantsVault!TokenMoves, Grants!TokenMoves, GrantsVault!TokenReturnsFalse,
         Grants!TokenReturnsFalse, GrantsVault!TokenReverts, Grants!TokenReverts,
         GrantsVault!Outside, Grants!Outside, GrantsVault!Tick, Grants!Tick,
         GrantsVault!Zero, Grants!Zero, GrantsVault!NoVault, Grants!NoVault, GrantsVault!NoFlow,
         Grants!NoFlow, GrantsVault!_currentTime, Grants!_currentTime, GrantsVault!nonReentrant,
         Grants!nonReentrant, GrantsVault!_requireMovement, Grants!_requireMovement,
         GrantsVault!Balances, Grants!Balances, GrantsVault!Call, Grants!Call, GrantsVault!Top,
         Grants!Top, GrantsVault!Pop, Grants!Pop, GrantsVault!Rollback, Grants!Rollback,
         GrantsVault!Moved, Grants!Moved, GrantsVault!Gain, Grants!Gain,
         GrantsVault!NoPurpose, Grants!NoPurpose, GrantsVault!EmptyGrant, Grants!EmptyGrant,
         GrantsVault!Time, Grants!Time, GrantsVault!Amount, Grants!Amount, GrantsVault!Accrued,
         Grants!Accrued, GrantsVault!QuotientPart, Grants!QuotientPart,
         GrantsVault!RemainderProduct, Grants!RemainderProduct, GrantsVault!_curve,
         Grants!_curve, GrantsVault!_validate, Grants!_validate, GrantsVault!_requireCurrent,
         Grants!_requireCurrent, GrantsVault!_entitlement, Grants!_entitlement,
         GrantsVault!available, Grants!available, GrantsVault!InitializeAllowed,
         Grants!InitializeAllowed, GrantsVault!initialize, Grants!initialize,
         GrantsVault!ReleaseAllowed, Grants!ReleaseAllowed, GrantsVault!release, Grants!release,
         GrantsVault!CancelAllowed, Grants!CancelAllowed, GrantsVault!cancel, Grants!cancel,
         GrantsVault!refund, Grants!refund

\* What the theorems assume of the constants is assumed here.
LEMMA GrantArguments == Grants!BindingAssumption /\ Grants!WidthAssumption
  BY ReservesAssumption, WidthAssumption
     DEF GrantsVault!BindingAssumption, Grants!BindingAssumption, Grants!WidthAssumption,
         GrantsVault!Terms, Grants!Terms, GrantsVault!Amount, Grants!Amount, GrantsVault!Time,
         Grants!Time, GrantsVault!Kind, Grants!Kind, GrantsVault!Zero, Grants!Zero,
         GrantsVault!NoPurpose, Grants!NoPurpose

RunsGrant == running = "GrantVault"

\* While the grant vault runs, every step of the composition is one of its.
LEMMA GrantRuns == ReservesSpec /\ RunsGrant => Grants!Spec
  <1>1. ReservesInit /\ RunsGrant => Grants!Init
    BY OneVault DEF ReservesInit, RunsGrant
  <1>2. RunsGrant /\ [ReservesNext]_reservesVars => RunsGrant' /\ [Grants!Next]_(Grants!vars)
    BY OneVault DEF ReservesNext, RunController, RunFounder, RunVault, RunGrant, reservesVars,
                    grantVars, vars, Grants!vars, RunsGrant
  <1> QED BY <1>1, <1>2, PTL DEF ReservesSpec, Grants!Spec

\* While another component runs, no grant vault is deployed.
Undeployed ==
  /\ running # "GrantVault" /\ now \in Nat
  /\ grantVault = GrantsVault!NoVault /\ flow = GrantsVault!NoFlow /\ calls = <<>>

LEMMA GrantRests == ReservesSpec /\ ~ RunsGrant => []Undeployed
  <1>1. ReservesInit /\ ControllerInv /\ ~ RunsGrant => Undeployed
    BY DEF ReservesInit, ControllerInv, Undeployed, RunsGrant
  <1>2. Undeployed /\ ControllerInv' /\ [ReservesNext]_reservesVars => Undeployed'
    BY DEF ReservesNext, RunController, RunFounder, RunVault, RunGrant, reservesVars, grantVars,
           ControllerInv, Undeployed
  <1> QED BY <1>1, <1>2, ControllerInvariant, PTL DEF ReservesSpec

\* The grant vault can pay what it may be asked to pay, and no claim fails on the
\* clock or the subtraction (GrantVault.sol 80-165): for every width, terms,
\* holders, fees, gifts and depth of nesting.
THEOREM ClaimsArePayable == ReservesSpec => []EveryClaimIsPayable
  <1>1. Grants!Spec => []Grants!EveryClaimIsPayable
    BY GrantArguments, Grants!ClaimsArePayable
  <1>2. Grants!EveryClaimIsPayable => EveryClaimIsPayable
    BY DEF EveryClaimIsPayable, GrantsVault!EveryClaimIsPayable, Grants!EveryClaimIsPayable,
           GrantsVault!Committed, Grants!Committed, GrantsVault!Liability, Grants!Liability,
           GrantsVault!_requireCurrent, Grants!_requireCurrent, GrantsVault!_entitlement,
           Grants!_entitlement, GrantsVault!_curve, Grants!_curve, GrantsVault!Accrued,
           Grants!Accrued, GrantsVault!QuotientPart, Grants!QuotientPart,
           GrantsVault!RemainderProduct, Grants!RemainderProduct, GrantsVault!Time, Grants!Time
  <1>3. Undeployed => EveryClaimIsPayable
    BY DEF Undeployed, EveryClaimIsPayable, GrantsVault!EveryClaimIsPayable,
           GrantsVault!Committed, GrantsVault!NoVault
  <1> QED BY <1>1, <1>2, <1>3, GrantRuns, GrantRests, PTL

\* Between transactions the tokens that moved are exactly those the storage
\* claims (GrantVault.sol 80-150).
THEOREM PaymentIsAccounted == ReservesSpec => []AccountingIsPayment
  <1>1. Grants!Spec => []Grants!AccountingIsPayment
    BY GrantArguments, Grants!PaymentIsAccounted
  <1>2. Grants!AccountingIsPayment => AccountingIsPayment
    BY DEF AccountingIsPayment, GrantsVault!AccountingIsPayment, Grants!AccountingIsPayment,
           GrantsVault!Committed, Grants!Committed
  <1>3. Undeployed => AccountingIsPayment
    BY DEF Undeployed, AccountingIsPayment, GrantsVault!AccountingIsPayment,
           GrantsVault!Committed, GrantsVault!NoVault, GrantsVault!NoFlow,
           GrantsVault!EmptyGrant
  <1> QED BY <1>1, <1>2, <1>3, GrantRuns, GrantRests, PTL

\* The grant vault implements the promise (GrantVault.sol 80-150); while it is
\* not deployed, only the promise's clock advances.
THEOREM VaultImplementsPromise == ReservesSpec => ImplementsPromise
  <1>1. Grants!Spec => Grants!ImplementsPromise
    BY GrantArguments, Grants!VaultImplementsPromise
  <1>2. /\ Grants!Promise!Init => GrantsVault!Promise!Init
        /\ [Grants!Promise!Next]_(Grants!Promise!promise)
             => [GrantsVault!Promise!Next]_(GrantsVault!Promise!promise)
    BY DEF GrantsVault!Committed, Grants!Committed,
           GrantsVault!Promise!Init, Grants!Promise!Init, GrantsVault!Promise!Next,
           Grants!Promise!Next, GrantsVault!Promise!Agree, Grants!Promise!Agree,
           GrantsVault!Promise!Deposit, Grants!Promise!Deposit, GrantsVault!Promise!Pay,
           Grants!Promise!Pay, GrantsVault!Promise!Revoke, Grants!Promise!Revoke,
           GrantsVault!Promise!Elapse, Grants!Promise!Elapse, GrantsVault!Promise!Owed,
           Grants!Promise!Owed, GrantsVault!Promise!Vested, Grants!Promise!Vested,
           GrantsVault!Promise!promise, Grants!Promise!promise
  <1>3. Undeployed => GrantsVault!Promise!Init
    BY DEF Undeployed, GrantsVault!Promise!Init, GrantsVault!Committed, GrantsVault!NoVault,
           GrantsVault!NoFlow, GrantsVault!EmptyGrant
  <1>4. Undeployed /\ Undeployed' /\ [ReservesNext]_reservesVars
          => [GrantsVault!Promise!Next]_(GrantsVault!Promise!promise)
    <2> SUFFICES ASSUME Undeployed, Undeployed', [ReservesNext]_reservesVars
                 PROVE  [GrantsVault!Promise!Next]_(GrantsVault!Promise!promise)
      OBVIOUS
    <2>1. now' \in Nat /\ now <= now'
      BY ClockAdvances DEF Undeployed
    <2>2. grantVault' = grantVault /\ flow' = flow /\ calls = <<>> /\ calls' = <<>>
      BY DEF Undeployed
    <2>3. GrantsVault!Committed'.vault = GrantsVault!Committed.vault
          /\ GrantsVault!Committed'.flow = GrantsVault!Committed.flow
      BY <2>2 DEF GrantsVault!Committed
    <2>4. CASE now' = now
      BY <2>3, <2>4 DEF GrantsVault!Promise!promise
    <2>5. CASE now' > now
      BY <2>3, <2>5 DEF GrantsVault!Promise!Next, GrantsVault!Promise!Elapse
    <2> QED BY <2>1, <2>4, <2>5 DEF Undeployed
  <1>5. ReservesSpec /\ RunsGrant => ImplementsPromise
    BY <1>1, <1>2, GrantRuns, PTL
       DEF ImplementsPromise, GrantsVault!ImplementsPromise, Grants!ImplementsPromise,
           GrantsVault!Promise!Spec, Grants!Promise!Spec
  <1>6. ReservesSpec /\ ~ RunsGrant => ImplementsPromise
    BY <1>3, <1>4, GrantRests, PTL
       DEF ReservesSpec, ImplementsPromise, GrantsVault!ImplementsPromise,
           GrantsVault!Promise!Spec
  <1> QED BY <1>5, <1>6
=============================================================================
