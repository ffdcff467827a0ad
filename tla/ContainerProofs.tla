-------------------------- MODULE ContainerProofs --------------------------
(***************************************************************************)
(* The containers behind IContainer, for any values and array capacity,    *)
(* and the tables that the demos print of two snapshots, for any ledgers:  *)
(* both rest on sums and counts that no order changes.                     *)
(***************************************************************************)
EXTENDS StorageProofs, MemoryDelta, SoulContainers

-----------------------------------------------------------------------------
(* Sums.                                                                   *)

\* b lists the set P, and sp are the sums of the weights w along it.
Along(P, w, c, b, sp) ==
  /\ c \in Nat /\ b \in [1..c -> P] /\ sp \in [0..c -> Int] /\ sp[0] = 0
  /\ \A i, j \in 1..c : b[i] = b[j] => i = j
  /\ \A p \in P : \E i \in 1..c : b[i] = p
  /\ \A p \in P : w[p] \in Int
  /\ \A k \in 1..c : sp[k] = sp[k - 1] + w[b[k]]

\* The weights of P, which has c members, add up to n.
AddsIn(P, w, c, n) == \E b, sp : Along(P, w, c, b, sp) /\ n = sp[c]
AddsUp(P, w, n) == \E c : AddsIn(P, w, c, n)

\* Nothing adds up to 0.
LEMMA AddsNothing ==
  ASSUME NEW w
  PROVE  AddsUp({}, w, 0)
<1>1. PICK b, sp : b = [i \in 1..0 |-> 0] /\ sp = [i \in 0..0 |-> 0]
  BY Zenon
<1>2. b \in [1..0 -> {}] /\ sp \in [0..0 -> Int] /\ sp[0] = 0 /\ 0 \in Nat /\ 1..0 = {}
  BY <1>1
<1>3. Along({}, w, 0, b, sp)
  BY <1>2 DEF Along
<1> QED BY <1>2, <1>3, Zenon DEF AddsUp, AddsIn

\* Two sets that have nothing in common.
LEMMA AddsBoth ==
  ASSUME NEW P, NEW Q, NEW w, NEW n, NEW m, P \cap Q = {}, AddsUp(P, w, n), AddsUp(Q, w, m)
  PROVE  AddsUp(P \cup Q, w, n + m)
<1>1. PICK c, b, sp : Along(P, w, c, b, sp) /\ n = sp[c]
  BY DEF AddsUp, AddsIn
<1>2. PICK d, a, sq : Along(Q, w, d, a, sq) /\ m = sq[d]
  BY DEF AddsUp, AddsIn
<1>3. /\ c \in Nat /\ b \in [1..c -> P] /\ sp \in [0..c -> Int] /\ sp[0] = 0
      /\ \A i, j \in 1..c : b[i] = b[j] => i = j
      /\ \A p \in P : \E i \in 1..c : b[i] = p
      /\ \A p \in P : w[p] \in Int
      /\ \A k \in 1..c : sp[k] = sp[k - 1] + w[b[k]]
  BY <1>1 DEF Along
<1>4. /\ d \in Nat /\ a \in [1..d -> Q] /\ sq \in [0..d -> Int] /\ sq[0] = 0
      /\ \A i, j \in 1..d : a[i] = a[j] => i = j
      /\ \A p \in Q : \E i \in 1..d : a[i] = p
      /\ \A p \in Q : w[p] \in Int
      /\ \A k \in 1..d : sq[k] = sq[k - 1] + w[a[k]]
  BY <1>2 DEF Along
<1>5. PICK N, f, u : /\ N = c + d
                     /\ f = [i \in 1..(c + d) |-> IF i <= c THEN b[i] ELSE a[i - c]]
                     /\ u = [i \in 0..(c + d) |-> IF i <= c THEN sp[i] ELSE sp[c] + sq[i - c]]
  BY Zenon
<1>6. \A i \in 1..N : i <= c => i \in 1..c /\ f[i] = b[i] /\ f[i] \in P
  BY <1>3, <1>4, <1>5
<1>7. \A i \in 1..N : ~(i <= c) => i - c \in 1..d /\ f[i] = a[i - c] /\ f[i] \in Q
  BY <1>3, <1>4, <1>5
<1>8. N \in Nat /\ f \in [1..N -> P \cup Q]
  <2>1. f = [i \in 1..N |-> IF i <= c THEN b[i] ELSE a[i - c]]
    BY <1>5
  <2>2. \A i \in 1..N : f[i] \in P \cup Q
    BY <1>6, <1>7
  <2>3. N \in Nat BY <1>3, <1>4, <1>5
  <2> QED BY <2>1, <2>2, <2>3
<1>9. \A i, j \in 1..N : f[i] = f[j] => i = j
  <2> SUFFICES ASSUME NEW i \in 1..N, NEW j \in 1..N, f[i] = f[j] PROVE i = j
    OBVIOUS
  <2>1. CASE i <= c /\ j <= c
    BY <1>3, <1>6, <2>1
  <2>2. CASE ~(i <= c) /\ ~(j <= c)
    <3>1. i - c = j - c BY <1>4, <1>7, <2>2
    <3> QED BY <1>3, <1>8, <3>1
  <2>3. CASE (i <= c /\ ~(j <= c)) \/ (~(i <= c) /\ j <= c)
    BY <1>6, <1>7, <2>3
  <2> QED BY <2>1, <2>2, <2>3
<1>10. \A p \in P \cup Q : \E i \in 1..N : f[i] = p
  <2> SUFFICES ASSUME NEW p \in P \cup Q PROVE \E i \in 1..N : f[i] = p
    OBVIOUS
  <2>1. CASE p \in P
    <3>1. PICK i \in 1..c : b[i] = p BY <1>3, <2>1
    <3>2. i \in 1..N /\ i <= c BY <1>3, <1>4, <1>5
    <3> QED BY <1>6, <3>1, <3>2
  <2>2. CASE p \in Q
    <3>1. PICK i \in 1..d : a[i] = p BY <1>4, <2>2
    <3>2. i + c \in 1..N /\ ~(i + c <= c) /\ (i + c) - c = i BY <1>3, <1>4, <1>5
    <3> QED BY <1>7, <3>1, <3>2
  <2> QED BY <2>1, <2>2
<1>11. sp[c] \in Int /\ \A k \in 0..d : sq[k] \in Int
  BY <1>3, <1>4
<1>12. u \in [0..N -> Int] /\ u[0] = 0
  <2>1. u = [i \in 0..N |-> IF i <= c THEN sp[i] ELSE sp[c] + sq[i - c]]
    BY <1>5
  <2>2. \A i \in 0..N : (IF i <= c THEN sp[i] ELSE sp[c] + sq[i - c]) \in Int
    <3> SUFFICES ASSUME NEW i \in 0..N PROVE (IF i <= c THEN sp[i] ELSE sp[c] + sq[i - c]) \in Int
      OBVIOUS
    <3>1. CASE i <= c BY <1>3, <3>1
    <3>2. CASE ~(i <= c)
      <4>1. i - c \in 0..d BY <1>3, <1>4, <1>5, <3>2
      <4> QED BY <1>11, <3>2, <4>1
    <3> QED BY <3>1, <3>2
  <2>3. 0 \in 0..N /\ 0 <= c BY <1>3, <1>8
  <2> QED BY <1>3, <2>1, <2>2, <2>3
<1>13. \A k \in 1..N : u[k] = u[k - 1] + w[f[k]]
  <2> SUFFICES ASSUME NEW k \in 1..N PROVE u[k] = u[k - 1] + w[f[k]]
    OBVIOUS
  <2>1. k \in 0..N /\ k - 1 \in 0..N BY <1>8
  <2>2. \A i \in 0..N : u[i] = IF i <= c THEN sp[i] ELSE sp[c] + sq[i - c]
    BY <1>5
  <2>3. CASE k <= c
    <3>1. k \in 1..c /\ k - 1 <= c BY <1>3, <2>3
    <3>2. u[k] = sp[k] /\ u[k - 1] = sp[k - 1] /\ f[k] = b[k]
      BY <1>6, <2>1, <2>2, <2>3, <3>1
    <3> QED BY <1>3, <3>1, <3>2
  <2>4. CASE ~(k <= c)
    <3>1. PICK x : x = k - c BY Zenon
    <3>2. x \in 1..d /\ x - 1 \in 0..d /\ x \in 0..d /\ f[k] = a[x] BY <1>3, <1>4, <1>7, <2>4, <3>1
    <3>3. sq[x] = sq[x - 1] + w[a[x]] /\ w[a[x]] \in Int /\ sq[x] \in Int /\ sq[x - 1] \in Int BY <1>4, <3>2
    <3>4. u[k] = sp[c] + sq[x] BY <2>1, <2>2, <2>4, <3>1
    <3>5. u[k - 1] = sp[c] + sq[x - 1]
      <4>1. CASE k - 1 <= c
        <5>1. k - 1 = c /\ x - 1 = 0 BY <1>3, <2>4, <3>1, <4>1
        <5> QED BY <1>4, <1>11, <2>1, <2>2, <5>1
      <4>2. CASE ~(k - 1 <= c)
        <5>1. (k - 1) - c = x - 1 BY <1>3, <3>1
        <5> QED BY <2>1, <2>2, <4>2, <5>1
      <4> QED BY <4>1, <4>2
    <3> QED BY <1>11, <3>2, <3>3, <3>4, <3>5
  <2> QED BY <2>3, <2>4
<1>14. u[N] = n + m
  <2>1. \A i \in 0..N : u[i] = IF i <= c THEN sp[i] ELSE sp[c] + sq[i - c]
    BY <1>5
  <2>2. N \in 0..N BY <1>8
  <2>3. CASE N <= c
    <3>1. N = c /\ d = 0 BY <1>3, <1>4, <1>5, <2>3
    <3> QED BY <1>1, <1>2, <1>4, <1>11, <2>1, <2>2, <3>1
  <2>4. CASE ~(N <= c)
    <3>1. N - c = d BY <1>3, <1>4, <1>5
    <3> QED BY <1>1, <1>2, <2>1, <2>2, <2>4, <3>1
  <2> QED BY <2>3, <2>4
<1>15. Along(P \cup Q, w, N, f, u)
  BY <1>3, <1>4, <1>8, <1>9, <1>10, <1>12, <1>13 DEF Along
<1> QED BY <1>14, <1>15, Zenon DEF AddsUp, AddsIn

\* A set without one of its members.
LEMMA AddsLess ==
  ASSUME NEW P, NEW w, NEW c, NEW b, NEW sp, Along(P, w, c, b, sp), NEW j, j \in 1..c,
         NEW y, y = b[j], NEW d, d = c - 1, NEW n, n = sp[c] - w[y]
  PROVE  AddsIn(P \ {y}, w, d, n)
<1>1. /\ c \in Nat /\ b \in [1..c -> P] /\ sp \in [0..c -> Int] /\ sp[0] = 0
      /\ \A i, k \in 1..c : b[i] = b[k] => i = k
      /\ \A p \in P : \E i \in 1..c : b[i] = p
      /\ \A p \in P : w[p] \in Int
      /\ \A k \in 1..c : sp[k] = sp[k - 1] + w[b[k]]
  BY DEF Along
<1>2. PICK N, x, f, u : /\ N = c - 1 /\ x = b[j]
                        /\ f = [i \in 1..(c - 1) |-> IF i < j THEN b[i] ELSE b[i + 1]]
                        /\ u = [i \in 0..(c - 1) |-> IF i < j THEN sp[i] ELSE sp[i + 1] - w[b[j]]]
  BY Zenon
<1>3. N \in Nat /\ x \in P /\ w[x] \in Int
  BY <1>1, <1>2
<1>4. \A i \in 1..N : i < j => i \in 1..c /\ i # j /\ f[i] = b[i]
  BY <1>1, <1>2
<1>5. \A i \in 1..N : ~(i < j) => i + 1 \in 1..c /\ i + 1 # j /\ f[i] = b[i + 1]
  BY <1>1, <1>2
<1>6. \A i \in 1..N : f[i] \in P \ {x}
  BY <1>1, <1>2, <1>4, <1>5
<1>7. f \in [1..N -> P \ {x}]
  BY <1>2, <1>6
<1>8. \A i, k \in 1..N : f[i] = f[k] => i = k
  <2> SUFFICES ASSUME NEW i \in 1..N, NEW k \in 1..N, f[i] = f[k] PROVE i = k
    OBVIOUS
  <2>1. CASE i < j /\ k < j BY <1>1, <1>4, <2>1
  <2>2. CASE ~(i < j) /\ ~(k < j)
    <3>1. i + 1 = k + 1 BY <1>1, <1>5, <2>2
    <3> QED BY <1>3, <3>1
  <2>3. CASE i < j /\ ~(k < j)
    <3>1. i = k + 1 BY <1>1, <1>4, <1>5, <2>3
    <3> QED BY <1>1, <1>3, <2>3, <3>1
  <2>4. CASE ~(i < j) /\ k < j
    <3>1. k = i + 1 BY <1>1, <1>4, <1>5, <2>4
    <3> QED BY <1>1, <1>3, <2>4, <3>1
  <2> QED BY <2>1, <2>2, <2>3, <2>4
<1>9. \A p \in P \ {x} : \E i \in 1..N : f[i] = p
  <2> SUFFICES ASSUME NEW p \in P \ {x} PROVE \E i \in 1..N : f[i] = p
    OBVIOUS
  <2>1. PICK i \in 1..c : b[i] = p BY <1>1
  <2>2. i # j BY <1>2, <2>1
  <2>3. CASE i < j
    <3>1. i \in 1..N BY <1>1, <1>2, <2>3
    <3> QED BY <1>4, <2>1, <2>3, <3>1
  <2>4. CASE ~(i < j)
    <3>1. i - 1 \in 1..N /\ ~(i - 1 < j) /\ (i - 1) + 1 = i BY <1>1, <1>2, <2>2, <2>4
    <3> QED BY <1>5, <2>1, <3>1
  <2> QED BY <2>3, <2>4
<1>10. \A i \in 0..N : u[i] = IF i < j THEN sp[i] ELSE sp[i + 1] - w[x]
  BY <1>2
<1>11. \A i \in 0..c : sp[i] \in Int
  BY <1>1
<1>12. u \in [0..N -> Int] /\ u[0] = 0
  <2>1. \A i \in 0..N : u[i] \in Int
    <3> SUFFICES ASSUME NEW i \in 0..N PROVE u[i] \in Int
      OBVIOUS
    <3>1. i \in 0..c /\ i + 1 \in 0..c BY <1>1, <1>2
    <3>2. sp[i] \in Int /\ sp[i + 1] \in Int BY <1>11, <3>1
    <3> QED BY <1>3, <1>10, <3>2
  <2>2. 0 \in 0..N /\ 0 < j BY <1>1, <1>3
  <2> QED BY <1>1, <1>2, <1>10, <2>1, <2>2
<1>13. ASSUME NEW k \in 1..N PROVE u[k] = u[k - 1] + w[f[k]]
  <2>1. k \in 0..N /\ k - 1 \in 0..N /\ k \in 1..c /\ k + 1 \in 1..c /\ (k + 1) - 1 = k /\ (k - 1) + 1 = k BY <1>1, <1>2, <1>3
  <2>2. sp[k] = sp[k - 1] + w[b[k]] /\ sp[k + 1] = sp[k] + w[b[k + 1]]
    BY <1>1, <2>1
  <2>3. sp[k] \in Int /\ sp[k - 1] \in Int /\ sp[k + 1] \in Int /\ w[b[k]] \in Int /\ w[b[k + 1]] \in Int
    <3>1. b[k] \in P /\ b[k + 1] \in P
      <4>1. \A i \in 1..c : b[i] \in P BY <1>1
      <4> QED BY ONLY <2>1, <4>1
    <3>2. k - 1 \in 0..c /\ k + 1 \in 0..c /\ k \in 0..c
      <4>1. c \in Nat BY <1>1
      <4> QED BY ONLY <2>1, <4>1
    <3> QED BY <1>1, <1>11, <3>1, <3>2
  <2>4. CASE k < j
    <3>1. k - 1 < j BY <1>1, <1>3, <2>4
    <3>2. u[k] = sp[k] /\ u[k - 1] = sp[k - 1] /\ f[k] = b[k] BY <1>4, <1>10, <2>1, <2>4, <3>1
    <3> QED BY <2>2, <3>2
  <2>5. CASE ~(k < j)
    <3>1. u[k] = sp[k + 1] - w[x] /\ f[k] = b[k + 1] BY <1>5, <1>10, <2>1, <2>5
    <3>2. u[k - 1] = sp[k] - w[x]
      <4>1. CASE k - 1 < j
        <5>1. k = j BY <1>1, <1>3, <2>5, <4>1
        <5>2. u[k - 1] = sp[k - 1] /\ w[b[k]] = w[x] BY <1>2, <1>10, <2>1, <4>1, <5>1
        <5> QED BY <2>2, <2>3, <5>2
      <4>2. CASE ~(k - 1 < j) BY <1>10, <2>1, <4>2
      <4> QED BY <4>1, <4>2
    <3> QED BY <1>3, <2>2, <2>3, <3>1, <3>2
  <2> QED BY <2>4, <2>5
<1>14. u[N] = sp[c] - w[x]
  <2>1. N \in 0..N /\ N + 1 = c BY <1>1, <1>2, <1>3
  <2>2. CASE N < j
    <3>1. j = c /\ c - 1 = N /\ c \in 1..c BY <1>1, <1>2, <2>2
    <3>2. sp[c] = sp[N] + w[x] /\ sp[N] \in Int BY <1>1, <1>2, <2>1, <3>1
    <3>3. u[N] = sp[N] BY <1>10, <2>1, <2>2
    <3> QED BY <1>3, <3>2, <3>3
  <2>3. CASE ~(N < j) BY <1>10, <2>1, <2>3
  <2> QED BY <2>2, <2>3
<1>15. \A p \in P \ {x} : w[p] \in Int
  BY <1>1
<1>16. Along(P \ {x}, w, N, f, u)
  BY <1>3, <1>7, <1>8, <1>9, <1>12, <1>13, <1>15 DEF Along
<1>17. x = y /\ d = N /\ n = u[N]
  BY <1>2, <1>14
<1> QED BY <1>16, <1>17, Zenon DEF AddsIn

\* The order does not matter.
LEMMA AddsOnce ==
  ASSUME NEW P, NEW w, NEW n, NEW m, AddsUp(P, w, n), AddsUp(P, w, m)
  PROVE  n = m
<1>1. PICK N : AddsIn(P, w, N, n)
  BY DEF AddsUp
<1>2. N \in Nat
  BY <1>1 DEF Along, AddsIn
<1>3. PICK S : S = {k \in 0..N : \A Q \in SUBSET P : \A x, y : AddsIn(Q, w, k, x) /\ AddsUp(Q, w, y) => x = y}
  BY Zenon
<1>4. 0 \in S
  <2>1. ASSUME NEW Q \in SUBSET P, NEW x, NEW y, AddsIn(Q, w, 0, x), AddsUp(Q, w, y)
        PROVE  x = y
    <3>1. PICK b, sp : Along(Q, w, 0, b, sp) /\ x = sp[0] BY <2>1 DEF AddsIn
    <3>2. PICK d, a, sq : Along(Q, w, d, a, sq) /\ y = sq[d] BY <2>1 DEF AddsUp, AddsIn
    <3>3. x = 0 /\ Q = {} BY <3>1 DEF Along
    <3>4. d \in Nat /\ sq[0] = 0 /\ \A i \in 1..d : a[i] \in Q BY <3>2 DEF Along
    <3>5. d = 0 BY <3>3, <3>4
    <3> QED BY <3>2, <3>3, <3>4, <3>5
  <2>2. 0 \in 0..N BY <1>2
  <2> QED BY <1>3, <2>1, <2>2
<1>5. ASSUME NEW k \in 1..N, k - 1 \in S PROVE k \in S
  <2>1. ASSUME NEW Q \in SUBSET P, NEW x, NEW y, AddsIn(Q, w, k, x), AddsUp(Q, w, y)
        PROVE  x = y
    <3>1. PICK b, sp : Along(Q, w, k, b, sp) /\ x = sp[k] BY <2>1 DEF AddsIn
    <3>2. PICK d, a, sq : Along(Q, w, d, a, sq) /\ y = sq[d] BY <2>1 DEF AddsUp, AddsIn
    <3>3. PICK z, p, e, x1, y1 : z = k - 1 /\ p = b[k] /\ e = d - 1 /\ x1 = sp[k] - w[p] /\ y1 = sq[d] - w[p] BY Zenon
    <3>4. k \in 1..k /\ k \in Nat BY <1>2
    <3>5. p \in Q /\ w[p] \in Int /\ x \in Int
      <4>1. b \in [1..k -> Q] /\ sp \in [0..k -> Int] /\ \A o \in Q : w[o] \in Int
        BY <3>1 DEF Along
      <4> QED BY <3>1, <3>3, <3>4, <4>1
    <3>6. y \in Int
      <4>1. d \in Nat /\ sq \in [0..d -> Int] BY <3>2 DEF Along
      <4> QED BY <3>2, <4>1
    <3>7. AddsIn(Q \ {p}, w, z, x1)
      BY <3>1, <3>3, <3>4, AddsLess, Zenon
    <3>8. PICK j : j \in 1..d /\ p = a[j]
      BY <3>2, <3>5 DEF Along
    <3>9. AddsIn(Q \ {p}, w, e, y1)
      BY <3>2, <3>3, <3>8, AddsLess, Zenon
    <3>10. AddsUp(Q \ {p}, w, y1)
      BY <3>9, Zenon DEF AddsUp
    <3>11. x1 = y1
      <4>1. Q \ {p} \in SUBSET P OBVIOUS
      <4>2. \A R \in SUBSET P : \A x2, y2 : AddsIn(R, w, z, x2) /\ AddsUp(R, w, y2) => x2 = y2
        BY <1>3, <1>5, <3>3, Zenon
      <4> QED BY <3>7, <3>10, <4>1, <4>2, Zenon
    <3> QED BY <3>1, <3>2, <3>3, <3>5, <3>6, <3>11
  <2>2. k \in 0..N BY <1>2
  <2> QED BY <1>3, <2>1, <2>2
<1>6. N \in S
  BY ONLY <1>2, <1>4, <1>5, SetInduction
<1>7. P \in SUBSET P OBVIOUS
<1>8. \A Q \in SUBSET P : \A x, y : AddsIn(Q, w, N, x) /\ AddsUp(Q, w, y) => x = y
  BY <1>3, <1>6, Zenon
<1> QED BY <1>1, <1>7, <1>8, Zenon

\* q has every member of G once.
Enumerates(q, G) ==
  /\ Len(q) \in Nat /\ q \in [1..Len(q) -> G]
  /\ \A i, j \in 1..Len(q) : q[i] = q[j] => i = j
  /\ \A e \in G : \E i \in 1..Len(q) : q[i] = e

\* As many places as members, each with another one.
LEMMA ListedByAll ==
  ASSUME NEW G, IsFiniteSet(G), NEW c, c = Cardinality(G), NEW q, q \in [1..c -> G], \A i, j \in 1..c : q[i] = q[j] => i = j
  PROVE  Enumerates(q, G) /\ Len(q) = c
<1>1. c \in Nat
  BY FS_CardinalityType
<1>2. q \in Injection(1..c, G)
  BY DEF Injection, IsInjective
<1>3. Cardinality(1..c) = c
  <2>1. 1 \in Int /\ c \in Int BY <1>1
  <2>2. Cardinality(1..c) = IF 1 > c THEN 0 ELSE c - 1 + 1
    BY <2>1, FS_Interval
  <2> QED BY <1>1, <2>2
<1>4. q \in Surjection(1..c, G)
  <2>1. Cardinality(1..c) = Cardinality(G) BY <1>3
  <2>2. IsFiniteSet(G) OBVIOUS
  <2> QED BY <1>2, <2>1, <2>2, FS_Injection
<1>5. \A e \in G : \E i \in 1..c : q[i] = e
  BY <1>4 DEF Surjection
<1>6. Len(q) = c
  <2>1. q \in Seq(G) /\ DOMAIN q = 1..c BY <1>1
  <2> QED BY <1>1, <2>1
<1> QED BY <1>1, <1>5, <1>6 DEF Enumerates

\* SetToSeq lists a finite set.
LEMMA SetListed ==
  ASSUME NEW G, IsFiniteSet(G)
  PROVE  Enumerates(SetToSeq(G), G)
<1>1. PICK c : c = Cardinality(G)
  BY Zenon
<1>2. c \in Nat /\ ExistsBijection(1..c, G)
  BY <1>1, FS_CardinalityType
<1>3. PICK b : b \in Bijection(1..c, G)
  BY <1>2 DEF ExistsBijection
<1>4. b \in [1..c -> G] /\ IsInjective(b)
  BY <1>3 DEF Bijection, Injection, Surjection, IsInjective
<1>5. PICK q : q = SetToSeq(G)
  BY Zenon
<1>6. q \in [1..c -> G] /\ IsInjective(q)
  BY <1>1, <1>4, <1>5, Zenon DEF SetToSeq
<1>7. \A i, j \in 1..c : q[i] = q[j] => i = j
  BY <1>6 DEF IsInjective
<1>8. IsFiniteSet(G) OBVIOUS
<1>9. Enumerates(q, G)
  BY ONLY <1>1, <1>6, <1>7, <1>8, ListedByAll
<1> QED BY <1>5, <1>9

\* A loop that adds the weights of a list.
LEMMA TotalAdds ==
  ASSUME NEW P, NEW w, \A p \in P : w[p] \in Int, NEW q, Enumerates(q, P), NEW v, v = [i \in 1..Len(q) |-> w[q[i]]]
  PROVE  AddsUp(P, w, Total(v))
<1>1. PICK n : n = Len(q)
  BY Zenon
<1>2. /\ n \in Nat /\ q \in [1..n -> P]
      /\ \A i, j \in 1..n : q[i] = q[j] => i = j
      /\ \A e \in P : \E i \in 1..n : q[i] = e
  BY <1>1 DEF Enumerates
<1>3. v = [i \in 1..n |-> w[q[i]]] /\ \A i \in 1..n : v[i] \in Int /\ v[i] = w[q[i]]
  BY <1>1, <1>2
<1>4. v \in Seq(Int) /\ Len(v) = n
  <2>1. v \in [1..n -> Int] BY <1>3
  <2> QED BY <1>2, <2>1
<1>5. PICK f, y : Loop("add", y, 0, v, n, f) /\ Total(v) = f[n]
  <2>1. \E f : Loop("add", 0, 0, v, n, f)
    BY ONLY <1>2, LoopRuns
  <2>2. "add" # "append" /\ "add" # "halve" /\ "add" # "insert" /\ "add" # "put" /\ "add" # "sort"
    OBVIOUS
  <2>3. \A f : Loop("add", 0, 0, v, n, f) <=>
          f = [k \in 0..Len(v) |-> IF k = 0 THEN 0 ELSE f[k - 1] + v[k]]
    BY <1>4, <2>2, Zenon DEF Loop, After
  <2> QED BY <1>4, <2>1, <2>3, ZenonT(60) DEF Total
<1>6. f[0] = 0 /\ \A k \in 1..n : f[k] = f[k - 1] + v[k]
  <2>1. n \in Nat BY <1>2
  <2>2. PICK z : z = 0 BY Zenon
  <2>3. Loop("add", y, z, v, n, f) BY <1>5, <2>2
  <2>4. f[0] = z /\ \A k \in 1..n : f[k] = After("add", y, f[k - 1], v[k])
    BY ONLY <2>1, <2>3, LoopTurns
  <2>5. "add" # "append" /\ "add" # "halve" /\ "add" # "insert" /\ "add" # "put" /\ "add" # "sort"
    OBVIOUS
  <2> QED BY <2>2, <2>4, <2>5, Zenon DEF After
<1>7. PICK S : S = {k \in 0..n : f[k] \in Int}
  BY Zenon
<1>8. \A m \in 0..n : f[m] \in Int
  <2> SUFFICES ASSUME NEW m \in 0..n PROVE f[m] \in Int
    OBVIOUS
  <2>1. m \in Nat BY <1>2
  <2>2. 0 \in S BY <1>2, <1>6, <1>7
  <2>3. ASSUME NEW k \in 1..m, k - 1 \in S PROVE k \in S
    <3>1. k \in 0..n /\ k \in 1..n BY <1>2
    <3>2. f[k - 1] \in Int /\ v[k] \in Int /\ f[k] = f[k - 1] + v[k] BY <1>3, <1>6, <1>7, <2>3, <3>1
    <3>3. f[k] \in Int BY <3>2
    <3> QED BY <1>7, <3>1, <3>3
  <2>4. m \in S BY ONLY <2>1, <2>2, <2>3, SetInduction
  <2> QED BY <1>7, <2>4
<1>9. f \in [0..n -> Int]
  <2>1. f = [k \in 0..n |-> IF k = 0 THEN 0 ELSE After("add", y, f[k - 1], v[k])]
    BY <1>5 DEF Loop
  <2> QED BY <1>8, <2>1
<1>10. Along(P, w, n, q, f)
  BY <1>2, <1>3, <1>6, <1>9, ZenonT(60) DEF Along
<1> QED BY <1>5, <1>10, Zenon DEF AddsUp, AddsIn

\* Ones add up to the number of members.
LEMMA OnesAdd ==
  ASSUME NEW P, IsFiniteSet(P), NEW w, \A p \in P : w[p] = 1
  PROVE  AddsUp(P, w, Cardinality(P))
<1>1. PICK c, u : c = Cardinality(P) /\ u = [i \in 0..c |-> i]
  BY Zenon
<1>2. c \in Nat /\ ExistsBijection(1..c, P)
  BY <1>1, FS_CardinalityType
<1>3. PICK b : b \in Bijection(1..c, P)
  BY <1>2 DEF ExistsBijection
<1>4. b \in [1..c -> P] /\ (\A i, j \in 1..c : b[i] = b[j] => i = j) /\ \A e \in P : \E i \in 1..c : b[i] = e
  BY <1>3 DEF Bijection, Injection, Surjection, IsInjective
<1>5. u \in [0..c -> Int] /\ u[0] = 0 /\ \A k \in 1..c : u[k] = u[k - 1] + w[b[k]]
  <2>1. 0 \in 0..c /\ \A k \in 1..c : k \in 0..c /\ k - 1 \in 0..c /\ (k - 1) + 1 = k BY <1>2
  <2>2. \A k \in 0..c : u[k] = k /\ u[k] \in Int BY <1>1, <1>2
  <2>3. u \in [0..c -> Int] BY <1>1, <2>2
  <2>4. \A k \in 1..c : w[b[k]] = 1 BY <1>4
  <2> QED BY <2>1, <2>2, <2>3, <2>4
<1>6. u[c] = c
  BY <1>1, <1>2
<1>7. \A p \in P : w[p] \in Int
  OBVIOUS
<1>8. Along(P, w, c, b, u)
  BY <1>2, <1>4, <1>5, <1>7 DEF Along
<1> QED BY <1>1, <1>6, <1>8, Zenon DEF AddsUp, AddsIn

\* One alone.
LEMMA AddsOne ==
  ASSUME NEW x, NEW w, w[x] \in Int
  PROVE  AddsUp({x}, w, w[x])
<1>1. PICK b, u : b = [i \in 1..1 |-> x] /\ u = [i \in 0..1 |-> IF i = 0 THEN 0 ELSE w[x]]
  BY Zenon
<1>2. 1..1 = {1} /\ 1 \in Nat /\ 1 \in 0..1 /\ 0 \in 0..1
  OBVIOUS
<1>3. b \in [1..1 -> {x}] /\ b[1] = x
  BY <1>1, <1>2
<1>4. u \in [0..1 -> Int] /\ u[0] = 0 /\ u[1] = w[x] /\ w[x] = 0 + w[x] /\ 1 - 1 = 0
  BY <1>1, <1>2
<1>5. \A k \in 1..1 : u[k] = u[k - 1] + w[b[k]]
  BY <1>2, <1>3, <1>4
<1>6. Along({x}, w, 1, b, u)
  BY <1>2, <1>3, <1>4, <1>5 DEF Along
<1> QED BY <1>4, <1>6, Zenon DEF AddsUp, AddsIn

\* A sum is a number.
LEMMA AddsType ==
  ASSUME NEW P, NEW w, NEW n, AddsUp(P, w, n)
  PROVE  n \in Int
<1>1. PICK c, b, sp : Along(P, w, c, b, sp) /\ n = sp[c]
  BY DEF AddsUp, AddsIn
<1>2. c \in Nat /\ sp \in [0..c -> Int]
  BY <1>1 DEF Along
<1> QED BY <1>1, <1>2

-----------------------------------------------------------------------------
(* The difference of two ledgers.                                          *)

\* The entries of a ledger, and the diffs, under some tags.
EntriesOf(ledger, U) == {p \in DOMAIN ledger : ledger[p].tag \in U}
DiffsOf(D, U) == {d \in D : d.tag \in U}

\* What the ledgers A and B have under the tag t differs by what D says of it.
TagDiffers(A, B, D, wa, wb, wd, t) ==
  \E n, m \in Int :
    /\ AddsUp(Tagged(A, t), wa, n) /\ AddsUp(Tagged(B, t), wb, m)
    /\ \A d \in D : d.tag = t => wd[d] = n - m
    /\ (\A d \in D : d.tag # t) => n = m

\* Likewise for the tags U.
TagsDiffer(A, B, D, wa, wb, wd, U) ==
  \E n, m \in Int :
    AddsUp(EntriesOf(A, U), wa, n) /\ AddsUp(EntriesOf(B, U), wb, m) /\ AddsUp(DiffsOf(D, U), wd, n - m)

\* A tag more.
LEMMA OneTagMore ==
  ASSUME NEW A, NEW B, NEW D, NEW wa, NEW wb, NEW wd, NEW U, NEW t, t \notin U,
         \A d, e \in D : d.tag = e.tag => d = e,
         TagDiffers(A, B, D, wa, wb, wd, t), TagsDiffer(A, B, D, wa, wb, wd, U)
  PROVE  TagsDiffer(A, B, D, wa, wb, wd, U \cup {t})
<1>1. PICK n \in Int, m \in Int :
        /\ AddsUp(Tagged(A, t), wa, n) /\ AddsUp(Tagged(B, t), wb, m)
        /\ \A d \in D : d.tag = t => wd[d] = n - m
        /\ (\A d \in D : d.tag # t) => n = m
  BY DEF TagDiffers
<1>2. PICK x \in Int, y \in Int :
        AddsUp(EntriesOf(A, U), wa, x) /\ AddsUp(EntriesOf(B, U), wb, y) /\ AddsUp(DiffsOf(D, U), wd, x - y)
  BY DEF TagsDiffer
<1>3. /\ EntriesOf(A, U) \cap Tagged(A, t) = {} /\ EntriesOf(A, U \cup {t}) = EntriesOf(A, U) \cup Tagged(A, t)
      /\ EntriesOf(B, U) \cap Tagged(B, t) = {} /\ EntriesOf(B, U \cup {t}) = EntriesOf(B, U) \cup Tagged(B, t)
  BY DEF EntriesOf, Tagged
<1>4. AddsUp(EntriesOf(A, U) \cup Tagged(A, t), wa, x + n)
  BY <1>1, <1>2, <1>3, AddsBoth, Zenon
<1>5. AddsUp(EntriesOf(B, U) \cup Tagged(B, t), wb, y + m)
  BY <1>1, <1>2, <1>3, AddsBoth, Zenon
<1>6. PICK E, z : E = {d \in D : d.tag = t} /\ z = n - m
  BY Zenon
<1>7. DiffsOf(D, U) \cap E = {} /\ DiffsOf(D, U \cup {t}) = DiffsOf(D, U) \cup E
  BY <1>6 DEF DiffsOf
<1>8. AddsUp(E, wd, z)
  <2>1. CASE E = {}
    <3>1. n = m BY <1>1, <1>6, <2>1
    <3>2. z = 0 BY <1>6, <3>1
    <3> QED BY <2>1, <3>2, AddsNothing
  <2>2. CASE E # {}
    <3>1. PICK d : d \in E BY <2>2
    <3>2. d \in D /\ d.tag = t BY <1>6, <3>1
    <3>3. E = {d} BY <1>6, <3>1, <3>2
    <3>4. wd[d] = z /\ wd[d] \in Int BY <1>1, <1>6, <3>2
    <3>5. AddsUp({d}, wd, wd[d]) BY <3>4, AddsOne
    <3> QED BY <3>3, <3>4, <3>5
  <2> QED BY <2>1, <2>2
<1>9. PICK u : u = x - y
  BY Zenon
<1>10. AddsUp(DiffsOf(D, U) \cup E, wd, u + z)
  <2>1. AddsUp(DiffsOf(D, U), wd, u) BY <1>2, <1>9
  <2> QED BY <1>7, <1>8, <2>1, AddsBoth, Zenon
<1>11. u + z = (x + n) - (y + m) /\ x + n \in Int /\ y + m \in Int
  BY <1>6, <1>9
<1>12. PICK v, w : v = x + n /\ w = y + m
  BY Zenon
<1>13. /\ v \in Int /\ w \in Int /\ AddsUp(EntriesOf(A, U \cup {t}), wa, v)
       /\ AddsUp(EntriesOf(B, U \cup {t}), wb, w) /\ AddsUp(DiffsOf(D, U \cup {t}), wd, v - w)
  BY <1>3, <1>4, <1>5, <1>7, <1>10, <1>11, <1>12
<1> QED BY <1>13, Zenon DEF TagsDiffer

\* All tags together.
LEMMA AllTagsDiffer ==
  ASSUME NEW A, NEW B, NEW D, NEW wa, NEW wb, NEW wd, NEW T, IsFiniteSet(T),
         \A p \in DOMAIN A : A[p].tag \in T, \A p \in DOMAIN B : B[p].tag \in T,
         \A d \in D : d.tag \in T,
         \A d, e \in D : d.tag = e.tag => d = e,
         \A t \in T : TagDiffers(A, B, D, wa, wb, wd, t),
         NEW n, NEW m, AddsUp(DOMAIN A, wa, n), AddsUp(DOMAIN B, wb, m)
  PROVE  AddsUp(D, wd, n - m)
<1>1. PICK q, N : q = SetToSeq(T) /\ N = Len(q)
  BY Zenon
<1>2. /\ N \in Nat /\ q \in [1..N -> T]
      /\ \A i, j \in 1..N : q[i] = q[j] => i = j
      /\ \A e \in T : \E i \in 1..N : q[i] = e
  <2>1. Enumerates(q, T) BY <1>1, SetListed
  <2> QED BY <1>1, <2>1 DEF Enumerates
<1>3. PICK S : S = {k \in 0..N : TagsDiffer(A, B, D, wa, wb, wd, {q[i] : i \in 1..k})}
  BY Zenon
<1>4. 0 \in S
  <2>1. {q[i] : i \in 1..0} = {} OBVIOUS
  <2>2. EntriesOf(A, {}) = {} /\ EntriesOf(B, {}) = {} /\ DiffsOf(D, {}) = {}
    BY DEF EntriesOf, DiffsOf
  <2>3. 0 \in Int /\ 0 - 0 = 0 OBVIOUS
  <2>4. AddsUp({}, wa, 0) /\ AddsUp({}, wb, 0) /\ AddsUp({}, wd, 0 - 0)
    BY <2>3, AddsNothing
  <2>5. TagsDiffer(A, B, D, wa, wb, wd, {})
    BY <2>2, <2>3, <2>4, Zenon DEF TagsDiffer
  <2>6. 0 \in 0..N BY <1>2
  <2> QED BY <1>3, <2>1, <2>5, <2>6
<1>5. ASSUME NEW k \in 1..N, k - 1 \in S PROVE k \in S
  <2>1. PICK U, t : U = {q[i] : i \in 1..(k - 1)} /\ t = q[k]
    BY Zenon
  <2>2. k \in 0..N /\ k \in Nat /\ k \in 1..k /\ \A i \in 1..(k - 1) : i \in 1..N /\ i # k /\ i \in 1..k
    BY <1>2
  <2>3. t \in T /\ t \notin U
    <3>1. \A i \in 1..(k - 1) : q[i] # q[k] BY <1>2, <2>2
    <3> QED BY <1>2, <2>1, <3>1
  <2>4. {q[i] : i \in 1..k} = U \cup {t}
    <3>1. \A i \in 1..k : i = k \/ i \in 1..(k - 1) BY <2>2
    <3> QED BY <2>1, <2>2, <3>1
  <2>5. TagsDiffer(A, B, D, wa, wb, wd, U) /\ TagDiffers(A, B, D, wa, wb, wd, t)
    BY <1>3, <1>5, <2>1, <2>3, Zenon
  <2>6. TagsDiffer(A, B, D, wa, wb, wd, U \cup {t})
    BY <2>3, <2>5, OneTagMore, Zenon
  <2> QED BY <1>3, <2>2, <2>4, <2>6
<1>6. N \in S
  BY ONLY <1>2, <1>4, <1>5, SetInduction
<1>7. {q[i] : i \in 1..N} = T
  BY <1>2
<1>8. TagsDiffer(A, B, D, wa, wb, wd, T)
  BY <1>3, <1>6, <1>7, Zenon
<1>9. PICK x \in Int, y \in Int :
        AddsUp(EntriesOf(A, T), wa, x) /\ AddsUp(EntriesOf(B, T), wb, y) /\ AddsUp(DiffsOf(D, T), wd, x - y)
  BY <1>8 DEF TagsDiffer
<1>10. EntriesOf(A, T) = DOMAIN A /\ EntriesOf(B, T) = DOMAIN B /\ DiffsOf(D, T) = D
  BY DEF EntriesOf, DiffsOf
<1>11. x = n
  <2>1. AddsUp(DOMAIN A, wa, x) /\ AddsUp(DOMAIN A, wa, n) BY <1>9, <1>10
  <2> QED BY ONLY <2>1, AddsOnce
<1>12. y = m
  <2>1. AddsUp(DOMAIN B, wb, y) /\ AddsUp(DOMAIN B, wb, m) BY <1>9, <1>10
  <2> QED BY ONLY <2>1, AddsOnce
<1> QED BY <1>9, <1>10, <1>11, <1>12, Zenon

\* A ledger is a finite map.
LEMMA LedgerIsFinite ==
  ASSUME NEW A, A \in Ledgers
  PROVE  IsFiniteSet(DOMAIN A) /\ \A p \in DOMAIN A : A[p].size \in Int
<1>1. PICK P \in SUBSET Pointers : A \in [P -> [size : ByteCounts, tag : TagHashes]]
  BY DEF Ledgers
<1>2. IsFiniteSet(P)
  BY <1>1, DeltaAssumption, FS_Subset
<1>3. ASSUME NEW p \in P PROVE A[p].size \in Int
  <2>1. A[p] \in [size : ByteCounts, tag : TagHashes] BY <1>1
  <2>2. A[p].size \in ByteCounts BY <2>1
  <2>3. PICK z : z = A[p].size BY Zenon
  <2>4. z \in ByteCounts /\ ByteCounts \subseteq Nat BY <2>2, <2>3, DeltaAssumption, Zenon
  <2>5. z \in Int BY ONLY <2>4
  <2> QED BY <2>3, <2>5
<1> QED BY <1>1, <1>2, <1>3

SizesIn(ledger) == [p \in DOMAIN ledger |-> ledger[p].size]
OnesIn(ledger) == [p \in DOMAIN ledger |-> 1]

\* getTotalAllocated, getAllocatedByTag and the numbers of allocations.
LEMMA LedgerSums ==
  ASSUME NEW A, A \in Ledgers, NEW P, P \subseteq DOMAIN A
  PROVE  AddsUp(P, SizesIn(A), BytesOf(A, P)) /\ AddsUp(P, OnesIn(A), Cardinality(P))
<1>1. IsFiniteSet(P) /\ \A p \in P : p \in DOMAIN A /\ A[p].size \in Int
  <2>1. IsFiniteSet(DOMAIN A) /\ \A p \in DOMAIN A : A[p].size \in Int BY LedgerIsFinite
  <2> QED BY <2>1, FS_Subset
<1>2. PICK q, w, v : q = SetToSeq(P) /\ w = SizesIn(A) /\ v = [i \in 1..Len(q) |-> w[q[i]]]
  BY Zenon
<1>3. Enumerates(q, P)
  BY <1>1, <1>2, SetListed
<1>4. \A p \in P : w[p] = A[p].size /\ w[p] \in Int
  BY <1>1, <1>2 DEF SizesIn
<1>5. AddsUp(P, w, Total(v))
  BY <1>2, <1>3, <1>4, TotalAdds
<1>6. v = [i \in 1..Len(q) |-> A[q[i]].size]
  <2>1. \A i \in 1..Len(q) : q[i] \in P BY <1>3 DEF Enumerates
  <2>2. \A i \in 1..Len(q) : w[q[i]] = A[q[i]].size BY <1>4, <2>1
  <2> QED BY <1>2, <2>2
<1>7. BytesOf(A, P) = Total(v)
  BY <1>2, <1>6, Zenon DEF BytesOf
<1>8. \A p \in P : OnesIn(A)[p] = 1
  BY <1>1 DEF OnesIn
<1>9. AddsUp(P, OnesIn(A), Cardinality(P))
  BY <1>1, <1>8, OnesAdd
<1> QED BY <1>2, <1>5, <1>7, <1>9

TagsIn(ledger) == {ledger[p].tag : p \in DOMAIN ledger}
Bucket(ledger, t) ==
  [tag |-> t, bytes |-> getAllocatedByTag(ledger, t), allocations |-> Cardinality(Tagged(ledger, t))]

\* Nothing is allocated under a tag without a bucket.
LEMMA NoBucket ==
  ASSUME NEW A, A \in Ledgers, NEW t, t \notin TagsIn(A)
  PROVE  getAllocatedByTag(A, t) = 0 /\ Cardinality(Tagged(A, t)) = 0
<1>1. Tagged(A, t) = {}
  BY DEF Tagged, TagsIn
<1>2. PICK x, y : x = getAllocatedByTag(A, t) /\ y = Cardinality(Tagged(A, t))
  BY Zenon
<1>3. AddsUp({}, SizesIn(A), x)
  <2>1. Tagged(A, t) \subseteq DOMAIN A BY <1>1
  <2>2. AddsUp(Tagged(A, t), SizesIn(A), BytesOf(A, Tagged(A, t))) BY <2>1, LedgerSums
  <2> QED BY <1>1, <1>2, <2>2 DEF getAllocatedByTag
<1>4. x = 0
  <2>1. AddsUp({}, SizesIn(A), 0) BY AddsNothing
  <2> QED BY ONLY <1>3, <2>1, AddsOnce
<1>5. y = 0
  BY <1>1, <1>2, FS_EmptySet
<1> QED BY <1>2, <1>4, <1>5

\* The buckets of a snapshot.
LEMMA Buckets ==
  ASSUME NEW A
  PROVE  snapshot(A).tags = {Bucket(A, t) : t \in TagsIn(A)}
<1>1. snapshot(A).tags = {[tag |-> t, bytes |-> getAllocatedByTag(A, t),
              allocations |-> Cardinality(Tagged(A, t))] : t \in {A[p].tag : p \in DOMAIN A}}
  BY DEF snapshot
<1> QED BY <1>1, Zenon DEF Bucket, TagsIn

\* The diff of a tag, whether or not the ledgers have it.
DiffAt(B, A, t) ==
  Diff(t, getAllocatedByTag(B, t), Cardinality(Tagged(B, t)), getAllocatedByTag(A, t), Cardinality(Tagged(A, t)))

\* The fields of it.
DiffHas(B, A, t, d) ==
  /\ d.tag = t
  /\ d.bytes = getAllocatedByTag(A, t) - getAllocatedByTag(B, t)
  /\ d.allocations = Cardinality(Tagged(A, t)) - Cardinality(Tagged(B, t))
  /\ d.changed = (<<getAllocatedByTag(A, t), Cardinality(Tagged(A, t))>> #
                  <<getAllocatedByTag(B, t), Cardinality(Tagged(B, t))>>)

\* They are these.
LEMMA DiffFields ==
  ASSUME NEW B, NEW A, NEW t
  PROVE  DiffHas(B, A, t, DiffAt(B, A, t))
<1>1. PICK x, y, z : /\ x = getAllocatedByTag(A, t) - getAllocatedByTag(B, t)
                     /\ y = Cardinality(Tagged(A, t)) - Cardinality(Tagged(B, t))
                     /\ z = (<<getAllocatedByTag(A, t), Cardinality(Tagged(A, t))>> #
                            <<getAllocatedByTag(B, t), Cardinality(Tagged(B, t))>>)
  BY Zenon
<1>2. PICK d : d = DiffAt(B, A, t)
  BY Zenon
<1>3. d = [tag |-> t, bytes |-> x, allocations |-> y, changed |-> z]
  BY <1>1, <1>2, Zenon DEF DiffAt, Diff
<1>4. d.tag = t /\ d.bytes = x /\ d.allocations = y /\ d.changed = z
  BY ONLY <1>3
<1> QED BY <1>1, <1>2, <1>4, Zenon DEF DiffHas

\* A tag of the second snapshot.
LEMMA DiffOfBucket ==
  ASSUME NEW B, B \in Ledgers, NEW A, NEW t, t \in TagsIn(A)
  PROVE  DiffOfTag(snapshot(B), Bucket(A, t)) = DiffAt(B, A, t)
<1>1. PICK u, old, first : u = Bucket(A, t) /\ first = snapshot(B) /\ old = {r \in first.tags : r.tag = u.tag}
  BY Zenon
<1>2. u.tag = t /\ u.bytes = getAllocatedByTag(A, t) /\ u.allocations = Cardinality(Tagged(A, t))
  BY <1>1 DEF Bucket
<1>3. \A x : Bucket(B, x).tag = x /\ Bucket(B, x).bytes = getAllocatedByTag(B, x) /\ Bucket(B, x).allocations = Cardinality(Tagged(B, x))
  BY DEF Bucket
<1>4. first.tags = {Bucket(B, x) : x \in TagsIn(B)}
  BY <1>1, Buckets
<1>5. CASE t \in TagsIn(B)
  <2>1. old = {Bucket(B, t)}
    <3>1. \A r \in old : r = Bucket(B, t) BY <1>1, <1>2, <1>3, <1>4
    <3>2. Bucket(B, t) \in old BY <1>1, <1>2, <1>3, <1>4, <1>5
    <3> QED BY <3>1, <3>2
  <2>2. PICK c : c = CHOOSE r \in old : TRUE
    BY Zenon
  <2>3. c = Bucket(B, t) /\ old # {}
    BY <2>1, <2>2
  <2>4. DiffOfTag(first, u) = Diff(u.tag, c.bytes, c.allocations, u.bytes, u.allocations)
    BY <1>1, <2>2, <2>3, Zenon DEF DiffOfTag
  <2>5. c.bytes = getAllocatedByTag(B, t) /\ c.allocations = Cardinality(Tagged(B, t))
    BY <1>3, <2>3
  <2> QED BY <1>1, <1>2, <2>4, <2>5, Zenon DEF DiffAt
<1>6. CASE t \notin TagsIn(B)
  <2>1. old = {}
    BY <1>1, <1>2, <1>3, <1>4, <1>6
  <2>2. DiffOfTag(first, u) = Diff(u.tag, 0, 0, u.bytes, u.allocations)
    BY <1>1, <2>1, Zenon DEF DiffOfTag
  <2>3. getAllocatedByTag(B, t) = 0 /\ Cardinality(Tagged(B, t)) = 0
    BY <1>6, NoBucket
  <2> QED BY <1>1, <1>2, <2>2, <2>3, Zenon DEF DiffAt
<1> QED BY <1>5, <1>6

\* The diffs are those of the tags in either ledger, but for the ones of the second
\* that have not changed.
LEMMA DiffsAre ==
  ASSUME NEW B, B \in Ledgers, NEW A, A \in Ledgers
  PROVE  Diffs(snapshot(B), snapshot(A)) =
           {d \in {DiffAt(B, A, t) : t \in TagsIn(A)} : d.changed} \cup {DiffAt(B, A, t) : t \in TagsIn(B) \ TagsIn(A)}
<1>1. PICK first, second : first = snapshot(B) /\ second = snapshot(A)
  BY Zenon
<1>2. first.tags = {Bucket(B, x) : x \in TagsIn(B)} /\ second.tags = {Bucket(A, x) : x \in TagsIn(A)}
  BY <1>1, Buckets
<1>3. {DiffOfTag(first, u) : u \in second.tags} = {DiffAt(B, A, t) : t \in TagsIn(A)}
  <2>1. {DiffOfTag(first, u) : u \in second.tags} = {DiffOfTag(first, Bucket(A, t)) : t \in TagsIn(A)}
    BY <1>2
  <2>2. \A t \in TagsIn(A) : DiffOfTag(first, Bucket(A, t)) = DiffAt(B, A, t)
    BY <1>1, DiffOfBucket
  <2> QED BY <2>1, <2>2
<1>4. \A X, x : Bucket(X, x).tag = x /\ Bucket(X, x).bytes = getAllocatedByTag(X, x) /\ Bucket(X, x).allocations = Cardinality(Tagged(X, x))
  BY DEF Bucket
<1>5. {u.tag : u \in second.tags} = TagsIn(A)
  BY <1>2, <1>4
<1>6. Disappeared(first, second) = {Bucket(B, t) : t \in TagsIn(B) \ TagsIn(A)}
  <2>1. Disappeared(first, second) = {r \in first.tags : r.tag \notin TagsIn(A)}
    BY <1>5 DEF Disappeared
  <2> QED BY <1>2, <1>4, <2>1
<1>7. {Diff(r.tag, r.bytes, r.allocations, 0, 0) : r \in Disappeared(first, second)} = {DiffAt(B, A, t) : t \in TagsIn(B) \ TagsIn(A)}
  <2>1. \A t \in TagsIn(B) \ TagsIn(A) : Diff(Bucket(B, t).tag, Bucket(B, t).bytes, Bucket(B, t).allocations, 0, 0) = DiffAt(B, A, t)
    <3> SUFFICES ASSUME NEW t \in TagsIn(B) \ TagsIn(A)
                 PROVE  Diff(Bucket(B, t).tag, Bucket(B, t).bytes, Bucket(B, t).allocations, 0, 0) = DiffAt(B, A, t)
      OBVIOUS
    <3>1. getAllocatedByTag(A, t) = 0 /\ Cardinality(Tagged(A, t)) = 0
      BY NoBucket
    <3> QED BY <1>4, <3>1, Zenon DEF DiffAt
  <2>2. {Diff(r.tag, r.bytes, r.allocations, 0, 0) : r \in Disappeared(first, second)} =
        {Diff(Bucket(B, t).tag, Bucket(B, t).bytes, Bucket(B, t).allocations, 0, 0) : t \in TagsIn(B) \ TagsIn(A)}
    BY <1>6
  <2> QED BY <2>1, <2>2
<1> QED BY <1>1, <1>3, <1>7, Zenon DEF Diffs

\* What a report relies on.
Reported(B, A, D, T) ==
  /\ IsFiniteSet(T) /\ IsFiniteSet(D)
  /\ \A d \in D : d.tag \in T /\ d = DiffAt(B, A, d.tag)
  /\ \A t \in T : (\A d \in D : d.tag # t) =>
       /\ getAllocatedByTag(A, t) = getAllocatedByTag(B, t)
       /\ Cardinality(Tagged(A, t)) = Cardinality(Tagged(B, t))

\* One diff for a tag at most, and none only where nothing has changed.
LEMMA DiffsOfTags ==
  ASSUME NEW B, B \in Ledgers, NEW A, A \in Ledgers, NEW D, D = Diffs(snapshot(B), snapshot(A)),
         NEW T, T = TagsIn(A) \cup TagsIn(B)
  PROVE  Reported(B, A, D, T)
<1>1. D = {d \in {DiffAt(B, A, t) : t \in TagsIn(A)} : d.changed} \cup {DiffAt(B, A, t) : t \in TagsIn(B) \ TagsIn(A)}
  BY DiffsAre
<1>2. \A d \in D : d.tag \in T /\ d = DiffAt(B, A, d.tag)
  <2> SUFFICES ASSUME NEW d \in D PROVE d.tag \in T /\ d = DiffAt(B, A, d.tag)
    OBVIOUS
  <2>1. PICK t \in T : d = DiffAt(B, A, t) BY <1>1
  <2>2. d.tag = t
    <3>1. DiffHas(B, A, t, d) BY <2>1, DiffFields, Zenon
    <3> QED BY <3>1, Zenon DEF DiffHas
  <2> QED BY <2>1, <2>2
<1>3. ASSUME NEW X, X \in Ledgers PROVE IsFiniteSet(TagsIn(X))
  <2>1. PICK f, P : P = DOMAIN X /\ f = [p \in P |-> X[p].tag] BY Zenon
  <2>2. IsFiniteSet(P) BY <1>3, <2>1, LedgerIsFinite
  <2>3. f \in [P -> TagsIn(X)] /\ \A t \in TagsIn(X) : \E p \in P : f[p] = t BY <2>1 DEF TagsIn
  <2>4. f \in Surjection(P, TagsIn(X)) BY <2>3 DEF Surjection
  <2> QED BY <2>2, <2>4, FS_Surjection
<1>4. IsFiniteSet(T)
  <2>1. IsFiniteSet(TagsIn(A)) /\ IsFiniteSet(TagsIn(B)) BY <1>3
  <2> QED BY <2>1, FS_Union
<1>5. IsFiniteSet(D)
  <2>1. PICK f, E : f = [t \in T |-> DiffAt(B, A, t)] /\ E = {DiffAt(B, A, t) : t \in T} BY Zenon
  <2>2. f \in [T -> E] /\ \A d \in E : \E t \in T : f[t] = d BY <2>1
  <2>3. f \in Surjection(T, E) BY <2>2 DEF Surjection
  <2>4. IsFiniteSet(E) BY <1>4, <2>3, FS_Surjection
  <2>5. D \subseteq E BY <1>2, <2>1
  <2> QED BY <2>4, <2>5, FS_Subset
<1>6. ASSUME NEW t \in T, \A d \in D : d.tag # t
      PROVE  /\ getAllocatedByTag(A, t) = getAllocatedByTag(B, t)
             /\ Cardinality(Tagged(A, t)) = Cardinality(Tagged(B, t))
  <2>1. PICK d, ba, bb, ca, cb : /\ d = DiffAt(B, A, t) /\ ba = getAllocatedByTag(A, t) /\ bb = getAllocatedByTag(B, t)
                                 /\ ca = Cardinality(Tagged(A, t)) /\ cb = Cardinality(Tagged(B, t))
    BY Zenon
  <2>2. d.tag = t /\ d.changed = (<<ba, ca>> # <<bb, cb>>)
    <3>1. DiffHas(B, A, t, d) BY <2>1, DiffFields, Zenon
    <3> QED BY <2>1, <3>1, Zenon DEF DiffHas
  <2>3. d \notin D BY <1>6, <2>2
  <2>4. t \in TagsIn(A) /\ ~d.changed BY <1>1, <2>1, <2>3
  <2>5. <<ba, ca>> = <<bb, cb>> BY <2>2, <2>4, Zenon
  <2> QED BY <2>1, <2>5
<1> QED BY <1>2, <1>4, <1>5, <1>6, Zenon DEF Reported

\* The bytes and the allocations of a report.
LEMMA ReportAdds ==
  ASSUME NEW B, B \in Ledgers, NEW A, A \in Ledgers, NEW D, D = Diffs(snapshot(B), snapshot(A))
  PROVE  /\ AddsUp(D, [d \in D |-> d.bytes], BytesOf(A, DOMAIN A) - BytesOf(B, DOMAIN B))
         /\ AddsUp(D, [d \in D |-> d.allocations], Cardinality(DOMAIN A) - Cardinality(DOMAIN B))
<1>1. PICK T, wd, wc : T = TagsIn(A) \cup TagsIn(B) /\ wd = [d \in D |-> d.bytes] /\ wc = [d \in D |-> d.allocations]
  BY Zenon
<1>2. /\ IsFiniteSet(T)
      /\ \A d \in D : d.tag \in T /\ d = DiffAt(B, A, d.tag)
      /\ \A t \in T : (\A d \in D : d.tag # t) =>
           /\ getAllocatedByTag(A, t) = getAllocatedByTag(B, t)
           /\ Cardinality(Tagged(A, t)) = Cardinality(Tagged(B, t))
  <2>1. Reported(B, A, D, T) BY <1>1, DiffsOfTags, Zenon
  <2> QED BY <2>1, Zenon DEF Reported
<1>3. \A d, e \in D : d.tag = e.tag => d = e
  BY <1>2
<1>4. (\A p \in DOMAIN A : A[p].tag \in T) /\ (\A p \in DOMAIN B : B[p].tag \in T) /\ \A d \in D : d.tag \in T
  BY <1>1, <1>2 DEF TagsIn
<1>5. ASSUME NEW t \in T
      PROVE  /\ TagDiffers(A, B, D, SizesIn(A), SizesIn(B), wd, t)
             /\ TagDiffers(A, B, D, OnesIn(A), OnesIn(B), wc, t)
  <2>1. PICK ba, bb, ca, cb : /\ ba = getAllocatedByTag(A, t) /\ bb = getAllocatedByTag(B, t)
                              /\ ca = Cardinality(Tagged(A, t)) /\ cb = Cardinality(Tagged(B, t))
    BY Zenon
  <2>2. Tagged(A, t) \subseteq DOMAIN A /\ Tagged(B, t) \subseteq DOMAIN B
    BY DEF Tagged
  <2>3. AddsUp(Tagged(A, t), SizesIn(A), ba) /\ AddsUp(Tagged(A, t), OnesIn(A), ca)
    BY <2>1, <2>2, LedgerSums DEF getAllocatedByTag
  <2>4. AddsUp(Tagged(B, t), SizesIn(B), bb) /\ AddsUp(Tagged(B, t), OnesIn(B), cb)
    BY <2>1, <2>2, LedgerSums DEF getAllocatedByTag
  <2>5. ba \in Int /\ bb \in Int /\ ca \in Int /\ cb \in Int
    BY <2>3, <2>4, AddsType
  <2>6. \A d \in D : d.tag = t => wd[d] = ba - bb /\ wc[d] = ca - cb
    <3> SUFFICES ASSUME NEW d \in D, d.tag = t PROVE wd[d] = ba - bb /\ wc[d] = ca - cb
      OBVIOUS
    <3>1. d = DiffAt(B, A, t) BY <1>2
    <3>2. d.bytes = ba - bb /\ d.allocations = ca - cb
      <4>1. DiffHas(B, A, t, d) BY <3>1, DiffFields, Zenon
      <4> QED BY <2>1, <4>1, Zenon DEF DiffHas
    <3> QED BY <1>1, <3>2
  <2>7. (\A d \in D : d.tag # t) => ba = bb /\ ca = cb
    BY <1>2, <2>1
  <2>8. TagDiffers(A, B, D, SizesIn(A), SizesIn(B), wd, t)
    BY <2>3, <2>4, <2>5, <2>6, <2>7, Zenon DEF TagDiffers
  <2>9. TagDiffers(A, B, D, OnesIn(A), OnesIn(B), wc, t)
    BY <2>3, <2>4, <2>5, <2>6, <2>7, Zenon DEF TagDiffers
  <2> QED BY <2>8, <2>9
<1>6. PICK na, nb, ma, mb : /\ na = BytesOf(A, DOMAIN A) /\ nb = BytesOf(B, DOMAIN B)
                            /\ ma = Cardinality(DOMAIN A) /\ mb = Cardinality(DOMAIN B)
  BY Zenon
<1>7. AddsUp(DOMAIN A, SizesIn(A), na) /\ AddsUp(DOMAIN A, OnesIn(A), ma)
  BY <1>6, LedgerSums
<1>8. AddsUp(DOMAIN B, SizesIn(B), nb) /\ AddsUp(DOMAIN B, OnesIn(B), mb)
  BY <1>6, LedgerSums
<1>9. AddsUp(D, wd, na - nb)
  BY <1>2, <1>3, <1>4, <1>5, <1>7, <1>8, AllTagsDiffer, Zenon
<1>10. AddsUp(D, wc, ma - mb)
  BY <1>2, <1>3, <1>4, <1>5, <1>7, <1>8, AllTagsDiffer, Zenon
<1> QED BY <1>1, <1>6, <1>9, <1>10

\* A report is about two ledgers.
DeltaInv ==
  /\ before \in Ledgers /\ after \in Ledgers
  /\ printed # <<>> =>
       \E q \in Sorted(Diffs(snapshot(before), snapshot(after))) :
         printed = <<[bytes |-> snapshot(after).totalBytes - snapshot(before).totalBytes,
                      allocations |-> snapshot(after).allocationCount - snapshot(before).allocationCount], q>>

\* And its lines make up its total.
LEMMA DeltaMeaning == DeltaInv => DeltaAddsUp
<1> SUFFICES ASSUME DeltaInv, printed # <<>>
             PROVE  LET q == printed[2] IN
                    /\ printed[1].bytes = Total([i \in 1..Len(q) |-> q[i].bytes])
                    /\ printed[1].allocations = Total([i \in 1..Len(q) |-> q[i].allocations])
                    /\ \A i, j \in DOMAIN q : q[i].tag = q[j].tag => i = j
  BY DEF DeltaAddsUp
<1>1. PICK A, B, D : A = after /\ B = before /\ D = Diffs(snapshot(B), snapshot(A))
  BY Zenon
<1>2. A \in Ledgers /\ B \in Ledgers
  BY <1>1 DEF DeltaInv
<1>3. PICK q \in Sorted(D) :
        printed = <<[bytes |-> snapshot(A).totalBytes - snapshot(B).totalBytes,
                     allocations |-> snapshot(A).allocationCount - snapshot(B).allocationCount], q>>
  BY <1>1 DEF DeltaInv
<1>4. PICK x, y : x = BytesOf(A, DOMAIN A) - BytesOf(B, DOMAIN B) /\ y = Cardinality(DOMAIN A) - Cardinality(DOMAIN B)
  BY Zenon
<1>5. printed[2] = q /\ printed[1].bytes = x /\ printed[1].allocations = y
  <2>1. snapshot(A).totalBytes = BytesOf(A, DOMAIN A) /\ snapshot(A).allocationCount = Cardinality(DOMAIN A)
    BY DEF snapshot
  <2>2. snapshot(B).totalBytes = BytesOf(B, DOMAIN B) /\ snapshot(B).allocationCount = Cardinality(DOMAIN B)
    BY DEF snapshot
  <2>3. printed = <<[bytes |-> x, allocations |-> y], q>>
    BY <1>3, <1>4, <2>1, <2>2
  <2> QED BY <2>3
<1>6. IsFiniteSet(D) /\ \A d \in D : d = DiffAt(B, A, d.tag)
  <2>1. PICK T : T = TagsIn(A) \cup TagsIn(B) BY Zenon
  <2>2. Reported(B, A, D, T) BY <1>1, <1>2, <2>1, DiffsOfTags, Zenon
  <2> QED BY <2>2, Zenon DEF Reported
<1>7. PICK c : c = Cardinality(D)
  BY Zenon
<1>8. q \in [1..c -> D] /\ \A i, j \in 1..c : q[i] = q[j] => i = j
  <2>1. q \in [1..c -> D] /\ IsInjective(q) BY <1>3, <1>7 DEF Sorted
  <2> QED BY <2>1 DEF IsInjective
<1>9. Enumerates(q, D) /\ Len(q) = c
  BY ONLY <1>6, <1>7, <1>8, ListedByAll
<1>10. PICK wd, wc : wd = [d \in D |-> d.bytes] /\ wc = [d \in D |-> d.allocations]
  BY Zenon
<1>11. AddsUp(D, wd, x) /\ AddsUp(D, wc, y)
  BY <1>1, <1>2, <1>4, <1>10, ReportAdds
<1>12. \A d \in D : wd[d] \in Int /\ wc[d] \in Int
  BY <1>11 DEF AddsUp, AddsIn, Along
<1>13. PICK v, u : v = [i \in 1..Len(q) |-> wd[q[i]]] /\ u = [i \in 1..Len(q) |-> wc[q[i]]]
  BY Zenon
<1>14. v = [i \in 1..Len(q) |-> q[i].bytes] /\ u = [i \in 1..Len(q) |-> q[i].allocations]
  <2>1. \A i \in 1..Len(q) : wd[q[i]] = q[i].bytes /\ wc[q[i]] = q[i].allocations
    BY <1>8, <1>9, <1>10
  <2> QED BY <1>13, <2>1
<1>15. Total(v) = x
  <2>1. AddsUp(D, wd, Total(v)) BY <1>9, <1>12, <1>13, TotalAdds
  <2>2. AddsUp(D, wd, x) BY <1>11
  <2> QED BY ONLY <2>1, <2>2, AddsOnce
<1>16. Total(u) = y
  <2>1. AddsUp(D, wc, Total(u)) BY <1>9, <1>12, <1>13, TotalAdds
  <2>2. AddsUp(D, wc, y) BY <1>11
  <2> QED BY ONLY <2>1, <2>2, AddsOnce
<1>17. \A i, j \in DOMAIN q : q[i].tag = q[j].tag => i = j
  <2>1. DOMAIN q = 1..c BY <1>8
  <2>2. \A i \in 1..c : q[i] \in D /\ q[i] = DiffAt(B, A, q[i].tag) BY <1>6, <1>8
  <2> QED BY <1>8, <2>1, <2>2
<1> QED BY <1>5, <1>14, <1>15, <1>16, <1>17

\* MemoryManager::snapshot and printMemoryDelta: for any two ledgers, whatever
\* appeared, disappeared or moved between tags in between, the lines of the report
\* account for its totals and name every tag once at most.
THEOREM DeltaAlways == DeltaSpec => []DeltaAddsUp
<1>1. DeltaInit => DeltaInv
  BY DEF DeltaInit, DeltaInv
<1>2. DeltaInv /\ [DeltaNext]_deltaVars => DeltaInv'
  <2> SUFFICES ASSUME DeltaInv, [DeltaNext]_deltaVars PROVE DeltaInv'
    OBVIOUS
  <2>1. CASE DeltaNext
    <3>1. /\ \E q \in Sorted(Diffs(snapshot(before), snapshot(after))) :
                printed' = <<[bytes |-> snapshot(after).totalBytes - snapshot(before).totalBytes,
                              allocations |-> snapshot(after).allocationCount - snapshot(before).allocationCount], q>>
          /\ before' = before /\ after' = after
      BY <2>1, Zenon DEF DeltaNext, printMemoryDelta
    <3>2. before \in Ledgers /\ after \in Ledgers BY DEF DeltaInv
    <3> QED BY <3>1, <3>2 DEF DeltaInv
  <2>2. CASE UNCHANGED deltaVars
    BY <2>2 DEF deltaVars, DeltaInv
  <2> QED BY <2>1, <2>2
<1> QED BY <1>1, <1>2, DeltaMeaning, PTL DEF DeltaSpec

-----------------------------------------------------------------------------
(* How often a value occurs in a sequence.                                 *)

At(q, v) == {i \in 1..Len(q) : q[i] = v}
Count(q, v) == Cardinality(At(q, v))
SameBag(q, r) == \A v : Count(q, v) = Count(r, v)

\* Places are few.
LEMMA AtFinite ==
  ASSUME NEW q, Len(q) \in Nat, NEW v
  PROVE  IsFiniteSet(At(q, v)) /\ Count(q, v) \in Nat
<1>1. IsFiniteSet(1..Len(q))
  <2>1. 1 \in Int /\ Len(q) \in Int OBVIOUS
  <2> QED BY <2>1, FS_Interval
<1>2. At(q, v) \subseteq 1..Len(q)
  BY DEF At
<1>3. IsFiniteSet(At(q, v))
  BY <1>1, <1>2, FS_Subset
<1> QED BY <1>3, FS_CardinalityType DEF Count

\* A value occurs where it is counted.
LEMMA Occurs ==
  ASSUME NEW q, Len(q) \in Nat, NEW v
  PROVE  (\E i \in 1..Len(q) : q[i] = v) <=> Count(q, v) # 0
<1>1. IsFiniteSet(At(q, v))
  BY AtFinite
<1>2. Cardinality(At(q, v)) = 0 <=> At(q, v) = {}
  BY <1>1, FS_EmptySet
<1> QED BY <1>2 DEF Count, At

\* The places of v in q correspond to P.
Corresponds(q, v, P, f) ==
  /\ f \in [At(q, v) -> P] /\ \A i, j \in At(q, v) : f[i] = f[j] => i = j
  /\ \A k \in P : \E i \in At(q, v) : f[i] = k

\* So there are as many.
LEMMA CountSame ==
  ASSUME NEW q, Len(q) \in Nat, NEW r, Len(r) \in Nat, NEW v, NEW w, NEW P, P \subseteq At(r, w),
         NEW f, Corresponds(q, v, P, f)
  PROVE  IsFiniteSet(P) /\ Cardinality(P) = Count(q, v)
<1>1. PICK A : A = At(q, v)
  BY Zenon
<1>2. IsFiniteSet(A) /\ IsFiniteSet(P)
  <2>1. IsFiniteSet(At(r, w)) BY AtFinite
  <2>2. IsFiniteSet(At(q, v)) BY AtFinite
  <2> QED BY <1>1, <2>1, <2>2, FS_Subset
<1>3. f \in Bijection(A, P)
  BY <1>1 DEF Corresponds, Bijection, Injection, Surjection, IsInjective
<1>4. Cardinality(A) = Cardinality(P)
  BY <1>2, <1>3, FS_Bijection DEF ExistsBijection
<1> QED BY <1>1, <1>2, <1>4 DEF Count

\* An element more.
CountsOneMore(q, e, r) == \A v : Count(r, v) = IF v = e THEN Count(q, v) + 1 ELSE Count(q, v)

\* Wherever it is.
LEMMA CountOneMore ==
  ASSUME NEW S, NEW q, q \in Seq(S), NEW i, i \in 1..(Len(q) + 1), NEW e, NEW r, OneMore(S, q, i, e, r)
  PROVE  CountsOneMore(q, e, r)
<1> SUFFICES ASSUME NEW v PROVE Count(r, v) = IF v = e THEN Count(q, v) + 1 ELSE Count(q, v)
  BY DEF CountsOneMore
<1>1. PICK n : n = Len(q)
  BY Zenon
<1>2. /\ n \in Nat /\ Len(r) = n + 1 /\ i \in Nat /\ i \in 1..(n + 1) /\ Len(q) \in Nat /\ Len(r) \in Nat
      /\ \A j \in 1..(n + 1) : r[j] = IF j < i THEN q[j] ELSE IF j = i THEN e ELSE q[j - 1]
  BY <1>1, LenProperties DEF OneMore
<1>3. PICK f, P : P = At(r, v) \ {i} /\ f = [j \in At(q, v) |-> IF j < i THEN j ELSE j + 1]
  BY Zenon
<1>4. ASSUME NEW j \in At(q, v) PROVE f[j] \in P /\ f[j] = IF j < i THEN j ELSE j + 1
  <2>1. j \in 1..n /\ q[j] = v BY <1>1 DEF At
  <2>2. CASE j < i
    <3>1. f[j] = j /\ j \in 1..(n + 1) /\ j # i BY <1>2, <1>3, <2>1, <2>2
    <3>2. r[j] = v BY <1>2, <2>1, <2>2, <3>1
    <3> QED BY <1>2, <1>3, <2>2, <3>1, <3>2 DEF At
  <2>3. CASE ~(j < i)
    <3>1. f[j] = j + 1 /\ j + 1 \in 1..(n + 1) /\ j + 1 # i /\ ~(j + 1 < i) /\ (j + 1) - 1 = j BY <1>2, <1>3, <2>1, <2>3
    <3>2. r[j + 1] = v BY <1>2, <2>1, <3>1
    <3> QED BY <1>2, <1>3, <2>3, <3>1, <3>2 DEF At
  <2> QED BY <2>2, <2>3
<1>5. f \in [At(q, v) -> P]
  BY <1>3, <1>4
<1>6. \A j, k \in At(q, v) : f[j] = f[k] => j = k
  <2> SUFFICES ASSUME NEW j \in At(q, v), NEW k \in At(q, v), f[j] = f[k] PROVE j = k
    OBVIOUS
  <2>1. j \in Nat /\ k \in Nat BY <1>2 DEF At
  <2> QED BY <1>2, <1>4, <2>1
<1>7. \A k \in P : \E j \in At(q, v) : f[j] = k
  <2> SUFFICES ASSUME NEW k \in P PROVE \E j \in At(q, v) : f[j] = k
    OBVIOUS
  <2>1. k \in 1..(n + 1) /\ r[k] = v /\ k # i BY <1>2, <1>3 DEF At
  <2>2. CASE k < i
    <3>1. k \in 1..n /\ q[k] = v BY <1>2, <2>1, <2>2
    <3>2. k \in At(q, v) BY <1>1, <3>1 DEF At
    <3> QED BY <1>4, <2>2, <3>2
  <2>3. CASE ~(k < i)
    <3>1. k - 1 \in 1..n /\ q[k - 1] = v /\ ~(k - 1 < i) /\ (k - 1) + 1 = k BY <1>2, <2>1, <2>3
    <3>2. k - 1 \in At(q, v) BY <1>1, <3>1 DEF At
    <3> QED BY <1>4, <3>1, <3>2
  <2> QED BY <2>2, <2>3
<1>8. IsFiniteSet(P) /\ Cardinality(P) = Count(q, v)
  <2>1. P \subseteq At(r, v) BY <1>3
  <2>2. Corresponds(q, v, P, f) BY <1>5, <1>6, <1>7 DEF Corresponds
  <2> QED BY <1>2, <2>1, <2>2, CountSame, Zenon
<1>9. CASE v = e
  <2>1. At(r, v) = P \cup {i} /\ i \notin P
    <3>1. r[i] = e BY <1>2
    <3>2. i \in At(r, v) BY <1>2, <1>9, <3>1 DEF At
    <3> QED BY <1>3, <3>2
  <2>2. Cardinality(P \cup {i}) = Cardinality(P) + 1
    BY <1>8, <2>1, FS_AddElement
  <2> QED BY <1>8, <1>9, <2>1, <2>2 DEF Count
<1>10. CASE v # e
  <2>1. At(r, v) = P
    <3>1. r[i] = e BY <1>2
    <3>2. i \notin At(r, v) BY <1>10, <3>1 DEF At
    <3> QED BY <1>3, <3>2
  <2> QED BY <1>8, <1>10, <2>1 DEF Count
<1> QED BY <1>9, <1>10

\* The same one more.
LEMMA SameAndOneMore ==
  ASSUME NEW o, NEW p, SameBag(o, p), NEW e, NEW t, CountsOneMore(o, e, t), NEW r, CountsOneMore(p, e, r)
  PROVE  SameBag(t, r)
BY DEF SameBag, CountsOneMore

\* The same one less.
LEMMA SameAndOneLess ==
  ASSUME NEW o, NEW p, Len(o) \in Nat, Len(p) \in Nat, NEW e, NEW t, CountsOneMore(o, e, t), NEW r, CountsOneMore(p, e, r), SameBag(t, r)
  PROVE  SameBag(o, p)
<1> SUFFICES ASSUME NEW v PROVE Count(o, v) = Count(p, v)
  BY DEF SameBag
<1>1. Count(o, v) \in Nat /\ Count(p, v) \in Nat
  BY AtFinite
<1>2. /\ Count(t, v) = Count(r, v) /\ Count(t, v) = IF v = e THEN Count(o, v) + 1 ELSE Count(o, v)
      /\ Count(r, v) = IF v = e THEN Count(p, v) + 1 ELSE Count(p, v)
  BY DEF SameBag, CountsOneMore
<1>3. PICK x, y : x = Count(o, v) /\ y = Count(p, v)
  BY Zenon
<1>4. CASE v = e
  <2>1. x + 1 = y + 1 /\ x \in Nat /\ y \in Nat BY <1>1, <1>2, <1>3, <1>4
  <2>2. x = y BY ONLY <2>1
  <2> QED BY <1>3, <2>2
<1>5. CASE v # e
  BY <1>2, <1>5
<1> QED BY <1>4, <1>5

\* Reverse, of SequencesExt.
LEMMA Reversed ==
  ASSUME NEW S, NEW q, q \in Seq(S), NEW r, r = Reverse(q)
  PROVE  r \in Seq(S) /\ Len(r) = Len(q) /\ (\A i \in 1..Len(q) : r[i] = q[Len(q) - i + 1]) /\ SameBag(r, q)
<1>1. PICK n : n = Len(q)
  BY Zenon
<1>2. n \in Nat /\ Len(q) \in Nat /\ \A i \in 1..n : q[i] \in S /\ n - i + 1 \in 1..n
  BY <1>1
<1>3. r = [i \in 1..n |-> q[(n - i) + 1]]
  BY <1>1, Zenon DEF Reverse
<1>4. r \in [1..n -> S] /\ \A i \in 1..n : r[i] = q[n - i + 1]
  BY <1>2, <1>3
<1>5. r \in Seq(S) /\ Len(r) = n
  BY <1>2, <1>4
<1>6. ASSUME NEW v PROVE Count(r, v) = Count(q, v)
  <2>1. PICK f, P : P = At(q, v) /\ f = [i \in At(r, v) |-> n - i + 1]
    BY Zenon
  <2>2. ASSUME NEW i \in At(r, v) PROVE f[i] \in P /\ f[i] = n - i + 1 /\ i \in 1..n
    <3>1. i \in 1..n /\ r[i] = v BY <1>5 DEF At
    <3>2. n - i + 1 \in 1..n /\ q[n - i + 1] = v BY <1>2, <1>4, <3>1
    <3> QED BY <1>1, <2>1, <3>1, <3>2 DEF At
  <2>3. f \in [At(r, v) -> P] BY <2>1, <2>2
  <2>4. \A i, j \in At(r, v) : f[i] = f[j] => i = j
    <3> SUFFICES ASSUME NEW i \in At(r, v), NEW j \in At(r, v), f[i] = f[j] PROVE i = j
      OBVIOUS
    <3>1. n - i + 1 = n - j + 1 /\ i \in 1..n /\ j \in 1..n BY <2>2
    <3> QED BY <1>2, <3>1
  <2>5. \A k \in P : \E i \in At(r, v) : f[i] = k
    <3> SUFFICES ASSUME NEW k \in P PROVE \E i \in At(r, v) : f[i] = k
      OBVIOUS
    <3>1. k \in 1..n /\ q[k] = v BY <1>1, <2>1 DEF At
    <3>2. n - k + 1 \in 1..n /\ n - (n - k + 1) + 1 = k BY <1>2, <3>1
    <3>3. r[n - k + 1] = v BY <1>4, <3>1, <3>2
    <3>4. n - k + 1 \in At(r, v) BY <1>5, <3>2, <3>3 DEF At
    <3> QED BY <2>2, <3>2, <3>4
  <2>6. P \subseteq At(q, v) /\ Len(q) \in Nat /\ Len(r) \in Nat BY <1>2, <1>5, <2>1
  <2>7. Cardinality(P) = Count(r, v)
    <3>1. Corresponds(r, v, P, f) BY <2>3, <2>4, <2>5 DEF Corresponds
    <3> QED BY <2>6, <3>1, CountSame, Zenon
  <2> QED BY <2>1, <2>7 DEF Count
<1> QED BY <1>1, <1>4, <1>5, <1>6 DEF SameBag

-----------------------------------------------------------------------------
(* Orders.                                                                 *)

Ordered(by, q) == \A i, j \in 1..Len(q) : i < j => ~Less(by, q[j], q[i])

WeakOrder(by, S) ==
  /\ \A a, b, c \in S : ~Less(by, a, b) /\ ~Less(by, b, c) => ~Less(by, a, c)
  /\ \A a, b \in S : Less(by, a, b) => ~Less(by, b, a)

TotalOrder(by, S) == WeakOrder(by, S) /\ \A a, b \in S : ~Less(by, a, b) /\ ~Less(by, b, a) => a = b

Prefix(q, k) == [i \in 1..k |-> q[i]]

\* Places from the first on.
LEMMA FirstPlaces ==
  ASSUME NEW n, n \in Nat, NEW T, T \subseteq 1..n, \A j \in T : \A i \in 1..j : i \in T
  PROVE  T = 1..Cardinality(T) /\ Cardinality(T) \in 0..n
<1>1. PICK U : U = {k \in 1..(n + 1) : k \notin T}
  BY Zenon
<1>2. U \subseteq Nat /\ n + 1 \in U
  BY <1>1
<1>3. PICK k \in U : \A j \in U : k <= j
  BY <1>2, LeastNatural
<1>4. k \in 1..(n + 1) /\ k \notin T
  BY <1>1
<1>5. T = 1..(k - 1)
  <2>1. ASSUME NEW j \in T PROVE j \in 1..(k - 1)
    <3>1. j \in 1..n OBVIOUS
    <3>2. ~(k <= j)
      <4> SUFFICES ASSUME k <= j PROVE FALSE
        OBVIOUS
      <4>1. k \in 1..j BY <1>4, <3>1
      <4> QED BY <1>4, <4>1
    <3> QED BY <1>4, <3>1, <3>2
  <2>2. ASSUME NEW j \in 1..(k - 1) PROVE j \in T
    <3>1. j \in 1..(n + 1) /\ ~(k <= j) BY <1>4
    <3> QED BY <1>1, <1>3, <3>1
  <2> QED BY <2>1, <2>2
<1>6. Cardinality(1..(k - 1)) = k - 1
  <2>1. 1 \in Int /\ k - 1 \in Int BY <1>4
  <2>2. Cardinality(1..(k - 1)) = IF 1 > k - 1 THEN 0 ELSE (k - 1) - 1 + 1 BY <2>1, FS_Interval
  <2> QED BY <1>4, <2>2
<1> QED BY <1>4, <1>5, <1>6

\* SortIn keeps a sequence ordered.
Placed(S, by, q, e, r) ==
  (\E i : i \in 1..(Len(q) + 1) /\ OneMore(S, q, i, e, r)) /\ (WeakOrder(by, S) /\ Ordered(by, q) => Ordered(by, r))

\* It puts an element behind the ones it does not precede.
LEMMA SortInOrder ==
  ASSUME NEW S, NEW by, NEW q, q \in Seq(S), NEW e, e \in S, NEW r, r = SortIn(q, e, by)
  PROVE  Placed(S, by, q, e, r)
<1>1. PICK i0 : i0 \in 1..(Len(q) + 1) /\ OneMore(S, q, i0, e, r)
  BY SortInPlace, Zenon
<1>2. ASSUME WeakOrder(by, S), Ordered(by, q) PROVE Ordered(by, r)
  <2>1. PICK n, T, i : n = Len(q) /\ T = {j \in DOMAIN q : ~Less(by, e, q[j])} /\ i = 1 + Cardinality(T)
    BY Zenon
  <2>2. n \in Nat /\ DOMAIN q = 1..n /\ \A j \in 1..n : q[j] \in S
    BY <2>1
  <2>3. \A j \in T : \A k \in 1..j : k \in T
    <3> SUFFICES ASSUME NEW j \in T, NEW k \in 1..j PROVE k \in T
      OBVIOUS
    <3>1. j \in 1..n /\ k \in 1..n /\ (k < j \/ k = j) /\ ~Less(by, e, q[j]) BY <2>1, <2>2
    <3>2. CASE k < j
      <4>1. ~Less(by, q[j], q[k]) BY <1>2, <2>1, <3>1, <3>2 DEF Ordered
      <4>2. q[j] \in S /\ q[k] \in S BY <2>2, <3>1
      <4>3. ~Less(by, e, q[k]) BY <1>2, <3>1, <4>1, <4>2 DEF WeakOrder
      <4> QED BY <2>1, <2>2, <3>1, <4>3
    <3> QED BY <3>1, <3>2
  <2>4. T = 1..Cardinality(T) /\ Cardinality(T) \in 0..n
    <3>1. T \subseteq 1..n BY <2>1, <2>2
    <3>2. n \in Nat BY <2>2
    <3> QED BY ONLY <2>3, <3>1, <3>2, FirstPlaces
  <2>5. T = 1..(i - 1) /\ i \in 1..(n + 1) /\ i \in Nat
    <3>1. PICK c : c = Cardinality(T) BY Zenon
    <3>2. n \in Nat /\ c \in 0..n /\ T = 1..c /\ i = 1 + c BY <2>1, <2>2, <2>4, <3>1
    <3>3. i - 1 = c /\ i \in 1..(n + 1) /\ i \in Nat BY ONLY <3>2
    <3> QED BY <3>2, <3>3
  <2>6. \A j \in 1..n : (j < i => ~Less(by, e, q[j])) /\ (i <= j => Less(by, e, q[j]))
    <3> SUFFICES ASSUME NEW j \in 1..n PROVE (j < i => ~Less(by, e, q[j])) /\ (i <= j => Less(by, e, q[j]))
      OBVIOUS
    <3>1. j \in T <=> j < i BY <2>2, <2>5
    <3>2. j \in T <=> ~Less(by, e, q[j]) BY <2>1, <2>2
    <3> QED BY <2>2, <2>5, <3>1, <3>2
  <2>7. \A j \in 1..n : i <= j => ~Less(by, q[j], e)
    BY <1>2, <2>2, <2>6 DEF WeakOrder
  <2>8. Len(r) = n + 1 /\ \A j \in 1..(n + 1) : r[j] = IF j < i THEN q[j] ELSE IF j = i THEN e ELSE q[j - 1]
    <3>1. r = InsertAt(q, i, e) BY <2>1, Zenon DEF SortIn
    <3>2. i \in 1..(Len(q) + 1) BY <2>1, <2>5
    <3>3. OneMore(S, q, i, e, r) BY <3>1, <3>2, Inserted, Zenon
    <3> QED BY <2>1, <3>3 DEF OneMore
  <2>9. \A j, k \in 1..n : j < k => ~Less(by, q[k], q[j])
    BY <1>2, <2>1 DEF Ordered
  <2>10. ASSUME NEW a \in 1..(n + 1), NEW b \in 1..(n + 1), a < b PROVE ~Less(by, r[b], r[a])
    <3>1. CASE b < i
      <4>1. a < i /\ a \in 1..n /\ b \in 1..n BY <2>2, <2>5, <2>10, <3>1
      <4> QED BY <2>8, <2>9, <2>10, <3>1, <4>1
    <3>2. CASE b = i
      <4>1. a < i /\ a \in 1..n /\ ~(b < i) BY <2>2, <2>5, <2>10, <3>2
      <4>2. r[a] = q[a] /\ r[b] = e BY <2>8, <3>2, <4>1
      <4> QED BY <2>6, <4>1, <4>2
    <3>3. CASE b > i /\ a < i
      <4>1. a \in 1..n /\ b - 1 \in 1..n /\ a < b - 1 /\ ~(b < i) /\ b # i BY <2>2, <2>5, <2>10, <3>3
      <4>2. r[a] = q[a] /\ r[b] = q[b - 1] BY <2>8, <3>3, <4>1
      <4> QED BY <2>9, <4>1, <4>2
    <3>4. CASE b > i /\ a = i
      <4>1. b - 1 \in 1..n /\ i <= b - 1 /\ ~(b < i) /\ b # i /\ ~(a < i) BY <2>2, <2>5, <2>10, <3>4
      <4>2. r[a] = e /\ r[b] = q[b - 1] BY <2>8, <3>4, <4>1
      <4> QED BY <2>7, <4>1, <4>2
    <3>5. CASE b > i /\ a > i
      <4>1. a - 1 \in 1..n /\ b - 1 \in 1..n /\ a - 1 < b - 1 /\ ~(b < i) /\ b # i /\ ~(a < i) /\ a # i BY <2>2, <2>5, <2>10, <3>5
      <4>2. r[a] = q[a - 1] /\ r[b] = q[b - 1] BY <2>8, <4>1
      <4> QED BY <2>9, <4>1, <4>2
    <3> QED BY <2>5, <3>1, <3>2, <3>3, <3>4, <3>5
  <2> QED BY <2>8, <2>10 DEF Ordered
<1> QED BY <1>1, <1>2, Zenon DEF Placed

\* The beginnings of a sequence.
Grows(S, q, n) ==
  /\ n \in Nat /\ Prefix(q, 0) = <<>> /\ Prefix(q, n) = q
  /\ \A k \in 0..n : Prefix(q, k) \in Seq(S) /\ Len(Prefix(q, k)) = k /\ \A i \in 1..k : Prefix(q, k)[i] = q[i]
  /\ \A k \in 1..n : q[k] \in S /\ k \in 1..(Len(Prefix(q, k - 1)) + 1) /\ OneMore(S, Prefix(q, k - 1), k, q[k], Prefix(q, k))

\* Each is the one before and an element more.
LEMMA Beginnings ==
  ASSUME NEW S, NEW q, q \in Seq(S)
  PROVE  Grows(S, q, Len(q))
<1>1. PICK n : n = Len(q)
  BY Zenon
<1>2. n \in Nat /\ q = [i \in 1..n |-> q[i]] /\ \A i \in 1..n : q[i] \in S
  BY <1>1
<1>3. ASSUME NEW k \in 0..n PROVE Prefix(q, k) \in Seq(S) /\ Len(Prefix(q, k)) = k /\ \A i \in 1..k : Prefix(q, k)[i] = q[i]
  <2>1. PICK p : p = Prefix(q, k) BY Zenon
  <2>2. k \in Nat /\ \A i \in 1..k : i \in 1..n BY <1>2
  <2>3. p = [i \in 1..k |-> q[i]] BY <2>1 DEF Prefix
  <2>4. p \in [1..k -> S] BY <1>2, <2>2, <2>3
  <2>5. p \in Seq(S) /\ Len(p) = k BY <2>2, <2>4
  <2> QED BY <2>1, <2>3, <2>5
<1>4. Prefix(q, n) = q
  BY <1>2 DEF Prefix
<1>5. Prefix(q, 0) = <<>>
  BY DEF Prefix
<1>6. ASSUME NEW k \in 1..n PROVE k \in 1..(Len(Prefix(q, k - 1)) + 1) /\ OneMore(S, Prefix(q, k - 1), k, q[k], Prefix(q, k))
  <2>1. PICK p, r, m : p = Prefix(q, m) /\ r = Prefix(q, k) /\ m = k - 1 BY Zenon
  <2>2. m \in 0..n /\ k \in 0..n /\ k \in Nat /\ m + 1 = k BY <1>2, <2>1
  <2>3. Len(p) = m /\ (\A i \in 1..m : p[i] = q[i]) /\ r \in Seq(S) /\ Len(r) = k /\ \A i \in 1..k : r[i] = q[i]
    BY <1>3, <2>1, <2>2
  <2>4. ASSUME NEW j \in 1..k PROVE r[j] = IF j < k THEN p[j] ELSE IF j = k THEN q[k] ELSE p[j - 1]
    <3>1. CASE j < k
      <4>1. j \in 1..m BY <2>2, <3>1
      <4> QED BY <2>3, <3>1, <4>1
    <3>2. CASE ~(j < k)
      <4>1. j = k BY <2>2, <3>2
      <4> QED BY <2>3, <3>2, <4>1
    <3> QED BY <3>1, <3>2
  <2>5. OneMore(S, p, k, q[k], r)
    BY <2>2, <2>3, <2>4 DEF OneMore
  <2>6. k \in 1..(Len(p) + 1) BY <2>2, <2>3
  <2> QED BY <2>1, <2>5, <2>6
<1>7. Grows(S, q, n)
  BY <1>2, <1>3, <1>4, <1>5, <1>6 DEF Grows
<1> QED BY <1>1, <1>7

\* What std::stable_sort promises.
SortOf(S, by, q, r) == r \in Seq(S) /\ Len(r) = Len(q) /\ SameBag(r, q) /\ (WeakOrder(by, S) => Ordered(by, r))

\* And keeps.
LEMMA SortSorts ==
  ASSUME NEW S, NEW by, NEW q, q \in Seq(S)
  PROVE  SortOf(S, by, q, StableSort(q, by))
<1>1. PICK n, start : n = Len(q) /\ n \in Nat /\ start = <<>>
  <2>1. Len(q) \in Nat BY LenProperties
  <2> QED BY <2>1, Zenon
<1>2. "sort" # "append" /\ "sort" # "halve" /\ "sort" # "insert" /\ "sort" # "put"
  OBVIOUS
<1>3. PICK a : Loop("sort", by, start, q, n, a) /\ StableSort(q, by) = a[n]
  <2>1. \E a : Loop("sort", by, start, q, n, a)
    BY ONLY <1>1, LoopRuns
  <2>2. \A a : Loop("sort", by, start, q, n, a) <=>
          a = [k \in 0..Len(q) |-> IF k = 0 THEN <<>> ELSE SortIn(a[k - 1], q[k], by)]
    BY <1>1, <1>2, Zenon DEF Loop, After
  <2> QED BY <1>1, <2>1, <2>2, Zenon DEF StableSort
<1>4. a[0] = start /\ \A k \in 1..n : a[k] = SortIn(a[k - 1], q[k], by)
  <2>1. n \in Nat /\ Loop("sort", by, start, q, n, a) BY <1>1, <1>3
  <2>2. a[0] = start /\ \A k \in 1..n : a[k] = After("sort", by, a[k - 1], q[k])
    BY ONLY <2>1, LoopTurns
  <2> QED BY <1>2, <2>2, Zenon DEF After
<1>5. Grows(S, q, n)
  BY <1>1, Beginnings
<1>6. PICK SS : SS = {k \in 0..n : SortOf(S, by, Prefix(q, k), a[k])}
  BY Zenon
<1>7. 0 \in SS
  <2>1. <<>> \in Seq(S) /\ Len(<<>>) = 0 OBVIOUS
  <2>2. SortOf(S, by, <<>>, <<>>)
    BY <2>1 DEF SortOf, SameBag, Ordered
  <2>3. 0 \in 0..n /\ Prefix(q, 0) = <<>> BY <1>1, <1>5 DEF Grows
  <2> QED BY <1>1, <1>4, <1>6, <2>2, <2>3
<1>8. ASSUME NEW k \in 1..n, k - 1 \in SS PROVE k \in SS
  <2>1. PICK p, r, e, o, t : p = Prefix(q, k - 1) /\ r = Prefix(q, k) /\ e = q[k] /\ o = a[k - 1] /\ t = a[k]
    BY Zenon
  <2>2. k \in 0..n /\ k \in Nat /\ k - 1 \in 0..n BY <1>1
  <2>3. p \in Seq(S) /\ Len(p) = k - 1 /\ Len(r) = k
    BY <1>5, <2>1, <2>2 DEF Grows
  <2>4. e \in S /\ k \in 1..(Len(p) + 1) /\ OneMore(S, p, k, e, r)
    BY <1>5, <2>1 DEF Grows
  <2>5. SortOf(S, by, p, o) BY <1>6, <1>8, <2>1
  <2>6. o \in Seq(S) /\ Len(o) = k - 1 /\ SameBag(o, p) /\ (WeakOrder(by, S) => Ordered(by, o))
    BY <2>3, <2>5 DEF SortOf
  <2>7. t = SortIn(o, e, by) BY <1>4, <2>1
  <2>8. Placed(S, by, o, e, t) BY <2>4, <2>6, <2>7, SortInOrder, Zenon
  <2>9. PICK i : i \in 1..(Len(o) + 1) /\ OneMore(S, o, i, e, t) BY <2>8 DEF Placed
  <2>10. t \in Seq(S) /\ Len(t) = k BY <2>2, <2>6, <2>9 DEF OneMore
  <2>11. WeakOrder(by, S) => Ordered(by, t) BY <2>6, <2>8, Zenon DEF Placed
  <2>12. SameBag(t, r)
    <3>1. CountsOneMore(o, e, t)
      BY <2>6, <2>9, CountOneMore, Zenon
    <3>2. CountsOneMore(p, e, r)
      BY <2>3, <2>4, CountOneMore, Zenon
    <3> QED BY <2>6, <3>1, <3>2, SameAndOneMore, Zenon
  <2>13. SortOf(S, by, r, t)
    BY <2>3, <2>10, <2>11, <2>12, Zenon DEF SortOf
  <2> QED BY <1>6, <2>1, <2>2, <2>13
<1>9. n \in SS
  BY ONLY <1>1, <1>7, <1>8, SetInduction
<1>10. SortOf(S, by, Prefix(q, n), a[n])
  BY <1>6, <1>9
<1>11. Prefix(q, n) = q
  BY <1>5 DEF Grows
<1> QED BY <1>3, <1>10, <1>11

\* The last of an ordered sequence.
LEMMA OrderedFront ==
  ASSUME NEW S, NEW by, NEW q, q \in Seq(S), Ordered(by, q), NEW k, k = Len(q), k # 0, NEW p, p = Prefix(q, k - 1)
  PROVE  /\ k \in Nat /\ k - 1 \in Nat /\ p \in Seq(S) /\ Len(p) = k - 1 /\ Ordered(by, p) /\ q[k] \in S
         /\ k \in 1..(Len(p) + 1) /\ OneMore(S, p, k, q[k], q)
<1>1. Grows(S, q, k)
  BY Beginnings
<1>2. k \in Nat /\ k \in 1..k /\ k - 1 \in 0..k /\ k - 1 \in Nat /\ \A i \in 1..(k - 1) : i \in 1..k
  <2>1. k \in Nat BY <1>1 DEF Grows
  <2> QED BY <2>1
<1>3. p \in Seq(S) /\ Len(p) = k - 1 /\ \A i \in 1..(k - 1) : p[i] = q[i]
  BY <1>1, <1>2 DEF Grows
<1>4. Prefix(q, k) = q
  BY <1>1 DEF Grows
<1>5. q[k] \in S /\ k \in 1..(Len(p) + 1) /\ OneMore(S, p, k, q[k], q)
  BY <1>1, <1>2, <1>4 DEF Grows
<1>6. Ordered(by, p)
  BY <1>2, <1>3 DEF Ordered
<1> QED BY <1>2, <1>3, <1>5, <1>6

\* What comes last precedes nothing.
LEMMA LastIsLargest ==
  ASSUME NEW S, NEW by, WeakOrder(by, S), NEW q, q \in Seq(S), Ordered(by, q), NEW k, k = Len(q), k # 0, NEW v, v \in S, Count(q, v) # 0
  PROVE  ~Less(by, q[k], v)
<1>1. k \in Nat /\ k \in 1..k
  <2>1. k \in Nat BY LenProperties
  <2> QED BY <2>1
<1>2. PICK i \in 1..k : q[i] = v
  BY <1>1, Occurs
<1>3. q[k] \in S
  BY <1>1
<1>4. CASE i = k
  BY <1>2, <1>3, <1>4 DEF WeakOrder
<1>5. CASE i # k
  <2>1. i < k BY <1>1, <1>5
  <2> QED BY <1>1, <1>2, <2>1 DEF Ordered
<1> QED BY <1>4, <1>5

\* Ordered sequences with the same elements.
AreOne(S, by, a, b) == Ordered(by, a) /\ Ordered(by, b) /\ SameBag(a, b) => a = b

\* A sequence without an element has none counted.
LEMMA NoneCounted ==
  ASSUME NEW S, NEW a, a \in Seq(S), NEW b, b \in Seq(S), SameBag(a, b), Len(a) = 0
  PROVE  Len(b) = 0
<1>1. Len(b) \in Nat /\ Len(a) \in Nat
  BY LenProperties
<1> SUFFICES ASSUME Len(b) # 0 PROVE FALSE
  OBVIOUS
<1>2. PICK v : v = b[1]
  BY Zenon
<1>3. 1 \in 1..Len(b) /\ ~ \E i \in 1..Len(a) : a[i] = v
  BY <1>1
<1>4. Count(b, v) # 0
  <2>1. \E i \in 1..Len(b) : b[i] = v BY <1>2, <1>3
  <2> QED BY <1>1, <2>1, Occurs
<1>5. ~(Count(a, v) # 0)
  BY <1>1, <1>3, Occurs
<1> QED BY <1>4, <1>5 DEF SameBag

\* There is one ordered sequence of given elements.
LEMMA OneOrder ==
  ASSUME NEW S, NEW by, TotalOrder(by, S), NEW q, q \in Seq(S), NEW r, r \in Seq(S), Ordered(by, q), Ordered(by, r), SameBag(q, r)
  PROVE  q = r
<1>1. PICK n : n = Len(q) /\ n \in Nat
  <2>1. Len(q) \in Nat BY LenProperties
  <2> QED BY <2>1, Zenon
<1>2. PICK SS : SS = {k \in 0..n : \A a, b \in Seq(S) : Len(a) = k => AreOne(S, by, a, b)}
  BY Zenon
<1>3. 0 \in SS
  <2>1. ASSUME NEW a \in Seq(S), NEW b \in Seq(S), Len(a) = 0, SameBag(a, b) PROVE a = b
    <3>1. Len(b) = 0 BY <2>1, NoneCounted, Zenon
    <3>2. a = <<>> /\ b = <<>> BY <2>1, <3>1, EmptySeq
    <3> QED BY <3>2
  <2>2. 0 \in 0..n BY <1>1
  <2> QED BY <1>2, <2>1, <2>2 DEF AreOne
<1>4. ASSUME NEW k \in 1..n, k - 1 \in SS PROVE k \in SS
  <2>1. ASSUME NEW a \in Seq(S), NEW b \in Seq(S), Len(a) = k, Ordered(by, a), Ordered(by, b), SameBag(a, b) PROVE a = b
    <3>1. PICK m, c, d, x, y : m = Len(b) /\ c = Prefix(a, k - 1) /\ d = Prefix(b, m - 1) /\ x = a[k] /\ y = b[m]
      BY Zenon
    <3>2. k \in Nat /\ k # 0 /\ m \in Nat /\ k = Len(a) /\ Len(a) \in Nat /\ Len(b) \in Nat
      <4>1. Len(b) \in Nat /\ Len(a) \in Nat BY LenProperties
      <4> QED BY <1>1, <2>1, <3>1, <4>1
    <3>3. m # 0
      <4> SUFFICES ASSUME m = 0 PROVE FALSE
        OBVIOUS
      <4>1. SameBag(b, a) BY <2>1 DEF SameBag
      <4>2. Len(a) = 0 BY <3>1, <4>1, NoneCounted, Zenon
      <4> QED BY <3>2, <4>2
    <3>4. /\ k - 1 \in Nat /\ c \in Seq(S) /\ Len(c) = k - 1 /\ Ordered(by, c) /\ x \in S
          /\ k \in 1..(Len(c) + 1) /\ OneMore(S, c, k, x, a)
      BY <2>1, <3>1, <3>2, OrderedFront, SMTT(30)
    <3>5. /\ m - 1 \in Nat /\ d \in Seq(S) /\ Len(d) = m - 1 /\ Ordered(by, d) /\ y \in S
          /\ m \in 1..(Len(d) + 1) /\ OneMore(S, d, m, y, b)
      BY <2>1, <3>1, <3>3, OrderedFront
    <3>6. Count(a, x) # 0 /\ Count(b, y) # 0
      <4>1. k \in 1..Len(a) /\ m \in 1..Len(b) BY <3>1, <3>2, <3>3
      <4> QED BY <3>1, <3>2, <4>1, Occurs
    <3>7. Count(b, x) # 0 /\ Count(a, y) # 0
      BY <2>1, <3>6 DEF SameBag
    <3>8. WeakOrder(by, S) BY DEF TotalOrder
    <3>9. ~Less(by, x, y)
      BY <2>1, <3>1, <3>2, <3>5, <3>7, <3>8, LastIsLargest, Zenon
    <3>10. ~Less(by, y, x)
      BY <2>1, <3>1, <3>3, <3>4, <3>7, <3>8, LastIsLargest, Zenon
    <3>11. x = y
      BY <3>4, <3>5, <3>9, <3>10 DEF TotalOrder
    <3>12. SameBag(c, d)
      <4>1. CountsOneMore(c, x, a) BY <3>4, CountOneMore, Zenon
      <4>2. CountsOneMore(d, x, b) BY <3>5, <3>11, CountOneMore, Zenon
      <4>3. Len(c) \in Nat /\ Len(d) \in Nat BY <3>4, <3>5
      <4> QED BY <2>1, <4>1, <4>2, <4>3, SameAndOneLess, Zenon
    <3>13. c = d
      <4>1. AreOne(S, by, c, d) BY <1>2, <1>4, <3>4, <3>5
      <4> QED BY <3>4, <3>5, <3>12, <4>1 DEF AreOne
    <3>14. m = k
      <4>1. k - 1 = m - 1 BY <3>4, <3>5, <3>13
      <4> QED BY <3>2, <4>1
    <3>15. Len(b) = k /\ \A j \in 1..k : a[j] = b[j]
      <4>1. \A j \in 1..((k - 1) + 1) : a[j] = IF j < k THEN c[j] ELSE IF j = k THEN x ELSE c[j - 1]
        BY <3>4 DEF OneMore
      <4>2. \A j \in 1..((k - 1) + 1) : b[j] = IF j < k THEN c[j] ELSE IF j = k THEN x ELSE c[j - 1]
        BY <3>4, <3>5, <3>11, <3>13, <3>14 DEF OneMore
      <4>3. (k - 1) + 1 = k BY <3>2
      <4> QED BY <3>1, <3>14, <4>1, <4>2, <4>3
    <3>16. a \in Seq(S) /\ b \in Seq(S) /\ Len(a) = Len(b) /\ \A j \in 1..Len(a) : a[j] = b[j] BY <2>1, <3>15
    <3> QED BY ONLY <3>16, SeqEqual
  <2>2. k \in 0..n BY <1>1
  <2> QED BY <1>2, <2>1, <2>2 DEF AreOne
<1>5. n \in SS
  BY ONLY <1>1, <1>3, <1>4, SetInduction
<1>6. AreOne(S, by, q, r)
  BY <1>1, <1>2, <1>5
<1> QED BY <1>6 DEF AreOne

\* There is one sequence with an element more.
LEMMA OneMoreOnce ==
  ASSUME NEW S, NEW q, q \in Seq(S), NEW i, NEW e, NEW r, OneMore(S, q, i, e, r), NEW t, OneMore(S, q, i, e, t)
  PROVE  r = t
<1>1. r \in Seq(S) /\ t \in Seq(S) /\ Len(r) = Len(q) + 1 /\ Len(t) = Len(q) + 1
  BY DEF OneMore
<1>2. Len(r) = Len(t) /\ \A j \in 1..Len(r) : r[j] = t[j]
  BY <1>1 DEF OneMore
<1> QED BY ONLY <1>1, <1>2, SeqEqual

\* push_back.
LEMMA AppendedIsOneMore ==
  ASSUME NEW S, NEW q, q \in Seq(S), NEW e, e \in S, NEW i, i = Len(q) + 1
  PROVE  i \in 1..(Len(q) + 1) /\ OneMore(S, q, i, e, Append(q, e)) /\ \A r : OneMore(S, q, i, e, r) => Append(q, e) = r
<1>1. PICK n, t : n = Len(q) /\ n \in Nat /\ t = Append(q, e)
  <2>1. Len(q) \in Nat BY LenProperties
  <2> QED BY <2>1, Zenon
<1>2. t \in Seq(S) /\ Len(t) = n + 1 /\ t[n + 1] = e /\ \A j \in 1..n : t[j] = q[j]
  BY <1>1, AppendProperties
<1>3. ASSUME NEW j \in 1..(n + 1) PROVE t[j] = IF j < i THEN q[j] ELSE IF j = i THEN e ELSE q[j - 1]
  <2>1. CASE j < i
    <3>1. j \in 1..n BY <1>1, <2>1
    <3> QED BY <1>2, <2>1, <3>1
  <2>2. CASE ~(j < i)
    <3>1. j = i /\ i = n + 1 BY <1>1, <2>2
    <3> QED BY <1>2, <2>2, <3>1
  <2> QED BY <2>1, <2>2
<1>4. OneMore(S, q, i, e, t)
  BY <1>1, <1>2, <1>3 DEF OneMore
<1>5. \A r : OneMore(S, q, i, e, r) => t = r
  BY <1>4, OneMoreOnce, Zenon
<1> QED BY <1>1, <1>4, <1>5

\* push_front.
LEMMA PrependedIsOneMore ==
  ASSUME NEW S, NEW q, q \in Seq(S), NEW e, e \in S
  PROVE  1 \in 1..(Len(q) + 1) /\ OneMore(S, q, 1, e, <<e>> \o q)
<1>1. PICK n, t, b : n = Len(q) /\ n \in Nat /\ b = <<e>> /\ t = b \o q
  <2>1. Len(q) \in Nat BY LenProperties
  <2> QED BY <2>1, Zenon
<1>2. b \in Seq(S) /\ Len(b) = 1 /\ b[1] = e
  BY <1>1
<1>3. t \in Seq(S) /\ Len(t) = Len(b) + Len(q) /\ \A j \in 1..(Len(b) + Len(q)) : t[j] = IF j <= Len(b) THEN b[j] ELSE q[j - Len(b)]
  BY <1>1, <1>2, ConcatProperties
<1>4. Len(t) = n + 1 /\ \A j \in 1..(n + 1) : t[j] = IF j < 1 THEN q[j] ELSE IF j = 1 THEN e ELSE q[j - 1]
  BY <1>1, <1>2, <1>3
<1>5. OneMore(S, q, 1, e, t)
  BY <1>1, <1>3, <1>4 DEF OneMore
<1> QED BY <1>1, <1>5

\* The comparators.
LEMMA Comparators ==
  ASSUME NEW a, NEW b
  PROVE  (Less("smaller", a, b) <=> a < b) /\ (Less("larger", a, b) <=> a > b) /\ (Less("key", a, b) <=> a[1] < b[1])
<1>1. "smaller" # "key" /\ "smaller" # "value" /\ "larger" # "key" /\ "larger" # "value" /\ "larger" # "smaller" /\ "key" # "value"
  OBVIOUS
<1> QED BY <1>1 DEF Less

\* std::less and std::greater tell all values apart, a multimap only keys.
LEMMA Comparing ==
  ASSUME NEW S, S \subseteq Int, NEW E, \A e \in E : e[1] \in Int
  PROVE  TotalOrder("smaller", S) /\ TotalOrder("larger", S) /\ WeakOrder("key", E)
<1>1. WeakOrder("smaller", S) /\ \A a, b \in S : ~Less("smaller", a, b) /\ ~Less("smaller", b, a) => a = b
  <2>1. \A a, b \in S : Less("smaller", a, b) <=> a < b BY Comparators
  <2>2. \A a, b \in S : ~(a < b) /\ ~(b < a) => a = b OBVIOUS
  <2>3. \A a, b, c \in S : ~(a < b) /\ ~(b < c) => ~(a < c) OBVIOUS
  <2>4. \A a, b \in S : a < b => ~(b < a) OBVIOUS
  <2> QED BY <2>1, <2>2, <2>3, <2>4, Zenon DEF WeakOrder
<1>2. WeakOrder("larger", S) /\ \A a, b \in S : ~Less("larger", a, b) /\ ~Less("larger", b, a) => a = b
  <2>1. \A a, b \in S : Less("larger", a, b) <=> a > b BY Comparators
  <2>2. \A a, b \in S : ~(a > b) /\ ~(b > a) => a = b OBVIOUS
  <2>3. \A a, b, c \in S : ~(a > b) /\ ~(b > c) => ~(a > c) OBVIOUS
  <2>4. \A a, b \in S : a > b => ~(b > a) OBVIOUS
  <2> QED BY <2>1, <2>2, <2>3, <2>4, Zenon DEF WeakOrder
<1>3. WeakOrder("key", E)
  <2>1. \A a, b \in E : Less("key", a, b) <=> a[1] < b[1] BY Comparators
  <2>2. \A a, b, c \in E : ~(a[1] < b[1]) /\ ~(b[1] < c[1]) => ~(a[1] < c[1]) OBVIOUS
  <2>3. \A a, b \in E : a[1] < b[1] => ~(b[1] < a[1]) OBVIOUS
  <2> QED BY <2>1, <2>2, <2>3, Zenon DEF WeakOrder
<1> QED BY <1>1, <1>2, <1>3 DEF TotalOrder

-----------------------------------------------------------------------------
(* What the containers do to a sequence.                                   *)

\* Pushed one by one, everything is there again.
LEMMA PushedAll ==
  ASSUME NEW S, NEW q, q \in Seq(S)
  PROVE  PushAll(q) = q
<1>1. PICK n, start, y : n = Len(q) /\ n \in Nat /\ start = <<>> /\ y = 0
  <2>1. Len(q) \in Nat BY LenProperties
  <2> QED BY <2>1, Zenon
<1>2. "push" # "append" /\ "push" # "halve" /\ "push" # "insert" /\ "push" # "put" /\ "push" # "sort" /\ "push" # "add"
  OBVIOUS
<1>3. PICK a : Loop("push", y, start, q, n, a) /\ PushAll(q) = a[n]
  <2>1. \E a : Loop("push", y, start, q, n, a)
    BY ONLY <1>1, LoopRuns
  <2>2. \A a : Loop("push", y, start, q, n, a) <=>
          a = [k \in 0..Len(q) |-> IF k = 0 THEN <<>> ELSE Append(a[k - 1], q[k])]
    BY <1>1, <1>2, Zenon DEF Loop, After
  <2> QED BY <1>1, <2>1, <2>2, Zenon DEF PushAll
<1>4. a[0] = start /\ \A k \in 1..n : a[k] = Append(a[k - 1], q[k])
  <2>1. n \in Nat /\ Loop("push", y, start, q, n, a) BY <1>1, <1>3
  <2>2. a[0] = start /\ \A k \in 1..n : a[k] = After("push", y, a[k - 1], q[k])
    BY ONLY <2>1, LoopTurns
  <2> QED BY <1>2, <2>2, Zenon DEF After
<1>5. Grows(S, q, n)
  BY <1>1, Beginnings
<1>6. PICK SS : SS = {k \in 0..n : a[k] = Prefix(q, k)}
  BY Zenon
<1>7. 0 \in SS
  <2>1. 0 \in 0..n /\ Prefix(q, 0) = <<>> BY <1>1, <1>5 DEF Grows
  <2> QED BY <1>1, <1>4, <1>6, <2>1
<1>8. ASSUME NEW k \in 1..n, k - 1 \in SS PROVE k \in SS
  <2>1. PICK p, r, e : p = Prefix(q, k - 1) /\ r = Prefix(q, k) /\ e = q[k]
    BY Zenon
  <2>2. k \in 0..n /\ k \in Nat /\ k - 1 \in 0..n BY <1>1
  <2>3. p \in Seq(S) /\ Len(p) = k - 1 /\ e \in S /\ r \in Seq(S) /\ Len(r) = k
    BY <1>5, <2>1, <2>2 DEF Grows
  <2>4. OneMore(S, p, k, e, r)
    BY <1>5, <2>1 DEF Grows
  <2>5. Append(p, e) = r
    BY <2>2, <2>3, <2>4, AppendedIsOneMore
  <2> QED BY <1>4, <1>6, <1>8, <2>1, <2>2, <2>5
<1>9. n \in SS
  BY ONLY <1>1, <1>7, <1>8, SetInduction
<1>10. a[n] = Prefix(q, n)
  BY <1>6, <1>9
<1>11. Prefix(q, n) = q
  BY <1>5 DEF Grows
<1> QED BY <1>3, <1>10, <1>11

\* The turns of std::remove.
Passes(q, x, a) ==
  /\ Len(q) \in Nat /\ a[0] = <<>> /\ Without(q, x) = a[Len(q)]
  /\ \A k \in 1..Len(q) : a[k] = IF q[k] = x THEN a[k - 1] ELSE Append(a[k - 1], q[k])

\* It passes over the sequence once.
LEMMA PassedOver ==
  ASSUME NEW S, NEW q, q \in Seq(S), NEW x
  PROVE  \E a : Passes(q, x, a)
<1>1. PICK n, start : n = Len(q) /\ n \in Nat /\ start = <<>>
  <2>1. Len(q) \in Nat BY LenProperties
  <2> QED BY <2>1, Zenon
<1>2. "keep" # "append" /\ "keep" # "halve" /\ "keep" # "insert" /\ "keep" # "put" /\ "keep" # "sort" /\ "keep" # "add" /\ "keep" # "push"
  OBVIOUS
<1>3. PICK a : Loop("keep", x, start, q, n, a) /\ Without(q, x) = a[n]
  <2>1. \E a : Loop("keep", x, start, q, n, a)
    BY ONLY <1>1, LoopRuns
  <2>2. \A a : Loop("keep", x, start, q, n, a) <=>
          a = [k \in 0..Len(q) |-> IF k = 0 THEN <<>> ELSE IF q[k] = x THEN a[k - 1] ELSE Append(a[k - 1], q[k])]
    BY <1>1, <1>2, Zenon DEF Loop, After
  <2> QED BY <1>1, <2>1, <2>2, Zenon DEF Without
<1>4. a[0] = start /\ \A k \in 1..n : a[k] = IF q[k] = x THEN a[k - 1] ELSE Append(a[k - 1], q[k])
  <2>1. n \in Nat /\ Loop("keep", x, start, q, n, a) BY <1>1, <1>3
  <2>2. a[0] = start /\ \A k \in 1..n : a[k] = After("keep", x, a[k - 1], q[k])
    BY ONLY <2>1, LoopTurns
  <2> QED BY <1>2, <2>2, Zenon DEF After
<1>5. Passes(q, x, a)
  BY <1>1, <1>3, <1>4, Zenon DEF Passes
<1> QED BY <1>5

\* What is left of q without x.
LeftOf(S, q, x, r) ==
  /\ r \in Seq(S) /\ \A v : Count(r, v) = IF v = x THEN 0 ELSE Count(q, v)
  /\ \A by : Ordered(by, q) => Ordered(by, r)

\* An element is passed over.
LEMMA LeftWithout ==
  ASSUME NEW S, NEW p, p \in Seq(S), NEW x, NEW o, LeftOf(S, p, x, o), NEW k, k = Len(p) + 1, NEW r, OneMore(S, p, k, x, r)
  PROVE  LeftOf(S, r, x, o)
<1>1. PICK n : n = Len(p) /\ n \in Nat
  <2>1. Len(p) \in Nat BY LenProperties
  <2> QED BY <2>1, Zenon
<1>2. CountsOneMore(p, x, r)
  <2>1. k \in 1..(Len(p) + 1) BY <1>1
  <2> QED BY <2>1, CountOneMore, Zenon
<1>3. \A v : Count(o, v) = IF v = x THEN 0 ELSE Count(r, v)
  BY <1>2 DEF LeftOf, CountsOneMore
<1>4. ASSUME NEW by, Ordered(by, r) PROVE Ordered(by, p)
  <2>1. Len(r) = n + 1 /\ \A j \in 1..n : j \in 1..(n + 1) /\ r[j] = p[j] BY <1>1 DEF OneMore
  <2> QED BY <1>1, <1>4, <2>1 DEF Ordered
<1>5. \A by : Ordered(by, r) => Ordered(by, o)
  BY <1>4 DEF LeftOf
<1> QED BY <1>3, <1>5 DEF LeftOf

\* An element stays.
LEMMA LeftWith ==
  ASSUME NEW S, NEW p, p \in Seq(S), NEW x, NEW o, LeftOf(S, p, x, o), NEW k, k = Len(p) + 1, NEW e, e \in S, e # x,
         NEW r, OneMore(S, p, k, e, r), NEW t, t = Append(o, e)
  PROVE  LeftOf(S, r, x, t)
<1>1. PICK n, m : n = Len(p) /\ n \in Nat /\ m = Len(o) /\ m \in Nat /\ o \in Seq(S)
  <2>1. o \in Seq(S) BY DEF LeftOf
  <2>2. Len(p) \in Nat /\ Len(o) \in Nat BY <2>1, LenProperties
  <2> QED BY <2>1, <2>2, Zenon
<1>2. CountsOneMore(p, e, r)
  <2>1. k \in 1..(Len(p) + 1) BY <1>1
  <2> QED BY <2>1, CountOneMore, Zenon
<1>3. PICK i : i \in 1..(Len(o) + 1) /\ i = m + 1 /\ OneMore(S, o, i, e, t)
  BY <1>1, AppendedIsOneMore, Zenon
<1>4. CountsOneMore(o, e, t)
  BY <1>1, <1>3, CountOneMore, Zenon
<1>5. \A v : Count(t, v) = IF v = x THEN 0 ELSE Count(r, v)
  BY <1>2, <1>4 DEF LeftOf, CountsOneMore
<1>6. Len(r) = n + 1 /\ r[n + 1] = e /\ \A j \in 1..n : j \in 1..(n + 1) /\ r[j] = p[j]
  <2>1. \A j \in 1..n : j \in 1..(n + 1) /\ j < k BY <1>1
  <2>2. n + 1 \in 1..(n + 1) /\ ~(n + 1 < k) /\ n + 1 = k BY <1>1
  <2> QED BY <1>1, <2>1, <2>2 DEF OneMore
<1>7. Len(t) = m + 1 /\ t[m + 1] = e /\ t \in Seq(S) /\ \A j \in 1..m : t[j] = o[j]
  BY <1>1, AppendProperties
<1>8. ASSUME NEW by, Ordered(by, r) PROVE Ordered(by, t)
  <2>1. Ordered(by, p)
    BY <1>1, <1>6, <1>8 DEF Ordered
  <2>2. Ordered(by, o) BY <2>1 DEF LeftOf
  <2>3. ASSUME NEW a \in 1..m PROVE ~Less(by, e, o[a])
    <3>1. Count(o, o[a]) # 0
      <4>1. \E b \in 1..Len(o) : o[b] = o[a] BY <1>1
      <4> QED BY <1>1, <4>1, Occurs
    <3>2. Count(p, o[a]) # 0 BY <3>1 DEF LeftOf
    <3>3. PICK j \in 1..n : p[j] = o[a] BY <1>1, <3>2, Occurs
    <3>4. j \in 1..(n + 1) /\ n + 1 \in 1..(n + 1) /\ j < n + 1 BY <1>1
    <3>5. ~Less(by, r[n + 1], r[j]) BY <1>6, <1>8, <3>4 DEF Ordered
    <3> QED BY <1>6, <3>3, <3>5
  <2>4. ASSUME NEW a \in 1..(m + 1), NEW b \in 1..(m + 1), a < b PROVE ~Less(by, t[b], t[a])
    <3>1. CASE b = m + 1
      <4>1. a \in 1..m BY <1>1, <2>4, <3>1
      <4> QED BY <1>7, <2>3, <3>1, <4>1
    <3>2. CASE b # m + 1
      <4>1. a \in 1..m /\ b \in 1..m BY <1>1, <2>4, <3>2
      <4> QED BY <1>1, <1>7, <2>2, <2>4, <4>1 DEF Ordered
    <3> QED BY <3>1, <3>2
  <2> QED BY <1>7, <2>4 DEF Ordered
<1> QED BY <1>5, <1>7, <1>8 DEF LeftOf

\* std::remove with erase.
LEMMA WithoutLeaves ==
  ASSUME NEW S, NEW q, q \in Seq(S), NEW x
  PROVE  LeftOf(S, q, x, Without(q, x))
<1>1. PICK a : Passes(q, x, a)
  BY PassedOver
<1>2. PICK n : n = Len(q) /\ n \in Nat
  <2>1. Len(q) \in Nat BY LenProperties
  <2> QED BY <2>1, Zenon
<1>3. Grows(S, q, n)
  BY <1>2, Beginnings
<1>4. PICK SS : SS = {k \in 0..n : LeftOf(S, Prefix(q, k), x, a[k])}
  BY Zenon
<1>5. 0 \in SS
  <2>1. 0 \in 0..n /\ Prefix(q, 0) = <<>> /\ a[0] = <<>> BY <1>1, <1>2, <1>3 DEF Grows, Passes
  <2>2. <<>> \in Seq(S) /\ Len(<<>>) = 0 OBVIOUS
  <2>3. \A v : Count(<<>>, v) = 0
    <3> SUFFICES ASSUME NEW v PROVE Count(<<>>, v) = 0
      OBVIOUS
    <3>1. Len(<<>>) \in Nat /\ ~ \E i \in 1..Len(<<>>) : <<>>[i] = v BY <2>2
    <3> QED BY <3>1, Occurs, Zenon
  <2>4. LeftOf(S, <<>>, x, <<>>) BY <2>2, <2>3 DEF LeftOf
  <2> QED BY <1>4, <2>1, <2>4
<1>6. ASSUME NEW k \in 1..n, k - 1 \in SS PROVE k \in SS
  <2>1. PICK p, r, e, o, t : p = Prefix(q, k - 1) /\ r = Prefix(q, k) /\ e = q[k] /\ o = a[k - 1] /\ t = a[k]
    BY Zenon
  <2>2. k \in 0..n /\ k \in Nat /\ k - 1 \in 0..n /\ (k - 1) + 1 = k BY <1>2
  <2>3. p \in Seq(S) /\ k = Len(p) + 1 /\ e \in S
    BY <1>3, <2>1, <2>2 DEF Grows
  <2>4. OneMore(S, p, k, e, r)
    BY <1>3, <2>1 DEF Grows
  <2>5. LeftOf(S, p, x, o) BY <1>4, <1>6, <2>1
  <2>6. t = IF e = x THEN o ELSE Append(o, e)
    BY <1>1, <1>2, <2>1 DEF Passes
  <2>7. LeftOf(S, r, x, t)
    <3>1. CASE e = x
      <4>1. t = o /\ OneMore(S, p, k, x, r) BY <2>4, <2>6, <3>1
      <4> QED BY <2>3, <2>5, <4>1, LeftWithout, Zenon
    <3>2. CASE e # x
      <4>1. t = Append(o, e) BY <2>6, <3>2
      <4> QED BY <2>3, <2>4, <2>5, <3>2, <4>1, LeftWith, Zenon
    <3> QED BY <3>1, <3>2
  <2> QED BY <1>4, <2>1, <2>2, <2>7
<1>7. n \in SS
  BY ONLY <1>2, <1>5, <1>6, SetInduction
<1>8. LeftOf(S, Prefix(q, n), x, a[n])
  BY <1>4, <1>7
<1>9. Prefix(q, n) = q /\ Without(q, x) = a[n]
  BY <1>1, <1>2, <1>3 DEF Grows, Passes
<1> QED BY <1>8, <1>9

\* Without what it does not hold a sequence is the same.
LEMMA WithoutNone ==
  ASSUME NEW S, NEW q, q \in Seq(S), NEW x, \A j \in 1..Len(q) : q[j] # x
  PROVE  Without(q, x) = q
<1>1. PICK a : Passes(q, x, a)
  BY PassedOver
<1>2. PICK n : n = Len(q) /\ n \in Nat
  <2>1. Len(q) \in Nat BY LenProperties
  <2> QED BY <2>1, Zenon
<1>3. Grows(S, q, n)
  BY <1>2, Beginnings
<1>4. PICK SS : SS = {k \in 0..n : a[k] = Prefix(q, k)}
  BY Zenon
<1>5. 0 \in SS
  <2>1. 0 \in 0..n /\ Prefix(q, 0) = <<>> /\ a[0] = <<>> BY <1>1, <1>2, <1>3 DEF Grows, Passes
  <2> QED BY <1>4, <2>1
<1>6. ASSUME NEW k \in 1..n, k - 1 \in SS PROVE k \in SS
  <2>1. PICK p, r, e : p = Prefix(q, k - 1) /\ r = Prefix(q, k) /\ e = q[k]
    BY Zenon
  <2>2. k \in 0..n /\ k \in Nat /\ k - 1 \in 0..n /\ (k - 1) + 1 = k BY <1>2
  <2>3. p \in Seq(S) /\ k = Len(p) + 1 /\ e \in S
    BY <1>3, <2>1, <2>2 DEF Grows
  <2>4. OneMore(S, p, k, e, r)
    BY <1>3, <2>1 DEF Grows
  <2>5. a[k - 1] = p BY <1>4, <1>6, <2>1
  <2>6. a[k] = Append(p, e)
    BY <1>1, <1>2, <2>1, <2>5 DEF Passes
  <2>7. Append(p, e) = r BY <2>3, <2>4, AppendedIsOneMore, Zenon
  <2> QED BY <1>4, <2>1, <2>2, <2>6, <2>7
<1>7. n \in SS
  BY ONLY <1>2, <1>5, <1>6, SetInduction
<1>8. Prefix(q, n) = q /\ Without(q, x) = a[n] /\ a[n] = Prefix(q, n)
  BY <1>1, <1>2, <1>3, <1>4, <1>7 DEF Grows, Passes
<1> QED BY <1>8

\* Up to place k of q, which has x at place i only.
Passed(r, i, k) == IF k < i THEN Prefix(r, k) ELSE Prefix(r, k - 1)

\* Where x occurs once, the others are left.
LEMMA WithoutOnce ==
  ASSUME NEW S, NEW r, r \in Seq(S), NEW i, i \in 1..(Len(r) + 1), NEW x, x \in S, NEW q, OneMore(S, r, i, x, q),
         \A j \in 1..Len(r) : r[j] # x
  PROVE  Without(q, x) = r
<1>1. q \in Seq(S) /\ Len(q) = Len(r) + 1
  BY DEF OneMore
<1>2. PICK a : Passes(q, x, a)
  BY <1>1, PassedOver
<1>3. PICK n, m : m = Len(r) /\ m \in Nat /\ n = m + 1
  <2>1. Len(r) \in Nat BY LenProperties
  <2> QED BY <2>1, Zenon
<1>4. Len(q) = n /\ n \in Nat /\ i \in 1..n /\ i \in Nat
  BY <1>1, <1>3
<1>5. Grows(S, r, m)
  BY <1>3, Beginnings
<1>6. PICK SS : SS = {k \in 0..n : a[k] = Passed(r, i, k)}
  BY Zenon
<1>7. 0 \in SS
  <2>1. Prefix(r, 0) = <<>> /\ a[0] = <<>> BY <1>2, <1>5 DEF Grows, Passes
  <2>2. 0 \in 0..n /\ 0 < i BY <1>4
  <2> QED BY <1>6, <2>1, <2>2 DEF Passed
<1>8. ASSUME NEW k \in 1..n, k - 1 \in SS PROVE k \in SS
  <2>1. k \in 0..n /\ k \in Nat /\ k - 1 \in 0..n /\ (k - 1) + 1 = k BY <1>4
  <2>2. a[k - 1] = Passed(r, i, k - 1) BY <1>6, <1>8
  <2>3. a[k] = IF q[k] = x THEN a[k - 1] ELSE Append(a[k - 1], q[k])
    BY <1>2, <1>4 DEF Passes
  <2>4. q[k] = IF k < i THEN r[k] ELSE IF k = i THEN x ELSE r[k - 1]
    BY <1>3 DEF OneMore
  <2>5. a[k] = Passed(r, i, k)
    <3>1. CASE k = i
      <4>1. q[k] = x /\ k - 1 < i /\ ~(k < i) BY <1>4, <2>1, <2>4, <3>1
      <4> QED BY <2>2, <2>3, <4>1 DEF Passed
    <3>2. CASE k # i
      <4>1. PICK j : j = (IF k < i THEN k ELSE k - 1) BY Zenon
      <4>2. j \in 1..m /\ q[k] = r[j]
        <5>1. CASE k < i BY <1>3, <1>4, <2>1, <2>4, <4>1, <5>1
        <5>2. CASE ~(k < i) BY <1>3, <1>4, <2>1, <2>4, <3>2, <4>1, <5>2
        <5> QED BY <5>1, <5>2
      <4>3. Passed(r, i, k) = Prefix(r, j) /\ Passed(r, i, k - 1) = Prefix(r, j - 1)
        <5>1. CASE k < i
          <6>1. k - 1 < i BY <1>4, <2>1, <5>1
          <6> QED BY <4>1, <5>1, <6>1 DEF Passed
        <5>2. CASE ~(k < i)
          <6>1. ~(k - 1 < i) /\ j - 1 = (k - 1) - 1 /\ j = k - 1 BY <1>4, <2>1, <3>2, <4>1, <5>2
          <6> QED BY <5>2, <6>1 DEF Passed
        <5> QED BY <5>1, <5>2
      <4>4. r[j] # x BY <1>3, <4>2
      <4>5. PICK p, t, e : p = Prefix(r, j - 1) /\ t = Prefix(r, j) /\ e = r[j]
        BY Zenon
      <4>6. j - 1 \in 0..m /\ (j - 1) + 1 = j BY <1>3, <4>2
      <4>7. p \in Seq(S) /\ Len(p) = j - 1 /\ e \in S /\ OneMore(S, p, j, e, t)
        BY <1>5, <4>2, <4>5, <4>6 DEF Grows
      <4>8. j = Len(p) + 1 BY <4>6, <4>7
      <4>9. Append(p, e) = t BY <4>7, <4>8, AppendedIsOneMore, Zenon
      <4> QED BY <2>2, <2>3, <4>2, <4>3, <4>4, <4>5, <4>9
    <3> QED BY <3>1, <3>2
  <2> QED BY <1>6, <2>1, <2>5
<1>9. n \in SS
  BY ONLY <1>4, <1>7, <1>8, SetInduction
<1>10. a[n] = Passed(r, i, n)
  BY <1>6, <1>9
<1>11. ~(n < i) /\ n - 1 = m
  BY <1>3, <1>4
<1>12. Prefix(r, m) = r /\ Without(q, x) = a[n]
  BY <1>2, <1>4, <1>5 DEF Grows, Passes
<1> QED BY <1>10, <1>11, <1>12 DEF Passed

\* A value is in the range where it is counted.
LEMMA RangeCounts ==
  ASSUME NEW S, NEW q, q \in Seq(S), NEW v
  PROVE  v \in Range(q) <=> Count(q, v) # 0
<1>1. Len(q) \in Nat /\ DOMAIN q = 1..Len(q)
  BY LenProperties
<1>2. v \in Range(q) <=> \E i \in 1..Len(q) : q[i] = v
  BY <1>1 DEF Range
<1> QED BY <1>1, <1>2, Occurs

\* The same elements, the same range.
LEMMA SameRange ==
  ASSUME NEW S, NEW q, q \in Seq(S), NEW r, r \in Seq(S), SameBag(q, r)
  PROVE  Range(q) = Range(r)
<1>1. ASSUME NEW v PROVE v \in Range(q) <=> v \in Range(r)
  <2>1. v \in Range(q) <=> Count(q, v) # 0 BY RangeCounts
  <2>2. v \in Range(r) <=> Count(r, v) # 0 BY RangeCounts
  <2> QED BY <2>1, <2>2 DEF SameBag
<1> QED BY <1>1, Zenon

\* A range is finite.
LEMMA RangeFinite ==
  ASSUME NEW S, NEW q, q \in Seq(S)
  PROVE  IsFiniteSet(Range(q)) /\ Range(q) \subseteq S
<1>1. PICK n : n = Len(q) /\ n \in Nat
  <2>1. Len(q) \in Nat BY LenProperties
  <2> QED BY <2>1, Zenon
<1>2. q \in [1..n -> S]
  BY <1>1
<1>3. IsFiniteSet(1..n)
  BY <1>1, FS_Interval
<1>4. Range(q) \subseteq S /\ Range(q) = {q[i] : i \in 1..n}
  BY <1>2 DEF Range
<1>5. PICK T : T = Range(q)
  BY Zenon
<1>6. q \in Surjection(1..n, T)
  BY <1>2, <1>4, <1>5 DEF Surjection
<1>7. IsFiniteSet(T)
  BY <1>3, <1>6, FS_Surjection
<1> QED BY <1>4, <1>5, <1>7

\* Reversed twice.
LEMMA ReversedTwice ==
  ASSUME NEW S, NEW q, q \in Seq(S)
  PROVE  Reverse(Reverse(q)) = q
<1>1. PICK n, r, t : n = Len(q) /\ r = Reverse(q) /\ t = Reverse(r)
  BY Zenon
<1>2. n \in Nat BY <1>1, LenProperties
<1>3. r \in Seq(S) /\ Len(r) = n /\ \A i \in 1..n : r[i] = q[n - i + 1]
  BY <1>1, Reversed
<1>4. t \in Seq(S) /\ Len(t) = n /\ \A i \in 1..n : t[i] = r[n - i + 1]
  <2>1. t \in Seq(S) /\ Len(t) = Len(r) /\ \A i \in 1..Len(r) : t[i] = r[Len(r) - i + 1] BY <1>1, <1>3, Reversed
  <2> QED BY <1>3, <2>1
<1>5. \A i \in 1..n : t[i] = q[i]
  <2> SUFFICES ASSUME NEW i \in 1..n PROVE t[i] = q[i]
    OBVIOUS
  <2>1. n - i + 1 \in 1..n /\ n - (n - i + 1) + 1 = i BY <1>2
  <2> QED BY <1>3, <1>4, <2>1
<1>6. t \in Seq(S) /\ q \in Seq(S) /\ Len(t) = Len(q) /\ \A j \in 1..Len(t) : t[j] = q[j]
  BY <1>1, <1>4, <1>5
<1>7. t = q
  BY ONLY <1>6, SeqEqual
<1> QED BY <1>1, <1>7

\* An ascending sequence backwards.
LEMMA ReversedOrder ==
  ASSUME NEW S, S \subseteq Int, NEW q, q \in Seq(S), Ordered("smaller", q), NEW r, r = Reverse(q)
  PROVE  Ordered("larger", r)
<1>1. PICK n : n = Len(q) /\ n \in Nat
  <2>1. Len(q) \in Nat BY LenProperties
  <2> QED BY <2>1, Zenon
<1>2. Len(r) = n /\ \A i \in 1..n : r[i] = q[n - i + 1]
  BY <1>1, Reversed
<1>3. ASSUME NEW i \in 1..n, NEW j \in 1..n, i < j PROVE ~Less("larger", r[j], r[i])
  <2>1. n - i + 1 \in 1..n /\ n - j + 1 \in 1..n /\ n - j + 1 < n - i + 1 BY <1>1, <1>3
  <2>2. ~Less("smaller", q[n - i + 1], q[n - j + 1]) BY <1>1, <2>1 DEF Ordered
  <2>3. ~Less("smaller", r[i], r[j]) BY <1>2, <2>2
  <2>4. ~(r[i] < r[j]) BY <2>3, Comparators
  <2>5. r[i] \in Int /\ r[j] \in Int
    <3>1. \A k \in 1..n : q[k] \in S BY <1>1
    <3> QED BY <1>2, <2>1, <3>1
  <2>6. ~(r[j] > r[i]) BY <2>4, <2>5
  <2> QED BY <2>6, Comparators
<1> QED BY <1>2, <1>3 DEF Ordered

\* SoulUnorderedSet::sort returns what it was given.
LEMMA HashSorted ==
  ASSUME NEW G, IsFiniteSet(G), NEW by
  PROVE  hashSort(G, by) = G
<1>1. PICK q, r : q = SetToSeq(G) /\ r = StableSort(q, by)
  BY Zenon
<1>2. Enumerates(q, G)
  BY <1>1, SetListed, Zenon
<1>3. q \in Seq(G) /\ \A e \in G : \E i \in 1..Len(q) : q[i] = e
  BY <1>2 DEF Enumerates
<1>4. Range(q) = G
  <2>1. DOMAIN q = 1..Len(q) /\ \A i \in 1..Len(q) : q[i] \in G BY <1>3
  <2> QED BY <1>3, <2>1 DEF Range
<1>5. SortOf(G, by, q, r)
  BY <1>1, <1>3, SortSorts, Zenon
<1>6. r \in Seq(G) /\ SameBag(r, q)
  BY <1>5 DEF SortOf
<1>7. Range(r) = Range(q)
  BY <1>3, <1>6, SameRange, Zenon
<1> QED BY <1>1, <1>4, <1>7, Zenon DEF hashSort

\* In an ascending sequence the bisection of Searcher finds what a scan finds.
LEMMA FoundByBoth ==
  ASSUME NEW q, q \in Seq(Int), Ordered("smaller", q), NEW x, x \in Int
  PROVE  binarySearch(q, x) = indexOf(q, x)
<1>1. PICK n, d, i : n = Len(q) /\ n \in Nat /\ d = [j \in DOMAIN q |-> <<q[j]>>] /\ i = lower_bound(d, x)
  <2>1. Len(q) \in Nat BY LenProperties
  <2> QED BY <2>1, Zenon
<1>2. DOMAIN q = 1..n /\ \A j \in 1..n : q[j] \in Int
  BY <1>1
<1>3. d = [j \in 1..n |-> <<q[j]>>]
  BY <1>1, <1>2
<1>4. Len(d) = n /\ \A j \in 1..n : d[j][1] = q[j]
  <2>1. d \in [1..n -> Seq(Int)] BY <1>2, <1>3
  <2>2. d \in Seq(Seq(Int)) /\ Len(d) = n BY <1>1, <2>1
  <2> QED BY <1>3, <2>2
<1>5. ASSUME NEW j \in 1..n, NEW k \in 1..n, j < k PROVE q[j] <= q[k]
  <2>1. ~Less("smaller", q[k], q[j]) BY <1>1, <1>5 DEF Ordered
  <2>2. ~(q[k] < q[j]) BY <2>1, Comparators
  <2> QED BY <1>2, <2>2
<1>6. Climbs(d)
  <2>1. \A j \in 1..n : d[j][1] \in Int BY <1>2, <1>4
  <2>2. \A j, k \in 1..n : j < k => d[j][1] <= d[k][1] BY <1>4, <1>5
  <2> QED BY <1>1, <1>4, <2>1, <2>2 DEF Climbs
<1>7. Between(d, x, i, 0)
  BY <1>1, <1>6, LowerBound, Zenon
<1>8. i \in Nat \ {0} /\ i <= n + 1 /\ \A j \in 1..n : (j < i => q[j] < x) /\ (i <= j => ~(q[j] < x))
  <2>1. i \in Nat \ {0} /\ i + 0 <= n + 1 /\ \A j \in 1..n : (j < i => d[j][1] < x) /\ (i + 0 <= j => ~(d[j][1] < x))
    BY <1>4, <1>7 DEF Between
  <2> QED BY <1>4, <2>1
<1>9. binarySearch(q, x) = IF i <= n /\ q[i] = x THEN {i} ELSE {}
  BY <1>1, Zenon DEF binarySearch
<1>10. \A k : k \in indexOf(q, x) <=> k \in 1..n /\ q[k] = x /\ \A j \in 1..(k - 1) : q[j] # x
  BY <1>2 DEF indexOf
<1>11. ASSUME NEW k, k \in indexOf(q, x) PROVE k = i /\ i <= n /\ q[i] = x
  <2>1. k \in 1..n /\ q[k] = x /\ \A j \in 1..(k - 1) : q[j] # x BY <1>10, <1>11
  <2>2. ~(k < i)
    <3> SUFFICES ASSUME k < i PROVE FALSE
      OBVIOUS
    <3>1. q[k] < x BY <1>8, <2>1
    <3> QED BY <2>1, <3>1
  <2>3. i \in 1..n /\ (i < k \/ i = k) BY <1>1, <1>8, <2>1, <2>2
  <2>4. ~(i < k)
    <3> SUFFICES ASSUME i < k PROVE FALSE
      OBVIOUS
    <3>1. i \in 1..(k - 1) BY <1>8, <2>1, <2>3
    <3>2. ~(q[i] < x) BY <1>8, <2>3
    <3>3. q[i] <= q[k] BY <1>5, <2>1, <2>3
    <3>4. q[i] # x BY <2>1, <3>1
    <3> QED BY <1>2, <2>1, <2>3, <3>2, <3>3, <3>4
  <2> QED BY <1>1, <2>1, <2>3, <2>4
<1>12. ASSUME i <= n, q[i] = x PROVE i \in indexOf(q, x)
  <2>1. i \in 1..n BY <1>1, <1>8, <1>12
  <2>2. ASSUME NEW j \in 1..(i - 1) PROVE q[j] # x
    <3>1. j \in 1..n /\ j < i BY <1>1, <2>1
    <3>2. q[j] < x BY <1>8, <3>1
    <3> QED BY <1>2, <3>1, <3>2
  <2> QED BY <1>10, <1>12, <2>1, <2>2
<1>13. CASE i <= n /\ q[i] = x
  BY <1>9, <1>11, <1>12, <1>13
<1>14. CASE ~(i <= n /\ q[i] = x)
  <2>1. \A k : k \notin indexOf(q, x) BY <1>11, <1>14
  <2>2. binarySearch(q, x) = {} BY <1>9, <1>14
  <2>3. indexOf(q, x) = {} BY <2>1
  <2> QED BY <2>2, <2>3
<1> QED BY <1>13, <1>14

\* What RemoveAt takes out was one more.
TakenFrom(S, q, i, r) ==
  /\ r \in Seq(S) /\ Len(r) = Len(q) - 1 /\ i \in 1..(Len(r) + 1) /\ OneMore(S, r, i, q[i], q)
  /\ \A by : Ordered(by, q) => Ordered(by, r)

\* The rest keeps its order.
LEMMA TakenOutIsOneLess ==
  ASSUME NEW S, NEW q, q \in Seq(S), NEW i, i \in 1..Len(q), NEW r, r = RemoveAt(q, i)
  PROVE  TakenFrom(S, q, i, r)
<1>1. PICK n, m : n = Len(q) /\ n \in Nat /\ m = n - 1
  <2>1. Len(q) \in Nat BY LenProperties
  <2> QED BY <2>1, Zenon
<1>2. r \in Seq(S) /\ Len(r) = m /\ \A j \in 1..m : r[j] = IF j < i THEN q[j] ELSE q[j + 1]
  BY <1>1, TakenOut
<1>3. n = m + 1 /\ m \in Nat /\ i \in 1..(m + 1) /\ i \in Nat
  BY <1>1
<1>4. ASSUME NEW j \in 1..(m + 1) PROVE q[j] = IF j < i THEN r[j] ELSE IF j = i THEN q[i] ELSE r[j - 1]
  <2>1. CASE j < i
    <3>1. j \in 1..m BY <1>3, <2>1
    <3> QED BY <1>2, <2>1, <3>1
  <2>2. CASE j = i
    <3>1. ~(j < i) BY <1>3, <2>2
    <3> QED BY <2>2, <3>1
  <2>3. CASE ~(j < i) /\ j # i
    <3>1. j - 1 \in 1..m /\ ~(j - 1 < i) /\ (j - 1) + 1 = j BY <1>3, <2>3
    <3> QED BY <1>2, <2>3, <3>1
  <2> QED BY <2>1, <2>2, <2>3
<1>5. OneMore(S, r, i, q[i], q)
  BY <1>1, <1>2, <1>3, <1>4 DEF OneMore
<1>6. ASSUME NEW by, Ordered(by, q) PROVE Ordered(by, r)
  <2>1. ASSUME NEW a \in 1..m, NEW b \in 1..m, a < b PROVE ~Less(by, r[b], r[a])
    <3>1. PICK a2, b2 : a2 = (IF a < i THEN a ELSE a + 1) /\ b2 = (IF b < i THEN b ELSE b + 1) BY Zenon
    <3>2. r[a] = q[a2] /\ a2 \in 1..n
      <4>1. CASE a < i BY <1>2, <1>3, <3>1, <4>1
      <4>2. CASE ~(a < i) BY <1>2, <1>3, <3>1, <4>2
      <4> QED BY <4>1, <4>2
    <3>3. r[b] = q[b2] /\ b2 \in 1..n
      <4>1. CASE b < i BY <1>2, <1>3, <3>1, <4>1
      <4>2. CASE ~(b < i) BY <1>2, <1>3, <3>1, <4>2
      <4> QED BY <4>1, <4>2
    <3>4. a2 < b2 BY <1>3, <2>1, <3>1
    <3> QED BY <1>1, <1>6, <3>2, <3>3, <3>4 DEF Ordered
  <2> QED BY <1>2, <2>1 DEF Ordered
<1> QED BY <1>1, <1>2, <1>3, <1>5, <1>6 DEF TakenFrom

-----------------------------------------------------------------------------
(* SoulArray.                                                              *)

Cells == Values \cup {Unset}
ArrayOf(a, d, c) == a = [data |-> d, currentSize |-> c] /\ d \in [1..ArrayCapacity -> Cells] /\ c \in 0..ArrayCapacity
HasAll(d, c, q) == c = Len(q) /\ \A i \in 1..c : d[i] = q[i]
ArrayInv(a, q, ex) == \E d, c : ArrayOf(a, d, c) /\ (ex => HasAll(d, c, q))

\* Its fields.
LEMMA ArrayFields ==
  ASSUME NEW a, NEW d, NEW c, ArrayOf(a, d, c)
  PROVE  a.data = d /\ a.currentSize = c /\ c \in Nat /\ c <= ArrayCapacity /\ ArrayCapacity \in Nat
<1>1. ArrayCapacity \in Nat
  BY ContainerAssumption
<1>2. a.data = d /\ a.currentSize = c
  BY DEF ArrayOf
<1>3. c \in 0..ArrayCapacity
  BY DEF ArrayOf
<1> QED BY <1>1, <1>2, <1>3

\* get_all.
LEMMA ArrayGot ==
  ASSUME NEW a, NEW d, NEW c, ArrayOf(a, d, c), NEW g, g = arrayGetAll(a)
  PROVE  g \in Seq(Cells) /\ Len(g) = c /\ (\A i \in 1..c : g[i] = d[i]) /\ (\A x : x \in Range(g) <=> \E i \in 1..c : d[i] = x)
<1>1. a.data = d /\ a.currentSize = c /\ c \in Nat /\ c <= ArrayCapacity /\ ArrayCapacity \in Nat
  BY ArrayFields
<1>2. g = SubSeq(d, 1, c)
  BY <1>1 DEF arrayGetAll
<1>3. d \in [1..ArrayCapacity -> Cells]
  BY DEF ArrayOf
<1>4. d \in Seq(Cells) /\ Len(d) = ArrayCapacity
  BY <1>1, <1>3
<1>5. g \in Seq(Cells) /\ Len(g) = c /\ \A i \in 1..c : g[i] = d[i]
  <2>1. \A i \in 1..c : d[i] \in Cells BY <1>1, <1>3
  <2>2. 1 \in Int /\ c \in Int BY <1>1
  <2>3. g \in Seq(Cells) /\ Len(g) = (IF 1 <= c THEN c - 1 + 1 ELSE 0) /\ \A i \in 1..(c - 1 + 1) : g[i] = d[1 + i - 1]
    BY <1>2, <2>1, <2>2, SubSeqProperties
  <2> QED BY <1>1, <2>3
<1>6. DOMAIN g = 1..c
  BY <1>5
<1> QED BY <1>5, <1>6 DEF Range

\* All of it.
LEMMA ArrayGotAll ==
  ASSUME NEW a, NEW d, NEW c, ArrayOf(a, d, c), NEW q, q \in Seq(Values), HasAll(d, c, q)
  PROVE  arrayGetAll(a) = q
<1>1. PICK g : g = arrayGetAll(a)
  BY Zenon
<1>2. g \in Seq(Cells) /\ Len(g) = c /\ \A i \in 1..c : g[i] = d[i]
  BY <1>1, ArrayGot
<1>3. q \in Seq(Cells)
  BY DEF Cells
<1>4. Len(g) = Len(q) /\ \A i \in 1..Len(g) : g[i] = q[i]
  BY <1>2 DEF HasAll
<1>5. g = q
  BY ONLY <1>2, <1>3, <1>4, SeqEqual
<1> QED BY <1>1, <1>5

\* insert, as long as there is room.
LEMMA ArrayInserted ==
  ASSUME NEW a, NEW q, q \in Seq(Values), NEW ex, ArrayInv(a, q, ex), NEW x, x \in Values, NEW b, b = arrayInsert(a, x)
  PROVE  /\ ArrayInv(b, Append(q, x), ex /\ a.currentSize < ArrayCapacity)
         /\ a.currentSize \in Nat /\ (a.currentSize < ArrayCapacity => b.currentSize = a.currentSize + 1)
<1>1. PICK d, c : ArrayOf(a, d, c) /\ (ex => HasAll(d, c, q))
  BY DEF ArrayInv
<1>2. a.data = d /\ a.currentSize = c /\ c \in Nat /\ c <= ArrayCapacity /\ ArrayCapacity \in Nat
  BY <1>1, ArrayFields
<1>3. d \in [1..ArrayCapacity -> Cells] /\ x \in Cells
  BY <1>1 DEF ArrayOf, Cells
<1>4. CASE c < ArrayCapacity
  <2>1. PICK d2 : d2 = [d EXCEPT ![c + 1] = x] BY Zenon
  <2>2. b = [data |-> d2, currentSize |-> c + 1] BY <1>2, <1>4, <2>1 DEF arrayInsert
  <2>3. d2 \in [1..ArrayCapacity -> Cells] BY <1>3, <2>1
  <2>4. ArrayOf(b, d2, c + 1)
    <3>1. c + 1 \in 0..ArrayCapacity BY <1>2, <1>4
    <3> QED BY <2>2, <2>3, <3>1 DEF ArrayOf
  <2>5. ASSUME ex PROVE HasAll(d2, c + 1, Append(q, x))
    <3>1. c = Len(q) /\ \A i \in 1..c : d[i] = q[i] BY <1>1, <2>5 DEF HasAll
    <3>2. PICK t : t = Append(q, x) BY Zenon
    <3>3. Len(t) = c + 1 /\ t[c + 1] = x /\ \A i \in 1..c : t[i] = q[i] BY <3>1, <3>2, AppendProperties
    <3>4. ASSUME NEW i \in 1..(c + 1) PROVE d2[i] = t[i]
      <4>1. i \in 1..ArrayCapacity BY <1>2, <1>4
      <4>2. CASE i = c + 1 BY <1>3, <2>1, <3>3, <4>1, <4>2
      <4>3. CASE i # c + 1
        <5>1. i \in 1..c BY <1>2, <4>3
        <5>2. d2[i] = d[i] BY <1>3, <2>1, <4>1, <4>3
        <5> QED BY <3>1, <3>3, <5>1, <5>2
      <4> QED BY <4>2, <4>3
    <3>5. HasAll(d2, c + 1, t) BY <3>3, <3>4 DEF HasAll
    <3> QED BY <3>2, <3>5
  <2>6. b.currentSize = c + 1 BY <2>2
  <2> QED BY <1>2, <2>4, <2>5, <2>6 DEF ArrayInv
<1>5. CASE ~(c < ArrayCapacity)
  <2>1. b = a BY <1>2, <1>5 DEF arrayInsert
  <2> QED BY <1>1, <1>2, <1>5, <2>1 DEF ArrayInv
<1> QED BY <1>4, <1>5

\* sort.
LEMMA ArraySorted ==
  ASSUME NEW a, NEW q, q \in Seq(Values), NEW ex, ArrayInv(a, q, ex), NEW by
  PROVE  ArrayInv(arraySort(a, by), StableSort(q, by), ex)
<1>1. PICK d, c : ArrayOf(a, d, c) /\ (ex => HasAll(d, c, q))
  BY DEF ArrayInv
<1>2. a.data = d /\ a.currentSize = c /\ c \in Nat /\ c <= ArrayCapacity /\ ArrayCapacity \in Nat
  BY <1>1, ArrayFields
<1>3. d \in [1..ArrayCapacity -> Cells] /\ a = [data |-> d, currentSize |-> c] /\ c \in 0..ArrayCapacity
  BY <1>1 DEF ArrayOf
<1>4. PICK g, t, d2 : g = arrayGetAll(a) /\ t = StableSort(g, by) /\ d2 = [i \in 1..ArrayCapacity |-> IF i <= c THEN t[i] ELSE d[i]]
  BY Zenon
<1>5. g \in Seq(Cells) /\ Len(g) = c
  BY <1>1, <1>4, ArrayGot
<1>6. t \in Seq(Cells) /\ Len(t) = c
  <2>1. SortOf(Cells, by, g, t) BY <1>4, <1>5, SortSorts, Zenon
  <2> QED BY <1>5, <2>1 DEF SortOf
<1>7. arraySort(a, by) = [data |-> d2, currentSize |-> c]
  <2>1. arraySort(a, by) = [a EXCEPT !.data = [i \in 1..ArrayCapacity |-> IF i <= c THEN t[i] ELSE a.data[i]]]
    BY <1>2, <1>4, Zenon DEF arraySort
  <2>2. [i \in 1..ArrayCapacity |-> IF i <= c THEN t[i] ELSE a.data[i]] = d2 BY <1>2, <1>4
  <2>3. [[data |-> d, currentSize |-> c] EXCEPT !.data = d2] = [data |-> d2, currentSize |-> c] OBVIOUS
  <2> QED BY <1>3, <2>1, <2>2, <2>3
<1>8. ASSUME NEW i \in 1..ArrayCapacity PROVE d2[i] \in Cells
  <2>1. CASE i <= c
    <3>1. i \in 1..c BY <2>1
    <3>2. t[i] \in Cells BY <1>6, <3>1
    <3> QED BY <1>4, <2>1, <3>2
  <2>2. CASE ~(i <= c) BY <1>3, <1>4, <2>2
  <2> QED BY <2>1, <2>2
<1>9. ArrayOf(arraySort(a, by), d2, c)
  <2>1. d2 \in [1..ArrayCapacity -> Cells] BY <1>4, <1>8
  <2> QED BY <1>3, <1>7, <2>1 DEF ArrayOf
<1>10. ASSUME ex PROVE HasAll(d2, c, StableSort(q, by))
  <2>1. g = q BY <1>1, <1>4, <1>10, ArrayGotAll, Zenon
  <2>2. StableSort(q, by) = t BY <1>4, <2>1
  <2>3. \A i \in 1..c : d2[i] = t[i] BY <1>2, <1>4
  <2>4. HasAll(d2, c, t) BY <1>6, <2>3 DEF HasAll
  <2> QED BY <2>2, <2>4
<1> QED BY <1>9, <1>10 DEF ArrayInv

\* remove_one, and how often its value occurs if it is gone afterwards.
LEMMA ArrayRemoved ==
  ASSUME NEW a, NEW q, q \in Seq(Values), NEW ex, ArrayInv(a, q, ex), NEW x, x \in Values, NEW b, b = arrayRemove(a, x),
         NEW ey, ey => ex /\ x \notin Range(arrayGetAll(b))
  PROVE  ArrayInv(b, Without(q, x), ey) /\ (ey => Count(q, x) = 0 \/ Count(q, x) = 1)
<1>1. PICK d, c, g : ArrayOf(a, d, c) /\ (ex => HasAll(d, c, q)) /\ g = arrayGetAll(a)
  BY DEF ArrayInv
<1>2. a.data = d /\ a.currentSize = c /\ c \in Nat /\ c <= ArrayCapacity /\ ArrayCapacity \in Nat
  BY <1>1, ArrayFields
<1>3. d \in [1..ArrayCapacity -> Cells]
  BY <1>1 DEF ArrayOf
<1>4. x \in Range(g) <=> \E i \in 1..c : d[i] = x
  BY <1>1, ArrayGot
<1>5. Len(q) \in Nat
  BY LenProperties
<1>6. CASE x \notin Range(g)
  <2>1. b = a BY <1>1, <1>6 DEF arrayRemove
  <2>2. ASSUME ey PROVE Count(q, x) = 0 /\ HasAll(d, c, Without(q, x))
    <3>1. HasAll(d, c, q) BY <1>1, <2>2
    <3>2. \A i \in 1..Len(q) : q[i] # x BY <1>4, <1>6, <3>1 DEF HasAll
    <3>3. Without(q, x) = q BY <3>2, WithoutNone, Zenon
    <3>4. Count(q, x) = 0 BY <1>5, <3>2, Occurs, Zenon
    <3> QED BY <3>1, <3>3, <3>4
  <2> QED BY <1>1, <2>1, <2>2 DEF ArrayInv
<1>7. CASE x \in Range(g)
  <2>1. PICK it : it = CHOOSE i \in 1..c : d[i] = x /\ \A j \in 1..(i - 1) : d[j] # x
    BY Zenon
  <2>2. it \in 1..c /\ d[it] = x
    <3>1. PICK T : T = {i \in 1..c : d[i] = x} BY Zenon
    <3>2. T \subseteq Nat /\ \E i : i \in T BY <1>2, <1>4, <1>7, <3>1
    <3>3. PICK k \in T : \A j \in T : k <= j BY <3>2, LeastNatural
    <3>4. k \in 1..c /\ d[k] = x BY <3>1
    <3>5. \A j \in 1..(k - 1) : d[j] # x
      <4> SUFFICES ASSUME NEW j \in 1..(k - 1), d[j] = x PROVE FALSE
        OBVIOUS
      <4>1. j \in 1..c /\ ~(k <= j) BY <1>2, <3>4
      <4> QED BY <3>1, <3>3, <4>1
    <3>6. \E i \in 1..c : d[i] = x /\ \A j \in 1..(i - 1) : d[j] # x BY <3>4, <3>5
    <3> QED BY <2>1, <3>6
  <2>3. PICK d2, m : d2 = [i \in 1..ArrayCapacity |-> IF i \in it..(c - 1) THEN d[i + 1] ELSE d[i]] /\ m = c - 1
    BY Zenon
  <2>4. b = [data |-> d2, currentSize |-> m]
    <3>1. b = [data |-> [i \in 1..ArrayCapacity |-> IF i \in it..(c - 1) THEN d[i + 1] ELSE d[i]], currentSize |-> c - 1]
      BY <1>1, <1>2, <1>7, <2>1, Zenon DEF arrayRemove
    <3> QED BY <2>3, <3>1
  <2>5. m \in Nat /\ m \in 0..ArrayCapacity /\ c = m + 1 /\ it \in Nat /\ it >= 1 /\ it <= c BY <1>2, <2>2, <2>3
  <2>6. d2 \in [1..ArrayCapacity -> Cells]
    <3>1. ASSUME NEW i \in 1..ArrayCapacity PROVE d2[i] \in Cells
      <4>1. CASE i \in it..(c - 1)
        <5>1. i + 1 \in 1..ArrayCapacity BY <1>2, <2>5, <4>1
        <5> QED BY <1>3, <2>3, <4>1, <5>1
      <4>2. CASE i \notin it..(c - 1) BY <1>3, <2>3, <4>2
      <4> QED BY <4>1, <4>2
    <3> QED BY <2>3, <3>1
  <2>7. ArrayOf(b, d2, m) BY <2>4, <2>5, <2>6 DEF ArrayOf
  <2>8. ASSUME ey PROVE HasAll(d2, m, Without(q, x)) /\ Count(q, x) = 1
    <3>1. c = Len(q) /\ \A i \in 1..c : d[i] = q[i] BY <1>1, <2>8 DEF HasAll
    <3>2. PICK r : r = RemoveAt(q, it) BY Zenon
    <3>3. it \in 1..Len(q) BY <2>2, <3>1
    <3>4. TakenFrom(Values, q, it, r) BY <3>2, <3>3, TakenOutIsOneLess, Zenon
    <3>5. q[it] = x BY <2>2, <3>1
    <3>6. r \in Seq(Values) /\ it \in 1..(Len(r) + 1) /\ OneMore(Values, r, it, x, q) BY <3>4, <3>5 DEF TakenFrom
    <3>7. Len(r) = m /\ \A j \in 1..m : r[j] = IF j < it THEN q[j] ELSE q[j + 1]
      BY <2>3, <3>1, <3>2, <3>3, TakenOut
    <3>8. ASSUME NEW i \in 1..m PROVE d2[i] = r[i]
      <4>1. i \in 1..ArrayCapacity /\ i \in 1..c /\ i + 1 \in 1..c BY <1>2, <2>5
      <4>2. CASE i < it
        <5>1. i \notin it..(c - 1) BY <2>5, <4>2
        <5>2. d2[i] = d[i] BY <2>3, <4>1, <5>1
        <5> QED BY <3>1, <3>7, <4>1, <4>2, <5>2
      <4>3. CASE ~(i < it)
        <5>1. i \in it..(c - 1) BY <2>5, <4>3
        <5>2. d2[i] = d[i + 1] BY <2>3, <4>1, <5>1
        <5> QED BY <3>1, <3>7, <4>1, <4>3, <5>2
      <4> QED BY <4>2, <4>3
    <3>9. HasAll(d2, m, r) BY <3>7, <3>8 DEF HasAll
    <3>10. arrayGetAll(b) = r BY <2>7, <3>6, <3>9, ArrayGotAll, Zenon
    <3>11. \A j \in 1..Len(r) : r[j] # x
      <4>1. x \notin Range(r) BY <2>8, <3>10
      <4>2. DOMAIN r = 1..Len(r) BY <3>6
      <4> QED BY <4>1, <4>2 DEF Range
    <3>12. Without(q, x) = r BY <3>6, <3>11, WithoutOnce, Zenon
    <3>13. Count(q, x) = 1
      <4>1. CountsOneMore(r, x, q) BY <3>6, CountOneMore, Zenon
      <4>2. Len(r) \in Nat BY <3>6, LenProperties
      <4>3. Count(r, x) = 0 BY <3>11, <4>2, Occurs, Zenon
      <4>4. Count(q, x) = Count(r, x) + 1 BY <4>1 DEF CountsOneMore
      <4> QED BY <4>3, <4>4
    <3> QED BY <3>9, <3>12, <3>13
  <2> QED BY <2>7, <2>8 DEF ArrayInv
<1> QED BY <1>6, <1>7

-----------------------------------------------------------------------------
(* SoulMultimap.                                                           *)

Entries == {Entry(x) : x \in Values}

MultiInv(mm, q, ex) ==
  /\ mm \in Seq(Entries) /\ Ordered("key", mm)
  /\ \A v \in Values : (Count(q, v) # 0 => Count(mm, Entry(v)) # 0) /\ (ex => Count(mm, Entry(v)) = Count(q, v))

\* An entry names its value.
LEMMA EntryNames ==
  /\ Values \subseteq Int /\ \A x \in Values : Entry(x) \in Entries /\ Entry(x)[1] \in Int /\ Entry(x)[2] = x
  /\ \A x, y \in Values : Entry(x) = Entry(y) => x = y
  /\ \A e \in Entries : e[1] \in Int /\ e[2] \in Values /\ e = Entry(e[2])
<1>1. Values \subseteq Int
  BY ContainerAssumption
<1>2. ASSUME NEW x \in Values PROVE Entry(x) \in Entries /\ Entry(x)[1] \in Int /\ Entry(x)[2] = x
  <2>1. x \in Int /\ x \div 2 \in Int BY <1>1
  <2> QED BY <2>1 DEF Entry, Entries
<1>3. \A x, y \in Values : Entry(x) = Entry(y) => x = y
  <2> SUFFICES ASSUME NEW x \in Values, NEW y \in Values, Entry(x) = Entry(y) PROVE x = y
    OBVIOUS
  <2>1. Entry(x)[2] = x /\ Entry(y)[2] = y BY <1>2
  <2> QED BY <2>1
<1>4. ASSUME NEW e \in Entries PROVE e[1] \in Int /\ e[2] \in Values /\ e = Entry(e[2])
  <2>1. PICK x \in Values : e = Entry(x) BY DEF Entries
  <2> QED BY <1>2, <2>1
<1> QED BY <1>1, <1>2, <1>3, <1>4

\* emplace keeps the order of the keys.
LEMMA MultiInserted ==
  ASSUME NEW mm, NEW q, NEW ex, MultiInv(mm, q, ex), Len(q) \in Nat, NEW x, x \in Values, NEW t, CountsOneMore(q, x, t), NEW ey, ey => ex,
         NEW r, r = multimapInsert(mm, Entry(x))
  PROVE  MultiInv(r, t, ey)
<1>1. PICK e : e = Entry(x) /\ e \in Entries
  BY EntryNames, Zenon
<1>2. mm \in Seq(Entries) /\ Ordered("key", mm)
  BY DEF MultiInv
<1>3. r = SortIn(mm, e, "key")
  BY <1>1 DEF multimapInsert
<1>4. Placed(Entries, "key", mm, e, r)
  BY <1>1, <1>2, <1>3, SortInOrder, Zenon
<1>5. WeakOrder("key", Entries)
  <2>1. \A f \in Entries : f[1] \in Int BY EntryNames
  <2>2. {} \subseteq Int OBVIOUS
  <2> QED BY <2>1, <2>2, Comparing, Zenon
<1>6. PICK i : i \in 1..(Len(mm) + 1) /\ OneMore(Entries, mm, i, e, r)
  BY <1>4 DEF Placed
<1>7. r \in Seq(Entries) /\ Ordered("key", r)
  <2>1. Ordered("key", r) BY <1>2, <1>4, <1>5 DEF Placed
  <2> QED BY <1>6, <2>1 DEF OneMore
<1>8. CountsOneMore(mm, e, r)
  BY <1>2, <1>6, CountOneMore, Zenon
<1>9. ASSUME NEW v \in Values PROVE (Count(t, v) # 0 => Count(r, Entry(v)) # 0) /\ (ey => Count(r, Entry(v)) = Count(t, v))
  <2>1. (Count(q, v) # 0 => Count(mm, Entry(v)) # 0) /\ (ex => Count(mm, Entry(v)) = Count(q, v)) BY DEF MultiInv
  <2>2. Entry(v) = e <=> v = x BY <1>1, EntryNames
  <2>3. Count(mm, Entry(v)) \in Nat /\ Count(q, v) \in Nat
    <3>1. Len(mm) \in Nat BY <1>2, LenProperties
    <3> QED BY <3>1, AtFinite
  <2>4. CASE v = x
    <3>1. Count(r, Entry(v)) = Count(mm, Entry(v)) + 1 /\ Count(t, v) = Count(q, v) + 1 BY <1>8, <2>2, <2>4 DEF CountsOneMore
    <3>2. PICK m, k : m = Count(mm, Entry(v)) /\ k = Count(q, v) BY Zenon
    <3>3. m \in Nat BY <2>3, <3>2
    <3>4. m + 1 # 0 BY ONLY <3>3
    <3> QED BY <2>1, <3>1, <3>2, <3>4
  <2>5. CASE v # x
    <3>1. Count(r, Entry(v)) = Count(mm, Entry(v)) /\ Count(t, v) = Count(q, v) BY <1>8, <2>2, <2>5 DEF CountsOneMore
    <3> QED BY <2>1, <3>1
  <2> QED BY <2>4, <2>5
<1> QED BY <1>7, <1>9 DEF MultiInv

\* Of equal entries one goes, while the others remove all.
LEMMA MultiRemoved ==
  ASSUME NEW mm, NEW q, NEW ex, MultiInv(mm, q, ex), NEW x, x \in Values, NEW t, LeftOf(Values, q, x, t),
         NEW ey, ey => ex /\ (Count(q, x) = 0 \/ Count(q, x) = 1), NEW r, r = multimapRemove(mm, Entry(x))
  PROVE  MultiInv(r, t, ey)
<1>1. PICK e, n : e = Entry(x) /\ e \in Entries /\ n = Len(mm)
  BY EntryNames, Zenon
<1>2. mm \in Seq(Entries) /\ Ordered("key", mm) /\ n \in Nat
  <2>1. mm \in Seq(Entries) /\ Ordered("key", mm) BY DEF MultiInv
  <2> QED BY <1>1, <2>1, LenProperties
<1>3. \A v : Count(t, v) = IF v = x THEN 0 ELSE Count(q, v)
  BY DEF LeftOf
<1>4. \A v \in Values : Entry(v) = e <=> v = x
  BY <1>1, EntryNames
<1>5. \A v \in Values : (Count(q, v) # 0 => Count(mm, Entry(v)) # 0) /\ (ex => Count(mm, Entry(v)) = Count(q, v))
  BY DEF MultiInv
<1>6. CASE e \notin Range(mm)
  <2>1. r = mm BY <1>1, <1>6 DEF multimapRemove
  <2>2. Count(mm, e) = 0 BY <1>2, <1>6, RangeCounts
  <2>3. ASSUME NEW v \in Values PROVE (Count(t, v) # 0 => Count(r, Entry(v)) # 0) /\ (ey => Count(r, Entry(v)) = Count(t, v))
    BY <1>3, <1>4, <1>5, <2>1, <2>2
  <2> QED BY <1>2, <2>1, <2>3 DEF MultiInv
<1>7. CASE e \in Range(mm)
  <2>1. PICK i : i = CHOOSE k \in DOMAIN mm : mm[k] = e /\ \A j \in 1..(k - 1) : mm[j] # e
    BY Zenon
  <2>2. DOMAIN mm = 1..n BY <1>1, <1>2
  <2>3. i \in 1..n /\ mm[i] = e
    <3>1. PICK T : T = {k \in 1..n : mm[k] = e} BY Zenon
    <3>2. T \subseteq Nat /\ \E k : k \in T BY <1>2, <1>7, <2>2, <3>1 DEF Range
    <3>3. PICK k \in T : \A j \in T : k <= j BY <3>2, LeastNatural
    <3>4. k \in 1..n /\ mm[k] = e BY <3>1
    <3>5. \A j \in 1..(k - 1) : mm[j] # e
      <4> SUFFICES ASSUME NEW j \in 1..(k - 1), mm[j] = e PROVE FALSE
        OBVIOUS
      <4>1. j \in 1..n /\ ~(k <= j) BY <1>2, <3>4
      <4> QED BY <3>1, <3>3, <4>1
    <3>6. \E l \in DOMAIN mm : mm[l] = e /\ \A j \in 1..(l - 1) : mm[j] # e BY <2>2, <3>4, <3>5
    <3>7. i \in DOMAIN mm /\ mm[i] = e BY <2>1, <3>6
    <3> QED BY <2>2, <3>7
  <2>4. r = RemoveAt(mm, i) BY <1>1, <1>7, <2>1, Zenon DEF multimapRemove
  <2>5. TakenFrom(Entries, mm, i, r)
    <3>1. i \in 1..Len(mm) BY <1>1, <2>3
    <3> QED BY <1>2, <2>4, <3>1, TakenOutIsOneLess, Zenon
  <2>6. r \in Seq(Entries) /\ i \in 1..(Len(r) + 1) /\ OneMore(Entries, r, i, e, mm) /\ Ordered("key", r)
    BY <1>2, <2>3, <2>5 DEF TakenFrom
  <2>7. CountsOneMore(r, e, mm) BY <2>6, CountOneMore, Zenon
  <2>8. Len(r) \in Nat BY <2>6, LenProperties
  <2>9. ASSUME NEW v \in Values PROVE (Count(t, v) # 0 => Count(r, Entry(v)) # 0) /\ (ey => Count(r, Entry(v)) = Count(t, v))
    <3>1. CASE v = x
      <4>1. Count(t, v) = 0 BY <1>3, <3>1
      <4>2. ASSUME ey PROVE Count(r, e) = 0
        <5>1. PICK k : k = Count(r, e) BY Zenon
        <5>2. k \in Nat BY <2>8, <5>1, AtFinite
        <5>3. Count(mm, e) = k + 1 BY <2>7, <5>1 DEF CountsOneMore
        <5>4. Count(mm, e) = Count(q, x) BY <1>1, <1>5, <4>2
        <5>5. k + 1 = 0 \/ k + 1 = 1 BY <4>2, <5>3, <5>4
        <5>6. k = 0 BY ONLY <5>2, <5>5
        <5> QED BY <5>1, <5>6
      <4> QED BY <1>1, <3>1, <4>1, <4>2
    <3>2. CASE v # x
      <4>1. Count(t, v) = Count(q, v) BY <1>3, <3>2
      <4>2. Count(mm, Entry(v)) = Count(r, Entry(v)) BY <1>4, <2>7, <3>2 DEF CountsOneMore
      <4> QED BY <1>5, <4>1, <4>2
    <3> QED BY <3>1, <3>2
  <2> QED BY <2>6, <2>9 DEF MultiInv
<1> QED BY <1>6, <1>7

\* What the property says of it.
LEMMA MultiMeaning ==
  ASSUME NEW mm, NEW q, q \in Seq(Values), NEW ex, MultiInv(mm, q, ex), NEW vals, vals = [i \in DOMAIN mm |-> mm[i][2]]
  PROVE  /\ \A i \in 1..(Len(mm) - 1) : mm[i][1] <= mm[i + 1][1]
         /\ Range(q) \subseteq {e[2] : e \in Range(mm)}
         /\ vals \in Seq(Values) /\ (ex => SameBag(vals, q))
<1>1. PICK n : n = Len(mm)
  BY Zenon
<1>2. mm \in Seq(Entries) /\ Ordered("key", mm) /\ n \in Nat
  <2>1. mm \in Seq(Entries) /\ Ordered("key", mm) BY DEF MultiInv
  <2> QED BY <1>1, <2>1, LenProperties
<1>3. DOMAIN mm = 1..n /\ \A i \in 1..n : mm[i] \in Entries /\ mm[i][1] \in Int /\ mm[i][2] \in Values /\ mm[i] = Entry(mm[i][2])
  <2>1. DOMAIN mm = 1..n /\ \A i \in 1..n : mm[i] \in Entries BY <1>1, <1>2
  <2> QED BY <2>1, EntryNames
<1>4. ASSUME NEW i \in 1..(n - 1) PROVE mm[i][1] <= mm[i + 1][1]
  <2>1. i \in 1..n /\ i + 1 \in 1..n /\ i < i + 1 BY <1>2
  <2>2. ~Less("key", mm[i + 1], mm[i]) BY <1>1, <1>2, <2>1 DEF Ordered
  <2>3. ~(mm[i + 1][1] < mm[i][1]) BY <2>2, Comparators
  <2>4. mm[i][1] \in Int /\ mm[i + 1][1] \in Int BY <1>3, <2>1
  <2> QED BY <2>3, <2>4
<1>5. Len(q) \in Nat
  BY LenProperties
<1>6. \A v \in Values : (Count(q, v) # 0 => Count(mm, Entry(v)) # 0) /\ (ex => Count(mm, Entry(v)) = Count(q, v))
  BY DEF MultiInv
<1>7. ASSUME NEW v \in Range(q) PROVE v \in {e[2] : e \in Range(mm)}
  <2>1. v \in Values BY RangeFinite
  <2>2. Count(q, v) # 0 BY RangeCounts
  <2>3. Count(mm, Entry(v)) # 0 BY <1>6, <2>1, <2>2
  <2>4. Entry(v) \in Range(mm) BY <1>2, <2>3, RangeCounts
  <2>5. Entry(v)[2] = v BY <2>1, EntryNames
  <2> QED BY <2>4, <2>5
<1>8. vals \in Seq(Values) /\ Len(vals) = n /\ \A i \in 1..n : vals[i] = mm[i][2]
  <2>1. vals \in [1..n -> Values] BY <1>3
  <2> QED BY <1>2, <1>3, <2>1
<1>9. ASSUME ex, NEW v PROVE Count(vals, v) = Count(q, v)
  <2>1. CASE v \in Values
    <3>1. ASSUME NEW i \in 1..n PROVE vals[i] = v <=> mm[i] = Entry(v)
      <4>1. vals[i] = mm[i][2] BY <1>8
      <4>2. mm[i] = Entry(mm[i][2]) BY <1>3
      <4>3. Entry(v)[2] = v BY <2>1, EntryNames
      <4> QED BY <4>1, <4>2, <4>3
    <3>2. At(vals, v) = At(mm, Entry(v)) BY <1>1, <1>8, <3>1 DEF At
    <3>3. Count(vals, v) = Count(mm, Entry(v)) BY <3>2 DEF Count
    <3> QED BY <1>6, <1>9, <2>1, <3>3
  <2>2. CASE v \notin Values
    <3>1. ~ \E i \in 1..Len(vals) : vals[i] = v BY <1>3, <1>8, <2>2
    <3>2. ~ \E i \in 1..Len(q) : q[i] = v BY <1>5, <2>2
    <3>3. Len(vals) \in Nat BY <1>2, <1>8
    <3>4. Count(vals, v) = 0 BY <3>1, <3>3, Occurs, Zenon
    <3>5. Count(q, v) = 0 BY <1>5, <3>2, Occurs, Zenon
    <3> QED BY <3>4, <3>5
  <2> QED BY <2>1, <2>2
<1>10. ex => SameBag(vals, q)
  BY <1>9 DEF SameBag
<1> QED BY <1>1, <1>4, <1>7, <1>8, <1>10

-----------------------------------------------------------------------------
(* All of them.                                                            *)

SameIn(f, q) == f \in Seq(Values) /\ SameBag(f, q)

\* The deque has every value the others have, as often; the array and the multimap
\* as long as the history is exact.
TogetherInv(dq, ls, fw, ar, st, hp, ms, sd, hs, mm, ex) ==
  /\ dq \in Seq(Values) /\ ls = dq /\ st = dq
  /\ SameIn(fw, dq) /\ SameIn(hp, dq) /\ SameIn(ms, dq) /\ Ordered("smaller", ms)
  /\ sd = Range(dq) /\ hs = Range(dq) /\ ArrayInv(ar, dq, ex) /\ MultiInv(mm, dq, ex)

ContainersInv ==
  TogetherInv(dequeData, listData, forwardData, arrayData, stackData, heapData, multisetData, setData, hashSet, multimapData, exact)

\* The values in order.
LEMMA ValuesInOrder == TotalOrder("smaller", Values) /\ TotalOrder("larger", Values)
<1>1. Values \subseteq Int
  BY ContainerAssumption
<1>2. PICK E : E = {}
  BY Zenon
<1>3. \A e \in E : e[1] \in Int
  BY <1>2
<1> QED BY <1>1, <1>3, Comparing, Zenon

\* Elements the same both ways, and on.
LEMMA SameIsSame ==
  ASSUME NEW p, NEW q, NEW r
  PROVE  SameBag(q, q) /\ (SameBag(p, q) => SameBag(q, p)) /\ (SameBag(p, q) /\ SameBag(q, r) => SameBag(p, r))
BY DEF SameBag

\* One more of both.
LEMMA SameInOneMore ==
  ASSUME NEW f, NEW q, SameIn(f, q), NEW x, NEW i, i \in 1..(Len(f) + 1), NEW g, OneMore(Values, f, i, x, g), NEW t, CountsOneMore(q, x, t)
  PROVE  SameIn(g, t)
<1>1. f \in Seq(Values) /\ SameBag(f, q)
  BY DEF SameIn
<1>2. CountsOneMore(f, x, g)
  BY <1>1, CountOneMore, Zenon
<1>3. SameBag(g, t)
  BY <1>1, <1>2, SameAndOneMore, Zenon
<1> QED BY <1>3 DEF SameIn, OneMore

\* All of a value from both.
LEMMA SameInLeft ==
  ASSUME NEW f, NEW q, SameIn(f, q), NEW x, NEW g, LeftOf(Values, f, x, g), NEW t, LeftOf(Values, q, x, t)
  PROVE  SameIn(g, t)
BY DEF SameIn, SameBag, LeftOf

\* std::stable_sort of both.
LEMMA SameInSorted ==
  ASSUME NEW f, NEW q, SameIn(f, q), q \in Seq(Values), NEW bf, NEW bq
  PROVE  SameIn(StableSort(f, bf), StableSort(q, bq))
<1>1. f \in Seq(Values) /\ SameBag(f, q)
  BY DEF SameIn
<1>2. PICK g, t : g = StableSort(f, bf) /\ t = StableSort(q, bq)
  BY Zenon
<1>3. SortOf(Values, bf, f, g) /\ SortOf(Values, bq, q, t)
  BY <1>1, <1>2, SortSorts, Zenon
<1>4. g \in Seq(Values) /\ SameBag(g, f) /\ SameBag(t, q)
  BY <1>3 DEF SortOf
<1>5. SameBag(g, t)
  BY <1>1, <1>4 DEF SameBag
<1> QED BY <1>2, <1>4, <1>5 DEF SameIn

\* insert.
LEMMA InsertTogether ==
  ASSUME NEW dq, NEW ls, NEW fw, NEW ar, NEW st, NEW hp, NEW ms, NEW sd, NEW hs, NEW mm, NEW ex,
         TogetherInv(dq, ls, fw, ar, st, hp, ms, sd, hs, mm, ex), NEW x, x \in Values, NEW ey, ey => ex /\ ar.currentSize < ArrayCapacity
  PROVE  TogetherInv(Append(dq, x), Append(ls, x), <<x>> \o fw, arrayInsert(ar, x), Append(st, x), Append(hp, x), multisetInsert(ms, x),
                     setInsert(sd, x), setInsert(hs, x), multimapInsert(mm, Entry(x)), ey)
<1>1. /\ dq \in Seq(Values) /\ ls = dq /\ st = dq
      /\ SameIn(fw, dq) /\ SameIn(hp, dq) /\ SameIn(ms, dq) /\ Ordered("smaller", ms)
      /\ sd = Range(dq) /\ hs = Range(dq) /\ ArrayInv(ar, dq, ex) /\ MultiInv(mm, dq, ex)
  BY DEF TogetherInv
<1>2. PICK t : t = Append(dq, x)
  BY Zenon
<1>3. CountsOneMore(dq, x, t) /\ t \in Seq(Values) /\ Len(dq) \in Nat
  <2>1. PICK i : i = Len(dq) + 1 BY Zenon
  <2>2. i \in 1..(Len(dq) + 1) /\ OneMore(Values, dq, i, x, t) BY <1>1, <1>2, <2>1, AppendedIsOneMore, Zenon
  <2>3. CountsOneMore(dq, x, t) BY <1>1, <2>2, CountOneMore, Zenon
  <2>4. Len(dq) \in Nat BY <1>1, LenProperties
  <2> QED BY <2>2, <2>3, <2>4 DEF OneMore
<1>4. fw \in Seq(Values) /\ hp \in Seq(Values) /\ ms \in Seq(Values)
  BY <1>1 DEF SameIn
<1>5. SameIn(<<x>> \o fw, t)
  <2>1. 1 \in 1..(Len(fw) + 1) /\ OneMore(Values, fw, 1, x, <<x>> \o fw) BY <1>4, PrependedIsOneMore, Zenon
  <2> QED BY <1>1, <1>3, <2>1, SameInOneMore, Zenon
<1>6. SameIn(Append(hp, x), t)
  <2>1. PICK i : i = Len(hp) + 1 BY Zenon
  <2>2. i \in 1..(Len(hp) + 1) /\ OneMore(Values, hp, i, x, Append(hp, x)) BY <1>4, <2>1, AppendedIsOneMore, Zenon
  <2> QED BY <1>1, <1>3, <2>2, SameInOneMore, Zenon
<1>7. SameIn(multisetInsert(ms, x), t) /\ Ordered("smaller", multisetInsert(ms, x))
  <2>1. PICK r : r = SortIn(ms, x, "smaller") /\ r = multisetInsert(ms, x) BY Zenon DEF multisetInsert
  <2>2. Placed(Values, "smaller", ms, x, r) BY <1>4, <2>1, SortInOrder, Zenon
  <2>3. WeakOrder("smaller", Values) BY ValuesInOrder DEF TotalOrder
  <2>4. Ordered("smaller", r) BY <1>1, <2>2, <2>3 DEF Placed
  <2>5. PICK i : i \in 1..(Len(ms) + 1) /\ OneMore(Values, ms, i, x, r) BY <2>2 DEF Placed
  <2>6. SameIn(r, t) BY <1>1, <1>3, <2>5, SameInOneMore, Zenon
  <2> QED BY <2>1, <2>4, <2>6
<1>8. setInsert(Range(dq), x) = Range(t)
  <2>1. ASSUME NEW v PROVE v \in Range(t) <=> v \in Range(dq) \/ v = x
    <3>1. v \in Range(t) <=> Count(t, v) # 0 BY <1>3, RangeCounts
    <3>2. v \in Range(dq) <=> Count(dq, v) # 0 BY <1>1, RangeCounts
    <3>3. PICK k : k = Count(dq, v) BY Zenon
    <3>4. k \in Nat BY <1>3, <3>3, AtFinite
    <3>5. k + 1 # 0 BY ONLY <3>4
    <3>6. Count(t, v) = IF v = x THEN k + 1 ELSE k BY <1>3, <3>3 DEF CountsOneMore
    <3> QED BY <3>1, <3>2, <3>3, <3>5, <3>6
  <2> QED BY <2>1 DEF setInsert
<1>9. ArrayInv(arrayInsert(ar, x), t, ey)
  <2>1. ArrayInv(arrayInsert(ar, x), t, ex /\ ar.currentSize < ArrayCapacity) BY <1>1, <1>2, ArrayInserted
  <2> QED BY <2>1 DEF ArrayInv
<1>10. MultiInv(multimapInsert(mm, Entry(x)), t, ey)
  <2>1. ey => ex OBVIOUS
  <2> QED BY <1>1, <1>3, <2>1, MultiInserted, Zenon
<1> QED BY <1>1, <1>2, <1>3, <1>5, <1>6, <1>7, <1>8, <1>9, <1>10, Zenon DEF TogetherInv

\* remove.
LEMMA RemoveTogether ==
  ASSUME NEW dq, NEW ls, NEW fw, NEW ar, NEW st, NEW hp, NEW ms, NEW sd, NEW hs, NEW mm, NEW ex,
         TogetherInv(dq, ls, fw, ar, st, hp, ms, sd, hs, mm, ex), NEW x, x \in Values,
         NEW ey, ey => ex /\ x \notin Range(arrayGetAll(arrayRemove(ar, x)))
  PROVE  TogetherInv(Without(dq, x), Without(ls, x), Without(fw, x), arrayRemove(ar, x), stackRemove(st, x), heapRemove(hp, x), Without(ms, x),
                     sd \ {x}, hs \ {x}, multimapRemove(mm, Entry(x)), ey)
<1>1. /\ dq \in Seq(Values) /\ ls = dq /\ st = dq
      /\ SameIn(fw, dq) /\ SameIn(hp, dq) /\ SameIn(ms, dq) /\ Ordered("smaller", ms)
      /\ sd = Range(dq) /\ hs = Range(dq) /\ ArrayInv(ar, dq, ex) /\ MultiInv(mm, dq, ex)
  BY DEF TogetherInv
<1>2. PICK t : t = Without(dq, x)
  BY Zenon
<1>3. LeftOf(Values, dq, x, t)
  BY <1>1, <1>2, WithoutLeaves, Zenon
<1>4. t \in Seq(Values) /\ \A v : Count(t, v) = IF v = x THEN 0 ELSE Count(dq, v)
  BY <1>3 DEF LeftOf
<1>5. fw \in Seq(Values) /\ hp \in Seq(Values) /\ ms \in Seq(Values)
  BY <1>1 DEF SameIn
<1>6. stackRemove(st, x) = t
  <2>1. stackGetAll(dq) = dq BY <1>1, ReversedTwice DEF stackGetAll
  <2>2. PushAll(t) = t BY <1>4, PushedAll
  <2> QED BY <1>1, <1>2, <2>1, <2>2, Zenon DEF stackRemove
<1>7. SameIn(Without(fw, x), t)
  <2>1. LeftOf(Values, fw, x, Without(fw, x)) BY <1>5, WithoutLeaves, Zenon
  <2> QED BY <1>1, <1>3, <2>1, SameInLeft, Zenon
<1>8. SameIn(heapRemove(hp, x), t)
  <2>1. PICK h, g : h = StableSort(hp, "larger") /\ g = Without(h, x) BY Zenon
  <2>2. SortOf(Values, "larger", hp, h) BY <1>5, <2>1, SortSorts, Zenon
  <2>3. h \in Seq(Values) /\ SameBag(h, hp) BY <2>2 DEF SortOf
  <2>4. SameIn(h, dq) BY <1>1, <2>3 DEF SameIn, SameBag
  <2>5. LeftOf(Values, h, x, g) BY <2>1, <2>3, WithoutLeaves, Zenon
  <2>6. SameIn(g, t) BY <1>3, <2>4, <2>5, SameInLeft, Zenon
  <2>7. PushAll(g) = g
    <3>1. g \in Seq(Values) BY <2>6 DEF SameIn
    <3> QED BY <3>1, PushedAll
  <2>8. heapRemove(hp, x) = PushAll(g) BY <2>1, Zenon DEF heapRemove, heapGetAll
  <2> QED BY <2>6, <2>7, <2>8
<1>9. SameIn(Without(ms, x), t) /\ Ordered("smaller", Without(ms, x))
  <2>1. LeftOf(Values, ms, x, Without(ms, x)) BY <1>5, WithoutLeaves, Zenon
  <2>2. SameIn(Without(ms, x), t) BY <1>1, <1>3, <2>1, SameInLeft, Zenon
  <2> QED BY <1>1, <2>1, <2>2 DEF LeftOf
<1>10. Range(dq) \ {x} = Range(t)
  <2>1. ASSUME NEW v PROVE v \in Range(t) <=> v \in Range(dq) /\ v # x
    <3>1. v \in Range(t) <=> Count(t, v) # 0 BY <1>4, RangeCounts
    <3>2. v \in Range(dq) <=> Count(dq, v) # 0 BY <1>1, RangeCounts
    <3> QED BY <1>4, <3>1, <3>2
  <2> QED BY <2>1
<1>11. ArrayInv(arrayRemove(ar, x), t, ey) /\ (ey => Count(dq, x) = 0 \/ Count(dq, x) = 1)
  BY <1>1, <1>2, ArrayRemoved, Zenon
<1>12. MultiInv(multimapRemove(mm, Entry(x)), t, ey)
  <2>1. ey => ex /\ (Count(dq, x) = 0 \/ Count(dq, x) = 1) BY <1>11
  <2> QED BY <1>1, <1>3, <2>1, MultiRemoved, Zenon
<1> QED BY <1>1, <1>2, <1>4, <1>6, <1>7, <1>8, <1>9, <1>10, <1>11, <1>12, Zenon DEF TogetherInv

\* sort.
LEMMA SortTogether ==
  ASSUME NEW dq, NEW ls, NEW fw, NEW ar, NEW st, NEW hp, NEW ms, NEW sd, NEW hs, NEW mm, NEW ex,
         TogetherInv(dq, ls, fw, ar, st, hp, ms, sd, hs, mm, ex), NEW by
  PROVE  TogetherInv(StableSort(dq, by), StableSort(ls, by), StableSort(fw, by), arraySort(ar, by), stackSort(st, by), heapSort(hp, by), ms,
                     sd, hashSort(hs, by), mm, ex)
<1>1. /\ dq \in Seq(Values) /\ ls = dq /\ st = dq
      /\ SameIn(fw, dq) /\ SameIn(hp, dq) /\ SameIn(ms, dq) /\ Ordered("smaller", ms)
      /\ sd = Range(dq) /\ hs = Range(dq) /\ ArrayInv(ar, dq, ex) /\ MultiInv(mm, dq, ex)
  BY DEF TogetherInv
<1>2. PICK t : t = StableSort(dq, by)
  BY Zenon
<1>3. SortOf(Values, by, dq, t)
  BY <1>1, <1>2, SortSorts, Zenon
<1>4. t \in Seq(Values) /\ SameBag(t, dq)
  BY <1>3 DEF SortOf
<1>5. stackSort(st, by) = t
  <2>1. stackGetAll(dq) = dq BY <1>1, ReversedTwice DEF stackGetAll
  <2>2. PushAll(t) = t BY <1>4, PushedAll
  <2> QED BY <1>1, <1>2, <2>1, <2>2, Zenon DEF stackSort
<1>6. SameIn(StableSort(fw, by), t)
  BY <1>1, <1>2, SameInSorted, Zenon
<1>7. SameIn(heapSort(hp, by), t)
  <2>1. PICK h, g : h = StableSort(hp, "larger") /\ g = StableSort(h, by) BY Zenon
  <2>2. hp \in Seq(Values) BY <1>1 DEF SameIn
  <2>3. SortOf(Values, "larger", hp, h) BY <2>1, <2>2, SortSorts, Zenon
  <2>4. h \in Seq(Values) /\ SameBag(h, hp) BY <2>3 DEF SortOf
  <2>5. SameIn(h, dq) BY <1>1, <2>4 DEF SameIn, SameBag
  <2>6. SameIn(g, t) BY <1>1, <1>2, <2>1, <2>5, SameInSorted, Zenon
  <2>7. PushAll(g) = g
    <3>1. g \in Seq(Values) BY <2>6 DEF SameIn
    <3> QED BY <3>1, PushedAll
  <2>8. heapSort(hp, by) = PushAll(g) BY <2>1, Zenon DEF heapSort, heapGetAll
  <2> QED BY <2>6, <2>7, <2>8
<1>8. SameIn(ms, t)
  BY <1>1, <1>4 DEF SameIn, SameBag
<1>9. Range(dq) = Range(t) /\ hashSort(hs, by) = Range(t)
  <2>1. Range(t) = Range(dq) BY <1>1, <1>4, SameRange, Zenon
  <2>2. IsFiniteSet(Range(dq)) BY <1>1, RangeFinite
  <2>3. hashSort(Range(dq), by) = Range(dq) BY <2>2, HashSorted, Zenon
  <2> QED BY <1>1, <2>1, <2>3
<1>10. ArrayInv(arraySort(ar, by), t, ex)
  BY <1>1, <1>2, ArraySorted, Zenon
<1>11. MultiInv(mm, t, ex)
  BY <1>1, <1>4 DEF MultiInv, SameBag
<1> QED BY <1>1, <1>2, <1>4, <1>5, <1>6, <1>7, <1>8, <1>9, <1>10, <1>11, Zenon DEF TogetherInv

\* The empty containers.
LEMMA ContainersStart == ContainersInit => ContainersInv
<1> SUFFICES ASSUME ContainersInit PROVE ContainersInv
  OBVIOUS
<1>1. PICK e : e = <<>>
  BY Zenon
<1>2. e \in Seq(Values) /\ e \in Seq(Entries) /\ Len(e) = 0 /\ Range(e) = {}
  BY <1>1 DEF Range
<1>3. \A v : Count(e, v) = 0
  <2> SUFFICES ASSUME NEW v PROVE Count(e, v) = 0
    OBVIOUS
  <2>1. Len(e) \in Nat /\ ~ \E i \in 1..Len(e) : e[i] = v BY <1>2
  <2> QED BY <2>1, Occurs, Zenon
<1>4. SameIn(e, e)
  BY <1>2 DEF SameIn, SameBag
<1>5. \A by : Ordered(by, e)
  BY <1>2 DEF Ordered
<1>6. ArrayInv(arrayData, e, TRUE)
  <2>1. PICK d : d = [i \in 1..ArrayCapacity |-> Unset] BY Zenon
  <2>2. d \in [1..ArrayCapacity -> Cells] BY <2>1 DEF Cells
  <2>3. 0 \in 0..ArrayCapacity BY ContainerAssumption
  <2>4. arrayData = [data |-> d, currentSize |-> 0] BY <2>1 DEF ContainersInit
  <2>5. ArrayOf(arrayData, d, 0) BY <2>2, <2>3, <2>4 DEF ArrayOf
  <2>6. HasAll(d, 0, e) BY <1>2 DEF HasAll
  <2> QED BY <2>5, <2>6 DEF ArrayInv
<1>7. MultiInv(e, e, TRUE)
  BY <1>2, <1>3, <1>5 DEF MultiInv
<1>8. TogetherInv(e, e, e, arrayData, e, e, e, {}, {}, e, TRUE)
  BY <1>2, <1>4, <1>5, <1>6, <1>7 DEF TogetherInv
<1>9. /\ dequeData = e /\ listData = e /\ forwardData = e /\ stackData = e /\ heapData = e /\ multisetData = e
      /\ setData = {} /\ hashSet = {} /\ multimapData = e /\ exact = TRUE
  BY <1>1 DEF ContainersInit
<1> QED BY <1>8, <1>9 DEF ContainersInv

\* Every call keeps the containers together.
LEMMA ContainersStep == ContainersInv /\ [ContainersNext]_containerVars => ContainersInv'
<1> SUFFICES ASSUME ContainersInv, [ContainersNext]_containerVars PROVE ContainersInv'
  OBVIOUS
<1>1. TogetherInv(dequeData, listData, forwardData, arrayData, stackData, heapData, multisetData, setData, hashSet, multimapData, exact)
  BY DEF ContainersInv
<1>2. ASSUME NEW x \in Values, insertValue(x) PROVE ContainersInv'
  <2>1. PICK ey : ey = exact' BY Zenon
  <2>2. ey => exact /\ arrayData.currentSize < ArrayCapacity BY <1>2, <2>1 DEF insertValue
  <2>3. TogetherInv(Append(dequeData, x), Append(listData, x), <<x>> \o forwardData, arrayInsert(arrayData, x), Append(stackData, x),
                    Append(heapData, x), multisetInsert(multisetData, x), setInsert(setData, x), setInsert(hashSet, x),
                    multimapInsert(multimapData, Entry(x)), ey)
    BY <1>1, <2>2, InsertTogether, Zenon
  <2> QED BY <1>2, <2>1, <2>3, Zenon DEF insertValue, ContainersInv
<1>3. ASSUME NEW x \in Values, NEW y \in Values, insertValues(x, y) PROVE ContainersInv'
  <2>1. PICK ey, ez, b : ey = exact' /\ b = arrayInsert(arrayData, x) /\ ez = (exact /\ arrayData.currentSize < ArrayCapacity) BY Zenon
  <2>2. PICK dq, ls, fw, st, hp, ms, sd, hs, mm :
          /\ dq = Append(dequeData, x) /\ ls = Append(listData, x) /\ fw = <<x>> \o forwardData /\ st = Append(stackData, x)
          /\ hp = Append(heapData, x) /\ ms = multisetInsert(multisetData, x) /\ sd = setInsert(setData, x) /\ hs = setInsert(hashSet, x)
          /\ mm = multimapInsert(multimapData, Entry(x))
    BY Zenon
  <2>3. TogetherInv(dq, ls, fw, b, st, hp, ms, sd, hs, mm, ez)
    <3>1. ez => exact /\ arrayData.currentSize < ArrayCapacity BY <2>1
    <3> QED BY <1>1, <2>1, <2>2, <3>1, InsertTogether, Zenon
  <2>4. ey => ez /\ b.currentSize < ArrayCapacity
    <3> SUFFICES ASSUME ey PROVE ez /\ b.currentSize < ArrayCapacity
      OBVIOUS
    <3>1. exact /\ arrayData.currentSize + 2 <= ArrayCapacity BY <1>3, <2>1 DEF insertValues
    <3>2. dequeData \in Seq(Values) /\ ArrayInv(arrayData, dequeData, exact) BY <1>1 DEF TogetherInv
    <3>3. arrayData.currentSize \in Nat /\ (arrayData.currentSize < ArrayCapacity => b.currentSize = arrayData.currentSize + 1)
      BY <2>1, <3>2, ArrayInserted
    <3>4. ArrayCapacity \in Nat BY ContainerAssumption
    <3>5. arrayData.currentSize < ArrayCapacity /\ arrayData.currentSize + 1 < ArrayCapacity BY <3>1, <3>3, <3>4
    <3> QED BY <2>1, <3>1, <3>3, <3>5
  <2>5. TogetherInv(Append(dq, y), Append(ls, y), <<y>> \o fw, arrayInsert(b, y), Append(st, y), Append(hp, y), multisetInsert(ms, y),
                    setInsert(sd, y), setInsert(hs, y), multimapInsert(mm, Entry(y)), ey)
    BY <2>3, <2>4, InsertTogether, Zenon
  <2>6. /\ dequeData' = Append(dq, y) /\ listData' = Append(ls, y) /\ forwardData' = <<y>> \o fw /\ arrayData' = arrayInsert(b, y)
        /\ stackData' = Append(st, y) /\ heapData' = Append(hp, y) /\ multisetData' = multisetInsert(ms, y)
        /\ setData' = setInsert(sd, y) /\ hashSet' = setInsert(hs, y) /\ multimapData' = multimapInsert(mm, Entry(y)) /\ exact' = ey
    BY <1>3, <2>1, <2>2, Zenon DEF insertValues, multimapInsertAll
  <2> QED BY <2>5, <2>6, Zenon DEF ContainersInv
<1>4. ASSUME NEW x \in Values, removeValue(x) PROVE ContainersInv'
  <2>1. PICK ey : ey = exact' BY Zenon
  <2>2. ey => exact /\ x \notin Range(arrayGetAll(arrayRemove(arrayData, x)))
    <3>1. arrayData' = arrayRemove(arrayData, x) /\ exact' = (exact /\ x \notin Range(arrayGetAll(arrayData'))) BY <1>4 DEF removeValue
    <3>2. PICK b : b = arrayRemove(arrayData, x) BY Zenon
    <3> QED BY <2>1, <3>1, <3>2, Zenon
  <2>3. TogetherInv(Without(dequeData, x), Without(listData, x), Without(forwardData, x), arrayRemove(arrayData, x), stackRemove(stackData, x),
                    heapRemove(heapData, x), Without(multisetData, x), setData \ {x}, hashSet \ {x}, multimapRemove(multimapData, Entry(x)), ey)
    BY <1>1, <2>2, RemoveTogether, Zenon
  <2> QED BY <1>4, <2>1, <2>3, Zenon DEF removeValue, ContainersInv
<1>5. ASSUME NEW by, sortValues(by) PROVE ContainersInv'
  <2>1. TogetherInv(StableSort(dequeData, by), StableSort(listData, by), StableSort(forwardData, by), arraySort(arrayData, by),
                    stackSort(stackData, by), heapSort(heapData, by), multisetData, setData, hashSort(hashSet, by), multimapData, exact)
    BY <1>1, SortTogether, Zenon
  <2> QED BY <1>5, <2>1, Zenon DEF sortValues, ContainersInv
<1>6. CASE UNCHANGED containerVars
  BY <1>1, <1>6, Zenon DEF containerVars, ContainersInv
<1>7. CASE ContainersNext
  <2>1. \/ \E x \in Values : insertValue(x) \/ removeValue(x)
        \/ \E x, y \in Values : insertValues(x, y)
        \/ sortValues("smaller") \/ sortValues("larger")
    BY <1>7, Zenon DEF ContainersNext
  <2> QED BY <1>2, <1>3, <1>4, <1>5, <2>1, Zenon
<1> QED BY <1>6, <1>7

\* What the invariant says of the results.
LEMMA ContainersMeaning == ContainersInv => ContainersAgree
<1> SUFFICES ASSUME ContainersInv PROVE ContainersAgree
  OBVIOUS
<1>1. /\ dequeData \in Seq(Values) /\ listData = dequeData /\ stackData = dequeData
      /\ SameIn(forwardData, dequeData) /\ SameIn(heapData, dequeData) /\ SameIn(multisetData, dequeData) /\ Ordered("smaller", multisetData)
      /\ setData = Range(dequeData) /\ hashSet = Range(dequeData)
      /\ ArrayInv(arrayData, dequeData, exact) /\ MultiInv(multimapData, dequeData, exact)
  BY DEF ContainersInv, TogetherInv
<1>2. PICK t : t = StableSort(dequeData, "smaller")
  BY Zenon
<1>3. TotalOrder("smaller", Values) /\ TotalOrder("larger", Values) /\ WeakOrder("smaller", Values) /\ WeakOrder("larger", Values)
  BY ValuesInOrder DEF TotalOrder
<1>4. t \in Seq(Values) /\ SameBag(t, dequeData) /\ Ordered("smaller", t)
  <2>1. SortOf(Values, "smaller", dequeData, t) BY <1>1, <1>2, SortSorts, Zenon
  <2> QED BY <1>3, <2>1 DEF SortOf
<1>5. ASSUME NEW f, f \in Seq(Values), SameBag(f, dequeData) PROVE StableSort(f, "smaller") = t
  <2>1. PICK g : g = StableSort(f, "smaller") BY Zenon
  <2>2. SortOf(Values, "smaller", f, g) BY <1>5, <2>1, SortSorts, Zenon
  <2>3. g \in Seq(Values) /\ SameBag(g, f) /\ Ordered("smaller", g) BY <1>3, <2>2 DEF SortOf
  <2>4. SameBag(g, t) BY <1>4, <1>5, <2>3 DEF SameBag
  <2>5. g = t BY <1>3, <1>4, <2>3, <2>4, OneOrder, Zenon
  <2> QED BY <2>1, <2>5
<1>6. stackGetAll(stackData) = dequeData
  BY <1>1, ReversedTwice DEF stackGetAll
<1>7. StableSort(forwardData, "smaller") = t
  BY <1>1, <1>5 DEF SameIn
<1>8. heapGetAll(heapData) = Reverse(t)
  <2>1. PICK h, r : h = StableSort(heapData, "larger") /\ r = Reverse(t) BY Zenon
  <2>2. heapData \in Seq(Values) /\ SameBag(heapData, dequeData) BY <1>1 DEF SameIn
  <2>3. SortOf(Values, "larger", heapData, h) BY <2>1, <2>2, SortSorts, Zenon
  <2>4. h \in Seq(Values) /\ SameBag(h, heapData) /\ Ordered("larger", h) BY <1>3, <2>3 DEF SortOf
  <2>5. r \in Seq(Values) /\ SameBag(r, t) BY <1>4, <2>1, Reversed
  <2>6. Ordered("larger", r)
    <3>1. Values \subseteq Int BY ContainerAssumption
    <3> QED BY <1>4, <2>1, <3>1, ReversedOrder, Zenon
  <2>7. SameBag(h, r) BY <1>4, <2>2, <2>4, <2>5 DEF SameBag
  <2>8. h = r BY <1>3, <2>4, <2>5, <2>6, <2>7, OneOrder, Zenon
  <2> QED BY <2>1, <2>8 DEF heapGetAll
<1>9. multisetData = t
  <2>1. multisetData \in Seq(Values) /\ SameBag(multisetData, dequeData) BY <1>1 DEF SameIn
  <2>2. SameBag(multisetData, t) BY <1>4, <2>1 DEF SameBag
  <2> QED BY <1>1, <1>3, <1>4, <2>1, <2>2, OneOrder, Zenon
<1>10. exact => arrayGetAll(arrayData) = dequeData
  <2>1. PICK d, c : ArrayOf(arrayData, d, c) /\ (exact => HasAll(d, c, dequeData)) BY <1>1 DEF ArrayInv
  <2> QED BY <1>1, <2>1, ArrayGotAll, Zenon
<1>11. PICK vals : vals = [i \in DOMAIN multimapData |-> multimapData[i][2]]
  BY Zenon
<1>12. /\ \A i \in 1..(Len(multimapData) - 1) : multimapData[i][1] <= multimapData[i + 1][1]
       /\ Range(dequeData) \subseteq {e[2] : e \in Range(multimapData)}
       /\ vals \in Seq(Values) /\ (exact => SameBag(vals, dequeData))
  BY <1>1, <1>11, MultiMeaning
<1>13. exact => StableSort(vals, "smaller") = t
  BY <1>5, <1>12
<1>14. ASSUME NEW x \in Values PROVE binarySearch(t, x) = indexOf(t, x)
  <2>1. Values \subseteq Int BY ContainerAssumption
  <2>2. t \in Seq(Int) /\ x \in Int
    <3>1. Len(t) \in Nat /\ t \in [1..Len(t) -> Values] BY <1>4, LenProperties
    <3>2. t \in [1..Len(t) -> Int] BY <2>1, <3>1
    <3> QED BY <2>1, <3>1, <3>2
  <2> QED BY <1>4, <2>2, FoundByBoth, Zenon
<1> QED BY <1>1, <1>2, <1>6, <1>7, <1>8, <1>9, <1>10, <1>11, <1>12, <1>13, <1>14, Zenon DEF ContainersAgree

\* After any inserts, removals and sorts the containers behind IContainer return what
\* the deque returns, each in its own order, and binary search in sorted results finds
\* what a scan finds: for every set of values, array capacity and length.
THEOREM ContainersAlways == ContainersSpec => []ContainersAgree
<1>1. ContainersSpec => []ContainersInv
  BY ContainersStart, ContainersStep, PTL DEF ContainersSpec
<1> QED BY <1>1, ContainersMeaning, PTL
=============================================================================
