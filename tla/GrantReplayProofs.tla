---------------------------- MODULE GrantReplayProofs ----------------------------
(***************************************************************************)
(* What the replay cache promises of approvals, for any replicas,          *)
(* catalogues, ages, skew and floor.                                       *)
(***************************************************************************)
EXTENDS GrantReplay, FiniteSetTheorems, SequenceTheorems, TLAPS

\* The replicas are started with catalogues that ask for one TTL.  Without it
\* the promises fail (run grants_rolling).
SameSize == \A c, d \in BootCatalogues : SizeFor(c) = SizeFor(d)

Times == Nat \cup {None}

Types ==
    /\ now \in Nat /\ ttl \in Nat
    /\ spentAt \in [Keys -> Times]
    /\ serving \in [Replicas -> Catalogues \cup {None}]
    /\ retention \in [Replicas -> Nat]
    /\ call \in [Replicas -> [grant : Grants, since : Nat] \cup {NoCall}]
    /\ issuedAt \in [Grants -> Times]
    /\ firstUse \in [Grants -> Times]
    /\ uses \in [Grants -> Nat]

\* The bucket has the one TTL from the first boot on, and every replica has
\* read it back.
SizeInv ==
    /\ ttl # 0 => ttl > 0 /\ \A c \in BootCatalogues : ttl = SizeFor(c)
    /\ \A r \in Replicas : serving[r] # None =>
          /\ ttl # 0 /\ retention[r] = ttl
          /\ Covers(serving[r]) <= ttl

\* A call in flight was checked a moment ago, and its approval was fresh then.
CallInv ==
    \A r \in Replicas : call[r] # NoCall =>
        /\ serving[r] # None
        /\ issuedAt[call[r].grant] # None
        /\ call[r].since <= now /\ now <= call[r].since + SpendLatency
        /\ call[r].since < issuedAt[call[r].grant] + ttl

\* After its first use an approval's record stands for a TTL at least.
RecordInv ==
    \A g \in Grants :
        /\ uses[g] = 0 <=> firstUse[g] = None
        /\ uses[g] > 0 =>
              /\ ttl # 0 /\ issuedAt[g] # None
              /\ firstUse[g] <= now
              /\ spentAt[key(g)] = None => firstUse[g] + ttl <= now
              /\ spentAt[key(g)] # None => firstUse[g] <= spentAt[key(g)]

\* The invariant of resolveReplayKV: the bucket, its calls and its records.
IInv == Types /\ SizeInv /\ CallInv /\ RecordInv /\ SingleUse

--------------------------------------------------------------------------------
(* Keys: escaping keeps ids without a dot apart.                            *)

\* A nonempty set of naturals has a least element.
LEMMA LeastNat ==
    ASSUME NEW T, T \subseteq Nat, T # {}
    PROVE  \E m \in T : \A n \in T : m <= n
PROOF
<1> DEFINE R == StrictSubsetOrdering(Nat)
           Up == {1..n : n \in T}
<1>1. IsWellFoundedOn(R, FiniteSubsetsOf(Nat))
    BY FS_StrictSubsetOrderingWellFounded
<1>2. \A n \in Nat : 1..n \in FiniteSubsetsOf(Nat)
    BY FS_Interval DEF FiniteSubsetsOf
<1>3. Up \subseteq FiniteSubsetsOf(Nat) /\ Up # {}
    BY <1>2
<1>4. \E x \in Up : \A y \in Up : ~(<<y, x>> \in R)
  <2> HIDE DEF R, Up
  <2> QED
      BY <1>1, <1>3, WFMin
<1>5. PICK m \in T : \A n \in T : ~(<<1..n, 1..m>> \in R)
    BY <1>4
<1>6. ASSUME NEW n \in T, n < m PROVE FALSE
  <2>1. 1..n \subseteq 1..m /\ m \in 1..m /\ m \notin 1..n
      BY <1>6
  <2>2. 1..n # 1..m
      BY <2>1
  <2>3. <<1..n, 1..m>> \in R
      BY <2>1, <2>2 DEF StrictSubsetOrdering
  <2> QED
      BY <1>5, <2>3
<1> QED
    BY <1>6

\* Induction, over the set of the naturals a property holds for.
LEMMA NatInd ==
    ASSUME NEW G, 0 \in G, \A n \in Nat : n \in G => n + 1 \in G
    PROVE  Nat \subseteq G
PROOF
<1> SUFFICES ASSUME NEW k \in Nat \ G PROVE FALSE
    OBVIOUS
<1> DEFINE T == Nat \ G
<1>1. PICK m \in T : \A n \in T : m <= n
  <2>1. T \subseteq Nat /\ T # {}
      OBVIOUS
  <2> HIDE DEF T
  <2> QED
      BY <2>1, LeastNat
<1>2. m # 0 /\ m - 1 \in Nat
    OBVIOUS
<1>3. m - 1 \in G
    BY <1>1, <1>2
<1> QED
    BY <1>2, <1>3

\* The loop of key: what is written after each character of the id.
IsRun(f, id, n) ==
    f = [i \in 0..n |-> IF i = 0 THEN <<>> ELSE f[i - 1] \o EncodeChar(id[i])]

\* Before the loop, and one turn of it.
LEMMA RunZero ==
    ASSUME NEW f, NEW id, NEW n, IsRun(f, id, n), 0 \in 0..n
    PROVE  f[0] = <<>>
PROOF
<1>1. f[0] = IF 0 = 0 THEN <<>> ELSE f[0 - 1] \o EncodeChar(id[0])
    BY Zenon DEF IsRun
<1> QED
    BY <1>1, Zenon

\* One turn of key's loop: the next character's escape is appended.
Turn(f, id, i) == f[i] = f[i - 1] \o EncodeChar(id[i])

\* A run of the loop takes a turn for every character of the id.
LEMMA RunTurn ==
    ASSUME NEW f, NEW id, NEW n, IsRun(f, id, n), NEW i \in 0..n, i # 0
    PROVE  Turn(f, id, i)
PROOF
<1>1. f[i] = IF i = 0 THEN <<>> ELSE f[i - 1] \o EncodeChar(id[i])
    BY Zenon DEF IsRun
<1> QED
    BY <1>1, Zenon DEF Turn

\* The loop runs to the end of the id, and the key is what it has written then.
LEMMA RunExists ==
    ASSUME NEW X, NEW id \in Seq(X)
    PROVE  \E f : /\ IsRun(f, id, Len(id)) /\ key(id) = f[Len(id)]
PROOF
<1> DEFINE G == {n \in Nat : \E f : IsRun(f, id, n)}
<1>1. 0 \in G
  <2> DEFINE f == [i \in 0..0 |-> <<>>]
  <2>1. IsRun(f, id, 0)
      BY DEF IsRun
  <2> QED
      BY <2>1
<1>2. ASSUME NEW n \in Nat, n \in G PROVE n + 1 \in G
  <2>1. PICK f : IsRun(f, id, n)
      BY <1>2
  <2> DEFINE g == [i \in 0..n + 1 |-> IF i = n + 1 THEN f[n] \o EncodeChar(id[n + 1]) ELSE f[i]]
  <2>2. ASSUME NEW i \in 0..n + 1
        PROVE  g[i] = IF i = 0 THEN <<>> ELSE g[i - 1] \o EncodeChar(id[i])
    <3>1. CASE i = n + 1
        BY <3>1
    <3>2. CASE i \in 1..n
      <4>1. /\ i \in 0..n /\ i # 0 /\ i \in 0..n + 1 /\ i # n + 1
            /\ i - 1 \in 0..n + 1 /\ i - 1 # n + 1
          BY <3>2
      <4>2. f[i] = f[i - 1] \o EncodeChar(id[i])
        <5>1. Turn(f, id, i)
            BY <2>1, <4>1, RunTurn
        <5> QED
            BY <5>1 DEF Turn
      <4>3. g[i] = f[i] /\ g[i - 1] = f[i - 1]
          BY <4>1, Zenon
      <4> QED
          BY <4>1, <4>2, <4>3, Zenon
    <3>3. CASE i = 0
      <4>1. f[0] = <<>>
          BY <2>1 DEF IsRun
      <4> QED
          BY <3>3, <4>1
    <3> QED
        BY <3>1, <3>2, <3>3
  <2>3. IsRun(g, id, n + 1)
      BY <2>2 DEF IsRun
  <2> QED
      BY <2>3
<1>3. Len(id) \in G
  <2> HIDE DEF G
  <2>1. Nat \subseteq G
      BY <1>1, <1>2, NatInd
  <2> QED
      BY <2>1
<1>4. key(id) = (CHOOSE f : IsRun(f, id, Len(id)))[Len(id)]
    BY DEF key, IsRun
<1> QED
    BY <1>3, <1>4

\* A character a key does not admit is written as two digits, and no two as
\* the same two; the dot is no digit.
Alphabet ==
    /\ DOMAIN HexOf \cap Plain = {}
    /\ \A c \in DOMAIN HexOf : HexOf[c] \in Seq(Plain \ {"."}) /\ Len(HexOf[c]) = 2
    /\ \A c, d \in DOMAIN HexOf : HexOf[c] = HexOf[d] => c = d

Letters == (Plain \ {"."}) \cup DOMAIN HexOf

Texts == Seq(Plain \cup {"."})

\* z begins with w.
Starts(z, w) == \A k \in 1..Len(w) : z[k] = w[k]

\* Two texts put together.
LEMMA Appended ==
    ASSUME NEW u \in Texts, NEW e \in Texts
    PROVE  /\ u \o e \in Texts /\ Len(u \o e) = Len(u) + Len(e)
           /\ Len(u) \in Nat /\ Len(e) \in Nat
           /\ Starts(u \o e, u)
           /\ \A k \in 1..Len(e) : (u \o e)[Len(u) + k] = e[k]
BY DEF Texts, Starts

\* A letter is written as itself, or as a dot and its digits.
LEMMA Block ==
    ASSUME Alphabet, NEW c \in Letters
    PROVE  /\ EncodeChar(c) \in Texts /\ Len(EncodeChar(c)) > 0
           /\ \/ c \in Plain \ {"."} /\ EncodeChar(c) = <<c>>
              \/ /\ c \in DOMAIN HexOf /\ Len(EncodeChar(c)) = 3
                 /\ EncodeChar(c)[1] = "."
                 /\ EncodeChar(c)[2] = HexOf[c][1] /\ EncodeChar(c)[3] = HexOf[c][2]
PROOF
<1>1. CASE c \in Plain
    BY <1>1 DEF Alphabet, Letters, EncodeChar, Texts
<1>2. CASE c \notin Plain
  <2>1. c \in DOMAIN HexOf /\ EncodeChar(c) = <<".">> \o HexOf[c]
      BY <1>2 DEF Letters, EncodeChar
  <2>2. HexOf[c] \in Texts /\ Len(HexOf[c]) = 2
      BY <2>1 DEF Alphabet, Texts
  <2>3. <<".">> \in Texts /\ Len(<<".">>) = 1 /\ <<".">>[1] = "."
      BY DEF Texts
  <2>4. PICK u, h : u = <<".">> /\ h = HexOf[c]
      OBVIOUS
  <2>5. /\ u \in Texts /\ h \in Texts /\ Len(u) = 1 /\ Len(h) = 2 /\ u[1] = "."
        /\ EncodeChar(c) = u \o h
      BY <2>1, <2>2, <2>3, <2>4
  <2>6. /\ u \o h \in Texts /\ Len(u \o h) = Len(u) + Len(h) /\ Starts(u \o h, u)
        /\ \A k \in 1..Len(h) : (u \o h)[Len(u) + k] = h[k]
      BY <2>5, Appended
  <2>7. Len(u \o h) = 3 /\ (u \o h)[1] = "." /\ (u \o h)[2] = h[1] /\ (u \o h)[3] = h[2]
      BY <2>5, <2>6 DEF Starts
  <2> QED
      BY <2>1, <2>4, <2>5, <2>6, <2>7
<1> QED
    BY <1>1, <1>2

\* What a letter's code shows of it, from place p of the text z on.
Shown(c, z, p) ==
    \/ c \in Plain \ {"."} /\ z[p + 1] = c
    \/ /\ c \in DOMAIN HexOf /\ z[p + 1] = "."
       /\ z[p + 2] = HexOf[c][1] /\ z[p + 3] = HexOf[c][2]

\* Every character's escape can be read back where it starts in a key.
LEMMA BlockShows ==
    ASSUME Alphabet, NEW w \in Texts, NEW c \in Letters, NEW z,
           Starts(z, w \o EncodeChar(c))
    PROVE  Shown(c, z, Len(w))
PROOF
<1>1. EncodeChar(c) \in Texts
    BY Block
<1>2. \A k \in 1..Len(EncodeChar(c)) : z[Len(w) + k] = EncodeChar(c)[k]
  <2> SUFFICES ASSUME NEW k \in 1..Len(EncodeChar(c))
               PROVE  z[Len(w) + k] = EncodeChar(c)[k]
      OBVIOUS
  <2>1. Len(w) + k \in 1..Len(w \o EncodeChar(c))
      BY <1>1, Appended
  <2>2. (w \o EncodeChar(c))[Len(w) + k] = EncodeChar(c)[k]
      BY <1>1, Appended
  <2> QED
      BY <2>1, <2>2 DEF Starts
<1>3. CASE c \in Plain \ {"."} /\ EncodeChar(c) = <<c>>
  <2>1. Len(EncodeChar(c)) = 1 /\ EncodeChar(c)[1] = c
      BY <1>3
  <2> QED
      BY <1>2, <1>3, <2>1 DEF Shown
<1>4. CASE /\ c \in DOMAIN HexOf /\ Len(EncodeChar(c)) = 3 /\ EncodeChar(c)[1] = "."
           /\ EncodeChar(c)[2] = HexOf[c][1] /\ EncodeChar(c)[3] = HexOf[c][2]
    BY <1>2, <1>4 DEF Shown
<1> QED
    BY <1>3, <1>4, Block

\* What begins with the same text and goes on with a letter shows which letter.
LEMMA SameBlock ==
    ASSUME Alphabet, NEW w \in Texts, NEW a \in Letters, NEW b \in Letters, NEW z,
           Starts(z, w \o EncodeChar(a)), Starts(z, w \o EncodeChar(b))
    PROVE  a = b
PROOF
<1>1. Shown(a, z, Len(w)) /\ Shown(b, z, Len(w))
    BY BlockShows
<1>2. CASE a \in DOMAIN HexOf /\ b \in DOMAIN HexOf /\ HexOf[a][1] = HexOf[b][1] /\ HexOf[a][2] = HexOf[b][2]
  <2>1. /\ HexOf[a] \in Seq(Plain \ {"."}) /\ Len(HexOf[a]) = 2
        /\ HexOf[b] \in Seq(Plain \ {"."}) /\ Len(HexOf[b]) = 2
      BY <1>2 DEF Alphabet
  <2>2. HexOf[a] = HexOf[b]
      BY <1>2, <2>1
  <2> QED
      BY <1>2, <2>2 DEF Alphabet
<1> QED
    BY <1>1, <1>2 DEF Shown

\* One more letter is written.
LEMMA RunStep ==
    ASSUME NEW id \in Seq(Letters), NEW f, IsRun(f, id, Len(id)), NEW n \in 0..Len(id), n < Len(id)
    PROVE  f[0] = <<>> /\ id[n + 1] \in Letters /\ f[n + 1] = f[n] \o EncodeChar(id[n + 1])
PROOF
<1>1. n + 1 \in 0..Len(id) /\ n + 1 # 0 /\ (n + 1) - 1 = n /\ 0 \in 0..Len(id) /\ n + 1 \in 1..Len(id)
    OBVIOUS
<1>2. f[0] = <<>>
    BY <1>1, RunZero, Zenon
<1>3. f[n + 1] = f[n] \o EncodeChar(id[n + 1])
  <2>1. Turn(f, id, n + 1)
      BY <1>1, RunTurn
  <2> QED
      BY <1>1, <2>1, Zenon DEF Turn
<1>4. id[n + 1] \in Letters
    BY <1>1
<1> QED
    BY <1>1, <1>2, <1>3, <1>4, Zenon

\* What is written is text.
LEMMA RunType ==
    ASSUME Alphabet, NEW id \in Seq(Letters), NEW f, IsRun(f, id, Len(id)), NEW i \in 0..Len(id)
    PROVE  f[i] \in Texts
PROOF
<1> DEFINE G == {n \in Nat : n <= Len(id) => f[n] \in Texts}
<1>1. 0 \in G
  <2>1. 0 \in 0..Len(id)
      OBVIOUS
  <2>2. f[0] = <<>>
      BY <2>1, RunZero, Zenon
  <2>3. <<>> \in Texts
      BY DEF Texts
  <2> QED
      BY <2>2, <2>3
<1>2. ASSUME NEW n \in Nat, n \in G PROVE n + 1 \in G
  <2> SUFFICES ASSUME n + 1 <= Len(id) PROVE f[n + 1] \in Texts
      OBVIOUS
  <2>1. n \in 0..Len(id) /\ n < Len(id) /\ f[n] \in Texts
      BY <1>2
  <2>2. id[n + 1] \in Letters /\ f[n + 1] = f[n] \o EncodeChar(id[n + 1])
      BY <2>1, RunStep
  <2> QED
      BY <2>1, <2>2, Block, Appended
<1>3. Nat \subseteq G
  <2> HIDE DEF G
  <2> QED
      BY <1>1, <1>2, NatInd
<1> QED
    BY <1>3

\* A sum with something is more.
LEMMA More ==
    ASSUME NEW a \in Nat, NEW b \in Nat, b > 0, NEW c, c = a + b
    PROVE  a < c
OBVIOUS

\* What is written stays, and every letter writes something.
LEMMA RunGrows ==
    ASSUME Alphabet, NEW id \in Seq(Letters), NEW f, IsRun(f, id, Len(id)), NEW i \in 0..Len(id)
    PROVE  Starts(f[Len(id)], f[i]) /\ (i < Len(id) => Len(f[i]) < Len(f[Len(id)]))
PROOF
<1> DEFINE P(m) == /\ Starts(f[m], f[i]) /\ Len(f[i]) <= Len(f[m])
                   /\ i < m => Len(f[i]) < Len(f[m])
           G == {m \in Nat : i <= m /\ m <= Len(id) => P(m)}
<1>1. f[i] \in Texts /\ Len(f[i]) \in Nat /\ Starts(f[i], f[i])
    BY RunType DEF Texts, Starts
<1>2. 0 \in G
    BY <1>1
<1>3. ASSUME NEW m \in Nat, m \in G PROVE m + 1 \in G
  <2> SUFFICES ASSUME i <= m + 1, m + 1 <= Len(id) PROVE P(m + 1)
      OBVIOUS
  <2>1. CASE i = m + 1
      BY <1>1, <2>1
  <2>2. CASE i <= m
    <3>1. m \in 0..Len(id) /\ m < Len(id) /\ P(m)
        BY <1>3, <2>2
    <3>2. id[m + 1] \in Letters /\ f[m + 1] = f[m] \o EncodeChar(id[m + 1])
        BY <3>1, RunStep
    <3>3. /\ Len(f[m]) \in Nat /\ Len(f[m]) < Len(f[m + 1])
          /\ Starts(f[m + 1], f[m])
      <4>1. f[m] \in Texts
          BY <3>1, RunType
      <4>2. EncodeChar(id[m + 1]) \in Texts /\ Len(EncodeChar(id[m + 1])) > 0
          BY <3>2, Block
      <4>3. /\ Len(f[m + 1]) = Len(f[m]) + Len(EncodeChar(id[m + 1]))
            /\ Len(f[m]) \in Nat /\ Len(EncodeChar(id[m + 1])) \in Nat
            /\ Starts(f[m + 1], f[m])
          BY <3>2, <4>1, <4>2, Appended
      <4>4. Len(f[m]) < Len(f[m + 1])
          BY <4>2, <4>3, More, Zenon
      <4> QED
          BY <4>3, <4>4, Zenon
    <3>4. Starts(f[m + 1], f[i])
        BY <1>1, <3>1, <3>3 DEF Starts
    <3> QED
        BY <1>1, <3>1, <3>3, <3>4
  <2> QED
      BY <2>1, <2>2
<1>4. Nat \subseteq G
  <2> HIDE DEF G
  <2> QED
      BY <1>2, <1>3, NatInd
<1> QED
    BY <1>4

\* Two ids with one key are written letter by letter alike.
LEMMA RunsAgree ==
    ASSUME Alphabet, NEW x \in Seq(Letters), NEW y \in Seq(Letters), NEW f, NEW g,
           IsRun(f, x, Len(x)), IsRun(g, y, Len(y)), f[Len(x)] = g[Len(y)],
           NEW i \in Nat, i <= Len(x), i <= Len(y)
    PROVE  f[i] = g[i] /\ \A k \in 1..i : x[k] = y[k]
PROOF
<1> DEFINE P(m) == f[m] = g[m] /\ \A k \in 1..m : x[k] = y[k]
           G == {m \in Nat : m <= Len(x) /\ m <= Len(y) => P(m)}
<1>1. 0 \in G
  <2>0. 0 \in 0..Len(x) /\ 0 \in 0..Len(y)
      OBVIOUS
  <2>1. f[0] = <<>>
      BY <2>0, RunZero, Zenon
  <2>2. g[0] = <<>>
      BY <2>0, RunZero, Zenon
  <2> QED
      BY <2>1, <2>2
<1>2. ASSUME NEW m \in Nat, m \in G PROVE m + 1 \in G
  <2> SUFFICES ASSUME m + 1 <= Len(x), m + 1 <= Len(y) PROVE P(m + 1)
      OBVIOUS
  <2>1. m \in 0..Len(x) /\ m < Len(x) /\ m \in 0..Len(y) /\ m < Len(y) /\ P(m)
      BY <1>2
  <2>2. x[m + 1] \in Letters /\ f[m + 1] = f[m] \o EncodeChar(x[m + 1])
      BY <2>1, RunStep
  <2>3. y[m + 1] \in Letters /\ g[m + 1] = f[m] \o EncodeChar(y[m + 1])
    <3>1. g[m + 1] = g[m] \o EncodeChar(y[m + 1]) /\ y[m + 1] \in Letters
        BY <2>1, RunStep, Zenon
    <3> QED
        BY <2>1, <3>1, Zenon
  <2>4. f[m] \in Texts
      BY <2>1, RunType
  <2>5. Starts(f[Len(x)], f[m + 1]) /\ Starts(f[Len(x)], g[m + 1])
    <3>1. m + 1 \in 0..Len(x) /\ m + 1 \in 0..Len(y)
        OBVIOUS
    <3>2. Starts(f[Len(x)], f[m + 1])
        BY <3>1, RunGrows
    <3>3. Starts(g[Len(y)], g[m + 1])
        BY <3>1, RunGrows
    <3> QED
        BY <3>2, <3>3
  <2>6. x[m + 1] = y[m + 1]
      BY <2>2, <2>3, <2>4, <2>5, SameBlock
  <2> QED
      BY <2>1, <2>2, <2>3, <2>6
<1>3. Nat \subseteq G
  <2> HIDE DEF G
  <2> QED
      BY <1>1, <1>2, NatInd
<1> QED
    BY <1>3

\* Escaping keeps ids apart: no two ids without a dot share a key.
THEOREM KeysTellApart ==
    ASSUME Alphabet, NEW x \in Seq(Letters), NEW y \in Seq(Letters), key(x) = key(y)
    PROVE  x = y
PROOF
<1>1. PICK f : IsRun(f, x, Len(x)) /\ key(x) = f[Len(x)]
    BY RunExists
<1>2. PICK g : IsRun(g, y, Len(y)) /\ key(y) = g[Len(y)]
    BY RunExists
<1>3. Len(x) \in Nat /\ Len(y) \in Nat /\ f[Len(x)] = g[Len(y)]
  <2>1. Len(x) \in Nat /\ Len(y) \in Nat
      OBVIOUS
  <2>2. f[Len(x)] = g[Len(y)]
      BY <1>1, <1>2, Zenon
  <2> QED
      BY <2>1, <2>2
<1>4. ASSUME NEW i \in Nat, i <= Len(x), i <= Len(y)
      PROVE  f[i] = g[i] /\ \A k \in 1..i : x[k] = y[k]
    BY <1>1, <1>2, <1>3, <1>4, RunsAgree
<1>5. ~(Len(x) < Len(y))
  <2> SUFFICES ASSUME Len(x) < Len(y) PROVE FALSE
      OBVIOUS
  <2>1. f[Len(x)] = g[Len(x)] /\ Len(x) \in 0..Len(y)
      BY <1>3, <1>4
  <2>2. Len(g[Len(x)]) < Len(g[Len(y)]) /\ g[Len(x)] \in Texts
      BY <1>2, <2>1, RunGrows, RunType
  <2> QED
      BY <1>3, <2>1, <2>2 DEF Texts
<1>6. ~(Len(y) < Len(x))
  <2> SUFFICES ASSUME Len(y) < Len(x) PROVE FALSE
      OBVIOUS
  <2>1. f[Len(y)] = g[Len(y)] /\ Len(y) \in 0..Len(x)
      BY <1>3, <1>4
  <2>2. Len(f[Len(y)]) < Len(f[Len(x)]) /\ f[Len(y)] \in Texts
      BY <1>1, <2>1, RunGrows, RunType
  <2> QED
      BY <1>3, <2>1, <2>2 DEF Texts
<1>7. Len(x) = Len(y)
    BY <1>3, <1>5, <1>6
<1> QED
    BY <1>3, <1>4, <1>7

\* With a dot they are not: the dot is admitted as it is, and the escape of
\* another character reads like an id that spells it out (replay.key).
THEOREM DotsCollide ==
    ASSUME "." \in Plain, NEW c, c \notin Plain,
           NEW a \in Plain, NEW b \in Plain, HexOf[c] = <<a, b>>
    PROVE  key(<<c>>) = key(<<".", a, b>>)
PROOF
<1> DEFINE x == <<c>>
           y == <<".", a, b>>
<1>1. PICK f : IsRun(f, x, Len(x)) /\ key(x) = f[Len(x)]
  <2>1. x \in Seq({c})
      OBVIOUS
  <2> QED
      BY <2>1, RunExists
<1>2. PICK g : IsRun(g, y, Len(y)) /\ key(y) = g[Len(y)]
  <2>1. y \in Seq(Plain)
      OBVIOUS
  <2> QED
      BY <2>1, RunExists
<1>3. Len(x) = 1 /\ Len(y) = 3 /\ x[1] = c /\ y[1] = "." /\ y[2] = a /\ y[3] = b
    OBVIOUS
<1> HIDE DEF x, y
<1>4. f[0] = <<>> /\ g[0] = <<>>
  <2>1. 0 \in 0..Len(x) /\ 0 \in 0..Len(y)
      BY <1>3
  <2>2. f[0] = <<>>
      BY <1>1, <2>1, RunZero, Zenon
  <2>3. g[0] = <<>>
      BY <1>2, <2>1, RunZero, Zenon
  <2> QED
      BY <2>2, <2>3, Zenon
<1>5. Turn(f, x, 1)
  <2>1. 1 \in 0..Len(x) /\ 1 # 0
      BY <1>3
  <2> QED
      BY <1>1, <2>1, RunTurn
<1>6. Turn(g, y, 1) /\ Turn(g, y, 2) /\ Turn(g, y, 3)
  <2>1. ASSUME NEW i \in {1, 2, 3} PROVE Turn(g, y, i)
    <3>1. i \in 0..Len(y) /\ i # 0
        BY <1>3
    <3> QED
        BY <1>2, <3>1, RunTurn
  <2> QED
      BY <2>1
<1>7. 1 - 1 = 0 /\ 2 - 1 = 1 /\ 3 - 1 = 2
    OBVIOUS
<1>8. /\ EncodeChar(c) = <<".">> \o <<a, b>>
      /\ EncodeChar(".") = <<".">> /\ EncodeChar(a) = <<a>> /\ EncodeChar(b) = <<b>>
    BY DEF EncodeChar
<1>9. f[1] = <<>> \o (<<".">> \o <<a, b>>)
    BY <1>3, <1>4, <1>5, <1>7, <1>8, Zenon DEF Turn
<1>10. g[1] = <<>> \o <<".">>
    BY <1>3, <1>4, <1>6, <1>7, <1>8, Zenon DEF Turn
<1>11. g[2] = g[1] \o <<a>> /\ g[3] = g[2] \o <<b>>
    BY <1>3, <1>6, <1>7, <1>8, Zenon DEF Turn
<1>12. <<>> \o (<<".">> \o <<a, b>>) = ((<<>> \o <<".">>) \o <<a>>) \o <<b>>
  <2> DEFINE d == <<".">>
  <2>1. /\ <<>> \in Seq(Plain) /\ d \in Seq(Plain) /\ <<a>> \in Seq(Plain)
        /\ <<b>> \in Seq(Plain) /\ <<a, b>> \in Seq(Plain)
      OBVIOUS
  <2>2. <<a, b>> = <<a>> \o <<b>>
    <3>1. PICK u, v : u = <<a, b>> /\ v = <<a>> \o <<b>>
        OBVIOUS
    <3>2. u \in Seq(Plain) /\ Len(u) = 2 /\ u[1] = a /\ u[2] = b
        BY <3>1
    <3>3. v \in Seq(Plain) /\ Len(v) = 2 /\ v[1] = a /\ v[2] = b
        BY <3>1
    <3>4. \A i \in 1..Len(u) : u[i] = v[i]
        BY <3>2, <3>3
    <3>5. u = v
        BY <3>2, <3>3, <3>4, SeqEqual
    <3> QED
        BY <3>1, <3>5
  <2> HIDE DEF d
  <2>3. <<>> \o d = d /\ d \o <<a>> \in Seq(Plain) /\ d \o <<a, b>> \in Seq(Plain)
      BY <2>1
  <2>4. (d \o <<a>>) \o <<b>> = d \o (<<a>> \o <<b>>)
      BY <2>1
  <2>5. <<>> \o (d \o <<a, b>>) = d \o <<a, b>>
      BY <2>3
  <2> QED
      BY <2>2, <2>3, <2>4, <2>5 DEF d
<1> QED
    BY <1>1, <1>2, <1>3, <1>9, <1>10, <1>11, <1>12, Zenon DEF x, y

--------------------------------------------------------------------------------
(* Approvals: every step keeps the invariant.                              *)

USE GrantAssumption

\* A bucket keeps a record for the whole of its TTL (the KV's expiry).
LEMMA KeptRecords ==
    ASSUME Types, NEW t \in Nat, NEW life \in Nat, spentAt' = Kept(t, life), NEW k \in Keys
    PROVE  /\ spentAt' \in [Keys -> Times]
           /\ spentAt'[k] = spentAt[k] \/ spentAt'[k] = None
           /\ spentAt[k] # None /\ spentAt'[k] = None => spentAt[k] + life <= t
PROOF
<1>1. spentAt[k] \in Times /\ (spentAt[k] # None => spentAt[k] \in Nat)
    BY DEF Types, Times
<1>2. spentAt'[k] = IF spentAt[k] # None /\ spentAt[k] + life > t THEN spentAt[k] ELSE None
    BY DEF Kept
<1>3. spentAt' \in [Keys -> Times]
    BY DEF Kept, Types, Times
<1> QED
    BY <1>1, <1>2, <1>3

\* The size asked for covers the catalogue it is asked for, and is not nothing.
LEMMA Sizes ==
    ASSUME NEW c \in Catalogues
    PROVE  /\ Covers(c) \in Nat /\ SizeFor(c) \in Nat \ {0} /\ Covers(c) <= SizeFor(c)
           /\ LongestAge[c] > 0 => Covers(c) = LongestAge[c] + Skew
           /\ LongestAge[c] = 0 => Covers(c) = 0
BY DEF Covers, SizeFor

\* Nothing is issued, spent or served at first.
LEMMA InitHolds == Init => IInv
PROOF
<1> SUFFICES ASSUME Init PROVE IInv
    OBVIOUS
<1>1. Types
    BY DEF Init, Types, Times
<1>2. SizeInv /\ CallInv /\ RecordInv /\ SingleUse
    BY DEF Init, SizeInv, CallInv, RecordInv, SingleUse
<1> QED
    BY <1>1, <1>2 DEF IInv

\* Time passes for the records and for the calls in flight.
LEMMA TickStep ==
    ASSUME IInv, Tick
    PROVE  IInv'
PROOF
<1>1. /\ Types /\ SizeInv /\ CallInv /\ RecordInv /\ SingleUse
      /\ now \in Nat /\ now' = now + 1 /\ ttl \in Nat
      /\ spentAt' = Kept(now + 1, ttl)
      /\ UNCHANGED <<ttl, serving, retention, call, issuedAt, firstUse, uses>>
    BY DEF IInv, Tick, history, Types
<1>2. ASSUME NEW k \in Keys
      PROVE  /\ spentAt' \in [Keys -> Times]
             /\ spentAt'[k] = spentAt[k] \/ spentAt'[k] = None
             /\ spentAt[k] # None /\ spentAt'[k] = None => spentAt[k] + ttl <= now + 1
    BY <1>1, KeptRecords
<1>3. Types'
  <2>1. spentAt' \in [Keys -> Times]
      BY <1>1 DEF Kept, Types, Times
  <2> QED
      BY <1>1, <2>1 DEF Types
<1>4. SizeInv' /\ SingleUse'
    BY <1>1 DEF SizeInv, SingleUse
<1>5. CallInv'
  <2> SUFFICES ASSUME NEW r \in Replicas, call[r] # NoCall
               PROVE  now + 1 <= call[r].since + SpendLatency
      BY <1>1 DEF CallInv, Types
  <2>1. call[r].since \in Nat
      BY <1>1 DEF Types
  <2>2. now - call[r].since < SpendLatency
      BY DEF Tick
  <2> QED
      BY <1>1, <2>1, <2>2
<1>6. RecordInv'
  <2> SUFFICES ASSUME NEW g \in Grants, uses[g] > 0
               PROVE  /\ firstUse[g] <= now + 1
                      /\ spentAt'[key(g)] = None => firstUse[g] + ttl <= now + 1
                      /\ spentAt'[key(g)] # None => firstUse[g] <= spentAt'[key(g)]
      BY <1>1 DEF RecordInv
  <2>1. key(g) \in Keys
      BY DEF Keys
  <2>2. /\ firstUse[g] \in Nat /\ firstUse[g] <= now
        /\ spentAt[key(g)] = None => firstUse[g] + ttl <= now
        /\ spentAt[key(g)] # None => firstUse[g] <= spentAt[key(g)] /\ spentAt[key(g)] \in Nat
      BY <1>1, <2>1 DEF RecordInv, Types, Times
  <2> QED
      BY <1>1, <1>2, <2>1, <2>2
<1> QED
    BY <1>3, <1>4, <1>5, <1>6 DEF IInv

\* A replica joins: the bucket keeps its TTL, for every boot asks for the same.
LEMMA BootStep ==
    ASSUME SameSize, IInv, NEW r \in Replicas, NEW c \in BootCatalogues, Boot(r, c)
    PROVE  IInv'
PROOF
<1>1. /\ Types /\ SizeInv /\ CallInv /\ RecordInv /\ SingleUse
      /\ serving[r] = None
      /\ ttl' = SizeFor(c) /\ spentAt' = Kept(now, SizeFor(c))
      /\ retention' = [retention EXCEPT ![r] = SizeFor(c)]
      /\ serving' = [serving EXCEPT ![r] = c]
      /\ UNCHANGED <<now, call, issuedAt, firstUse, uses>>
    BY DEF IInv, Boot, history
<1>2. /\ c \in Catalogues /\ c # None
      /\ SizeFor(c) \in Nat \ {0} /\ Covers(c) \in Nat /\ Covers(c) <= SizeFor(c)
    BY Sizes
<1>3. ttl \in Nat /\ now \in Nat /\ (ttl # 0 => ttl' = ttl)
    BY <1>1 DEF SizeInv, Types
<1>4. Types'
  <2>1. spentAt' \in [Keys -> Times]
      BY <1>1 DEF Kept, Types, Times
  <2> QED
      BY <1>1, <1>2, <2>1 DEF Types
<1>5. SizeInv'
  <2>1. ttl' > 0 /\ \A d \in BootCatalogues : ttl' = SizeFor(d)
      BY <1>1, <1>2 DEF SameSize
  <2>2. ASSUME NEW s \in Replicas, serving'[s] # None
        PROVE  retention'[s] = ttl' /\ Covers(serving'[s]) <= ttl'
    <3>1. CASE s = r
        BY <1>1, <1>2, <3>1 DEF Types
    <3>2. CASE s # r
        BY <1>1, <1>3, <2>2, <3>2 DEF SizeInv, Types
    <3> QED
        BY <3>1, <3>2
  <2> QED
      BY <1>2, <1>1, <2>1, <2>2 DEF SizeInv
<1>6. CallInv'
  <2> SUFFICES ASSUME NEW s \in Replicas, call[s] # NoCall
               PROVE  serving'[s] # None /\ ttl' = ttl
      BY <1>1 DEF CallInv
  <2>1. serving[s] # None
      BY <1>1 DEF CallInv
  <2> QED
      BY <1>1, <1>3, <2>1 DEF SizeInv, Types
<1>7. RecordInv'
  <2> SUFFICES ASSUME NEW g \in Grants, uses[g] > 0
               PROVE  /\ ttl' # 0
                      /\ spentAt'[key(g)] = None => firstUse[g] + ttl' <= now
                      /\ spentAt'[key(g)] # None => firstUse[g] <= spentAt'[key(g)]
      BY <1>1 DEF RecordInv
  <2>1. /\ key(g) \in Keys /\ ttl' = ttl /\ ttl # 0
      BY <1>1, <1>3 DEF Keys, RecordInv
  <2>2. /\ firstUse[g] \in Nat
        /\ spentAt[key(g)] = None => firstUse[g] + ttl <= now
        /\ spentAt[key(g)] # None => firstUse[g] <= spentAt[key(g)] /\ spentAt[key(g)] \in Nat
      BY <1>1, <2>1 DEF RecordInv, Types, Times
  <2>3. /\ spentAt'[key(g)] = spentAt[key(g)] \/ spentAt'[key(g)] = None
        /\ spentAt[key(g)] # None /\ spentAt'[key(g)] = None
             => spentAt[key(g)] + SizeFor(c) <= now
      BY <1>1, <1>2, <1>3, <2>1, KeptRecords
  <2> QED
      BY <1>1, <1>2, <1>3, <2>1, <2>2, <2>3
<1> QED
    BY <1>1, <1>4, <1>5, <1>6, <1>7 DEF IInv, SingleUse

\* A reload is admitted against the retention read at boot, which is the TTL.
LEMMA ReloadStep ==
    ASSUME IInv, NEW r \in Replicas, NEW c \in Catalogues, Reload(r, c)
    PROVE  IInv'
PROOF
<1>1. /\ Types /\ SizeInv /\ CallInv /\ RecordInv /\ SingleUse
      /\ serving[r] # None /\ Admit(r, c)
      /\ serving' = [serving EXCEPT ![r] = c]
      /\ UNCHANGED <<now, ttl, spentAt, retention, call, issuedAt, firstUse, uses>>
    BY DEF IInv, Reload, history
<1>2. c # None /\ ttl \in Nat /\ LongestAge[c] \in Nat
    BY <1>1 DEF Types
<1>3. Covers(c) <= ttl
  <2>1. retention[r] = ttl /\ ttl # 0
      BY <1>1 DEF SizeInv
  <2> QED
      BY <1>1, <1>2, <2>1, Sizes DEF Admit, CheckRetention
<1>4. Types' /\ RecordInv' /\ SingleUse'
    BY <1>1 DEF Types, RecordInv, SingleUse
<1>5. SizeInv'
  <2> SUFFICES ASSUME NEW s \in Replicas, serving'[s] # None
               PROVE  ttl # 0 /\ retention[s] = ttl /\ Covers(serving'[s]) <= ttl
      BY <1>1 DEF SizeInv
  <2> QED
      BY <1>1, <1>2, <1>3 DEF SizeInv, Types
<1>6. CallInv'
    BY <1>1, <1>2 DEF CallInv, Types
<1> QED
    BY <1>4, <1>5, <1>6 DEF IInv

\* A crash takes the replica's call with it and leaves the bucket alone.
LEMMA CrashStep ==
    ASSUME IInv, NEW r \in Replicas, Crash(r)
    PROVE  IInv'
PROOF
<1>1. /\ Types /\ SizeInv /\ CallInv /\ RecordInv /\ SingleUse
      /\ serving' = [serving EXCEPT ![r] = None]
      /\ retention' = [retention EXCEPT ![r] = 0]
      /\ call' = [call EXCEPT ![r] = NoCall]
      /\ UNCHANGED <<now, ttl, spentAt, issuedAt, firstUse, uses>>
    BY DEF IInv, Crash, history
<1>2. Types'
    BY <1>1 DEF Types
<1>3. SizeInv' /\ CallInv'
    BY <1>1 DEF SizeInv, CallInv, Types
<1>4. RecordInv' /\ SingleUse'
    BY <1>1 DEF RecordInv, SingleUse
<1> QED
    BY <1>2, <1>3, <1>4 DEF IInv

\* An approval is issued once, and nothing was done with it before.
LEMMA IssueStep ==
    ASSUME IInv, NEW g \in Grants, Issue(g)
    PROVE  IInv'
PROOF
<1>1. /\ Types /\ SizeInv /\ CallInv /\ RecordInv /\ SingleUse
      /\ issuedAt[g] = None /\ issuedAt' = [issuedAt EXCEPT ![g] = now]
      /\ UNCHANGED <<now, ttl, spentAt, serving, retention, call, firstUse, uses>>
    BY DEF IInv, Issue, history
<1>2. Types' /\ SizeInv'
    BY <1>1 DEF Types, Times, SizeInv
<1>3. CallInv'
  <2> SUFFICES ASSUME NEW s \in Replicas, call[s] # NoCall
               PROVE  issuedAt'[call[s].grant] # None
                      /\ issuedAt'[call[s].grant] = issuedAt[call[s].grant]
      BY <1>1 DEF CallInv
  <2>1. call[s].grant \in Grants /\ issuedAt[call[s].grant] # None
      BY <1>1 DEF CallInv, Types
  <2> QED
      BY <1>1, <2>1 DEF Types
<1>4. RecordInv' /\ SingleUse'
  <2>1. ASSUME NEW h \in Grants, uses[h] > 0
        PROVE  issuedAt'[h] = issuedAt[h] /\ issuedAt[h] # None
      BY <1>1, <2>1 DEF RecordInv, Types
  <2>2. \A h \in Grants : uses[h] \in Nat
      BY <1>1 DEF Types
  <2>3. RecordInv'
      BY <1>1, <2>1 DEF RecordInv
  <2>4. SingleUse'
      BY <1>1, <2>1, <2>2 DEF SingleUse
  <2> QED
      BY <2>3, <2>4
<1> QED
    BY <1>2, <1>3, <1>4 DEF IInv

\* A call is checked: its approval is younger than the TTL.
LEMMA CheckStep ==
    ASSUME IInv, NEW r \in Replicas, NEW g \in Grants, Check(r, g)
    PROVE  IInv'
PROOF
<1> DEFINE o == [grant |-> g, since |-> now]
<1>1. /\ Types /\ SizeInv /\ CallInv /\ RecordInv /\ SingleUse
      /\ serving[r] # None /\ issuedAt[g] # None
      /\ LongestAge[serving[r]] > 0 /\ Fresh(g, serving[r])
      /\ call' = [call EXCEPT ![r] = o]
      /\ UNCHANGED <<now, ttl, spentAt, serving, retention, issuedAt, firstUse, uses>>
    BY DEF IInv, Check, history
<1>2. o \in [grant : Grants, since : Nat] /\ o.grant = g /\ o.since = now
    BY <1>1 DEF Types
<1>3. now < issuedAt[g] + ttl
  <2>1. serving[r] \in Catalogues /\ issuedAt[g] \in Nat /\ now \in Nat /\ ttl \in Nat
      BY <1>1 DEF Types, Times
  <2>2. Covers(serving[r]) = LongestAge[serving[r]] + Skew /\ Covers(serving[r]) <= ttl
      BY <1>1, <2>1, Sizes DEF SizeInv
  <2> QED
      BY <1>1, <2>1, <2>2 DEF Fresh
<1> HIDE DEF o
<1>4. Types'
    BY <1>1, <1>2 DEF Types
<1>5. SizeInv' /\ RecordInv' /\ SingleUse'
    BY <1>1 DEF SizeInv, RecordInv, SingleUse
<1>6. CallInv'
  <2> SUFFICES ASSUME NEW s \in Replicas, call'[s] # NoCall
               PROVE  /\ serving[s] # None /\ issuedAt[call'[s].grant] # None
                      /\ call'[s].since <= now /\ now <= call'[s].since + SpendLatency
                      /\ call'[s].since < issuedAt[call'[s].grant] + ttl
      BY <1>1 DEF CallInv
  <2>1. CASE s = r
      BY <1>1, <1>2, <1>3, <2>1 DEF Types
  <2>2. CASE s # r
      BY <1>1, <2>2 DEF CallInv, Types
  <2> QED
      BY <2>1, <2>2
<1> QED
    BY <1>4, <1>5, <1>6 DEF IInv

\* A call ends: nothing else is disturbed.
LEMMA CallEnds ==
    ASSUME IInv, NEW r \in Replicas, call' = [call EXCEPT ![r] = NoCall],
           UNCHANGED <<now, ttl, serving, retention, issuedAt>>
    PROVE  /\ call' \in [Replicas -> [grant : Grants, since : Nat] \cup {NoCall}]
           /\ SizeInv' /\ CallInv'
PROOF
<1>1. Types /\ SizeInv /\ CallInv
    BY DEF IInv
<1>2. call' \in [Replicas -> [grant : Grants, since : Nat] \cup {NoCall}]
    BY <1>1 DEF Types
<1>3. SizeInv' /\ CallInv'
    BY <1>1 DEF SizeInv, CallInv, Types
<1> QED
    BY <1>2, <1>3

\* A record made where there was none is later than every first use under its key.
LEMMA RecordMade ==
    ASSUME IInv, NEW k \in Keys, spentAt[k] = None, spentAt' = [spentAt EXCEPT ![k] = now],
           NEW h \in Grants, uses[h] > 0
    PROVE  /\ spentAt' \in [Keys -> Times]
           /\ spentAt'[key(h)] = None => firstUse[h] + ttl <= now
           /\ spentAt'[key(h)] # None => firstUse[h] <= spentAt'[key(h)]
PROOF
<1>1. Types /\ RecordInv /\ now \in Nat /\ now # None /\ key(h) \in Keys
    BY DEF IInv, Types, Keys
<1>2. /\ firstUse[h] <= now
      /\ spentAt[key(h)] = None => firstUse[h] + ttl <= now
      /\ spentAt[key(h)] # None => firstUse[h] <= spentAt[key(h)]
    BY <1>1 DEF RecordInv
<1>3. spentAt' \in [Keys -> Times]
    BY <1>1 DEF Types, Times
<1>4. CASE key(h) = k
    BY <1>1, <1>2, <1>3, <1>4 DEF Types
<1>5. CASE key(h) # k
    BY <1>1, <1>2, <1>3, <1>5 DEF Types
<1> QED
    BY <1>4, <1>5

\* Create makes the record: if the approval was used before, its record has
\* expired, and the call at hand was checked while the approval was fresh.
LEMMA SpendStep ==
    ASSUME IInv, NEW r \in Replicas, Spend(r)
    PROVE  IInv'
PROOF
<1> DEFINE g == call[r].grant
<1>1. /\ Types /\ SizeInv /\ CallInv /\ RecordInv /\ SingleUse
      /\ call[r] # NoCall /\ spentAt[key(g)] = None
      /\ spentAt' = [spentAt EXCEPT ![key(g)] = now]
      /\ firstUse' = [firstUse EXCEPT ![g] = IF firstUse[g] = None THEN now ELSE firstUse[g]]
      /\ uses' = [uses EXCEPT ![g] = uses[g] + 1]
      /\ call' = [call EXCEPT ![r] = NoCall]
      /\ UNCHANGED <<now, ttl, serving, retention, issuedAt>>
    BY DEF IInv, Spend, Authorise
<1>2. /\ g \in Grants /\ key(g) \in Keys /\ call[r].since \in Nat
      /\ now \in Nat /\ now # None /\ ttl \in Nat
    BY <1>1 DEF Types, Keys
<1>3. /\ serving[r] # None /\ issuedAt[g] # None
      /\ now <= call[r].since + SpendLatency
      /\ call[r].since < issuedAt[g] + ttl
    BY <1>1 DEF CallInv
<1>4. issuedAt[g] \in Nat /\ ttl # 0 /\ uses[g] \in Nat /\ firstUse[g] \in Times
    BY <1>1, <1>2, <1>3 DEF SizeInv, Types, Times
<1> HIDE DEF g
<1>5. uses[g] > 0 => /\ firstUse[g] \in Nat /\ firstUse[g] <= now
                     /\ firstUse[g] < issuedAt[g] + SpendLatency
  <2> SUFFICES ASSUME uses[g] > 0
               PROVE  /\ firstUse[g] \in Nat /\ firstUse[g] <= now
                      /\ firstUse[g] < issuedAt[g] + SpendLatency
      OBVIOUS
  <2>1. firstUse[g] # None /\ firstUse[g] + ttl <= now /\ firstUse[g] <= now
      BY <1>1, <1>2, <1>4 DEF RecordInv
  <2>2. firstUse[g] \in Nat
      BY <1>4, <2>1 DEF Times
  <2> QED
      BY <1>2, <1>3, <1>4, <2>1, <2>2
<1>6. SizeInv' /\ CallInv' /\ call' \in [Replicas -> [grant : Grants, since : Nat] \cup {NoCall}]
    BY <1>1, CallEnds
<1>7. Types'
  <2>1. spentAt' \in [Keys -> Times]
      BY <1>1, <1>2 DEF Types, Times
  <2>2. uses' \in [Grants -> Nat]
      BY <1>1, <1>2, <1>4 DEF Types
  <2>3. firstUse' \in [Grants -> Times]
      BY <1>1, <1>2, <1>4 DEF Types, Times
  <2> QED
      BY <1>1, <1>6, <2>1, <2>2, <2>3 DEF Types
<1>8. RecordInv'
  <2> SUFFICES ASSUME NEW h \in Grants
               PROVE  /\ uses'[h] = 0 <=> firstUse'[h] = None
                      /\ uses'[h] > 0 =>
                            /\ ttl # 0 /\ issuedAt[h] # None
                            /\ firstUse'[h] <= now
                            /\ spentAt'[key(h)] = None => firstUse'[h] + ttl <= now
                            /\ spentAt'[key(h)] # None => firstUse'[h] <= spentAt'[key(h)]
      BY <1>1 DEF RecordInv
  <2>1. CASE h = g
    <3>1. spentAt'[key(g)] = now /\ uses'[g] = uses[g] + 1
        BY <1>1, <1>2 DEF Types
    <3>2. firstUse'[g] = IF firstUse[g] = None THEN now ELSE firstUse[g]
        BY <1>1, <1>2 DEF Types
    <3>3. uses[g] = 0 <=> firstUse[g] = None
        BY <1>1, <1>2 DEF RecordInv
    <3>4. firstUse'[g] # None /\ firstUse'[g] <= now
        BY <1>2, <1>4, <1>5, <3>2, <3>3
    <3> QED
        BY <1>2, <1>3, <1>4, <2>1, <3>1, <3>4
  <2>2. CASE h # g
    <3>1. uses'[h] = uses[h] /\ firstUse'[h] = firstUse[h]
        BY <1>1, <1>2, <2>2 DEF Types
    <3>2. uses[h] > 0 => /\ spentAt'[key(h)] = None => firstUse[h] + ttl <= now
                         /\ spentAt'[key(h)] # None => firstUse[h] <= spentAt'[key(h)]
        BY <1>1, <1>2, RecordMade
    <3> QED
        BY <1>1, <3>1, <3>2 DEF RecordInv
  <2> QED
      BY <2>1, <2>2
<1>9. SingleUse'
  <2> SUFFICES ASSUME NEW h \in Grants, uses'[h] > 1
               PROVE  firstUse'[h] < issuedAt[h] + SpendLatency
      BY <1>1 DEF SingleUse
  <2>1. CASE h = g
    <3>1. uses[g] > 0
        BY <1>1, <1>2, <1>4, <2>1 DEF Types
    <3>2. firstUse'[g] = firstUse[g]
        BY <1>1, <1>2, <1>5, <3>1 DEF Types
    <3> QED
        BY <1>5, <2>1, <3>1, <3>2
  <2>2. CASE h # g
      BY <1>1, <1>2, <2>2 DEF SingleUse, Types
  <2> QED
      BY <2>1, <2>2
<1> QED
    BY <1>6, <1>7, <1>8, <1>9 DEF IInv

\* A refused replay changes nothing but the call.
LEMMA AlreadySpentStep ==
    ASSUME IInv, NEW r \in Replicas, AlreadySpent(r)
    PROVE  IInv'
PROOF
<1>1. /\ Types /\ RecordInv /\ SingleUse
      /\ call' = [call EXCEPT ![r] = NoCall]
      /\ UNCHANGED <<now, ttl, spentAt, serving, retention, issuedAt, firstUse, uses>>
    BY DEF IInv, AlreadySpent, history
<1>2. SizeInv' /\ CallInv' /\ call' \in [Replicas -> [grant : Grants, since : Nat] \cup {NoCall}]
    BY <1>1, CallEnds
<1>3. Types' /\ RecordInv' /\ SingleUse'
    BY <1>1, <1>2 DEF Types, RecordInv, SingleUse
<1> QED
    BY <1>2, <1>3 DEF IInv

\* An answer lost, the record made or not: no call was authorised.
LEMMA SpendUnknownStep ==
    ASSUME IInv, NEW r \in Replicas, SpendUnknown(r)
    PROVE  IInv'
PROOF
<1> DEFINE g == call[r].grant
<1>1. /\ Types /\ RecordInv /\ SingleUse /\ call[r] # NoCall
      /\ call' = [call EXCEPT ![r] = NoCall]
      /\ UNCHANGED <<now, ttl, serving, retention, issuedAt, firstUse, uses>>
    BY DEF IInv, SpendUnknown
<1>2. g \in Grants /\ key(g) \in Keys /\ now \in Nat
    BY <1>1 DEF Types, Keys
<1>3. SizeInv' /\ CallInv' /\ call' \in [Replicas -> [grant : Grants, since : Nat] \cup {NoCall}]
    BY <1>1, CallEnds
<1>4. CASE UNCHANGED spentAt
    BY <1>1, <1>3, <1>4 DEF IInv, Types, RecordInv, SingleUse
<1>5. CASE spentAt[key(g)] = None /\ spentAt' = [spentAt EXCEPT ![key(g)] = now]
  <2> HIDE DEF g
  <2>1. spentAt' \in [Keys -> Times]
      BY <1>1, <1>2, <1>5 DEF Types, Times
  <2>2. ASSUME NEW h \in Grants, uses[h] > 0
        PROVE  /\ spentAt'[key(h)] = None => firstUse[h] + ttl <= now
               /\ spentAt'[key(h)] # None => firstUse[h] <= spentAt'[key(h)]
      BY <1>2, <1>5, <2>2, RecordMade
  <2>3. RecordInv'
      BY <1>1, <2>2 DEF RecordInv
  <2>4. Types' /\ SingleUse'
      BY <1>1, <1>3, <2>1 DEF Types, SingleUse
  <2> QED
      BY <1>3, <2>3, <2>4 DEF IInv
<1> QED
    BY <1>4, <1>5 DEF SpendUnknown

--------------------------------------------------------------------------------
\* Replicas that ask for one TTL keep every approval's record as long as the
\* approval can be presented, whatever reloads, crashes and lost answers do.
THEOREM GrantInvariant == ASSUME SameSize PROVE Spec => []IInv
PROOF
<1>1. ASSUME IInv, [Next]_vars PROVE IInv'
  <2>1. CASE UNCHANGED vars
      BY <1>1, <2>1 DEF IInv, Types, SizeInv, CallInv, RecordInv, SingleUse, vars, history
  <2>2. CASE Next
      BY <1>1, <2>2, TickStep, IssueStep, BootStep, ReloadStep, CheckStep, CrashStep,
         SpendStep, AlreadySpentStep, SpendUnknownStep DEF Next
  <2> QED
      BY <1>1, <2>1, <2>2
<1> QED
    BY <1>1, InitHolds, PTL DEF Spec

\* The bucket outlasts every approval a running replica still accepts
\* (grantVerifier sizes it, reloadGuard admits against it).
THEOREM BucketOutlastsApprovals == ASSUME SameSize PROVE Spec => []BucketCovers
PROOF
<1>1. IInv => BucketCovers
    BY Sizes DEF IInv, SizeInv, BucketCovers, Types
<1> QED
    BY <1>1, GrantInvariant, PTL

\* One approval, one call, outside the tail of the spend's latency.
THEOREM ApprovalsUsedOnce == ASSUME SameSize PROVE Spec => []SingleUse
PROOF
<1>1. IInv => SingleUse
    BY DEF IInv
<1> QED
    BY <1>1, GrantInvariant, PTL

--------------------------------------------------------------------------------
(* Replays.                                                                 *)

\* Every record was asked for under an approval with its key.
Asked ==
    /\ now \in Nat
    /\ spentAt \in [Keys -> Times]
    /\ call \in [Replicas -> [grant : Grants, since : Nat] \cup {NoCall}]
    /\ created \subseteq Grants
    /\ \A k \in Keys : spentAt[k] # None => \E g \in created : key(g) = k

\* A record is made by a call, under its approval's key.
LEMMA AskedStep == Asked /\ [Next]_vars => Asked'
PROOF
<1> SUFFICES ASSUME Asked, [Next]_vars PROVE Asked'
    OBVIOUS
<1>1. CASE UNCHANGED vars
    BY <1>1 DEF Asked, vars, history
<1>2. ASSUME NEW t \in Nat, NEW life, spentAt' = Kept(t, life)
      PROVE  /\ spentAt' \in [Keys -> Times]
             /\ \A k \in Keys : spentAt'[k] # None => spentAt[k] # None
  <2>1. spentAt' \in [Keys -> Times]
      BY <1>2 DEF Asked, Kept, Times
  <2>2. \A k \in Keys : spentAt'[k] # None => spentAt[k] # None
      BY <1>2 DEF Kept
  <2> QED
      BY <2>1, <2>2
<1>3. CASE Tick
  <2>1. /\ now + 1 \in Nat /\ now' = now + 1 /\ UNCHANGED <<call, created>>
        /\ spentAt' = Kept(now + 1, ttl)
      BY <1>3 DEF Tick, history, Asked
  <2> QED
      BY <1>2, <2>1 DEF Asked
<1>4. ASSUME NEW g \in Grants, Issue(g) PROVE Asked'
    BY <1>4 DEF Issue, history, Asked
<1>5. ASSUME NEW r \in Replicas,
             \/ \E c \in BootCatalogues : Boot(r, c)
             \/ \E c \in Catalogues : Reload(r, c)
             \/ \E g \in Grants : Check(r, g)
             \/ Crash(r) \/ AlreadySpent(r)
      PROVE  Asked'
  <2>1. ASSUME NEW c \in BootCatalogues, Boot(r, c) PROVE Asked'
    <3>1. now \in Nat /\ UNCHANGED <<now, call, created>> /\ spentAt' = Kept(now, SizeFor(c))
        BY <2>1 DEF Boot, history, Asked
    <3> QED
        BY <1>2, <3>1 DEF Asked
  <2>2. ASSUME NEW c \in Catalogues, Reload(r, c) PROVE Asked'
      BY <2>2 DEF Reload, history, Asked
  <2>3. ASSUME NEW g \in Grants, Check(r, g) PROVE Asked'
    <3> DEFINE o == [grant |-> g, since |-> now]
    <3>1. /\ UNCHANGED <<now, spentAt, created>> /\ call' = [call EXCEPT ![r] = o]
          /\ o \in [grant : Grants, since : Nat]
        BY <2>3 DEF Check, history, Asked
    <3> HIDE DEF o
    <3> QED
        BY <3>1 DEF Asked
  <2>4. ASSUME Crash(r) \/ AlreadySpent(r) PROVE Asked'
    <3>1. UNCHANGED <<now, spentAt, created>> /\ call' = [call EXCEPT ![r] = NoCall]
        BY <2>4 DEF Crash, AlreadySpent, history
    <3> QED
        BY <3>1 DEF Asked
  <2> QED
      BY <1>5, <2>1, <2>2, <2>3, <2>4
<1>6. ASSUME NEW r \in Replicas, Spend(r) \/ SpendUnknown(r) PROVE Asked'
  <2>1. PICK g : g = call[r].grant
      OBVIOUS
  <2>2. /\ call[r] # NoCall
        /\ spentAt' = spentAt \/ spentAt' = [spentAt EXCEPT ![key(g)] = now]
        /\ created' = created \cup {g}
        /\ call' = [call EXCEPT ![r] = NoCall] /\ UNCHANGED now
      BY <1>6, <2>1 DEF Spend, SpendUnknown, Authorise
  <2>3. g \in Grants /\ key(g) \in Keys
      BY <2>1, <2>2 DEF Asked, Keys
  <2>4. spentAt' \in [Keys -> Times]
    <3>1. CASE spentAt' = spentAt
        BY <3>1 DEF Asked
    <3>2. CASE spentAt' = [spentAt EXCEPT ![key(g)] = now]
        BY <2>3, <3>2 DEF Asked, Times
    <3> QED
        BY <2>2, <3>1, <3>2
  <2>5. ASSUME NEW k \in Keys, spentAt'[k] # None
        PROVE  \E h \in created' : key(h) = k
    <3>1. CASE k = key(g)
        BY <2>2, <3>1
    <3>2. CASE k # key(g)
      <4>1. spentAt'[k] = spentAt[k]
          BY <2>2, <3>2 DEF Asked
      <4> QED
          BY <2>2, <2>5, <4>1 DEF Asked
    <3> QED
        BY <3>1, <3>2
  <2>6. call' \in [Replicas -> [grant : Grants, since : Nat] \cup {NoCall}]
      BY <2>2 DEF Asked
  <2> QED
      BY <2>2, <2>3, <2>4, <2>5, <2>6 DEF Asked
<1>7. CASE Next
  <2>1. CASE \E r \in Replicas :
               \/ \E c \in BootCatalogues : Boot(r, c)
               \/ \E c \in Catalogues : Reload(r, c)
               \/ \E g \in Grants : Check(r, g)
               \/ Crash(r) \/ Spend(r) \/ AlreadySpent(r) \/ SpendUnknown(r)
      BY <2>1, <1>5, <1>6
  <2> QED
      BY <1>3, <1>4, <1>7, <2>1 DEF Next
<1> QED
    BY <1>1, <1>7

\* With ids that have no dot, a call is refused as a replay only of its own
\* approval, whatever the boots, and whatever else the ids are made of.
THEOREM OnlyReplaysAreRefused ==
    ASSUME Alphabet, Grants \subseteq Seq(Letters)
    PROVE  Spec => []ReplaysAreReplays
PROOF
<1>1. Init => Asked
    BY DEF Init, Asked, Times
<1>2. Asked => ReplaysAreReplays
  <2> SUFFICES ASSUME Asked, NEW g \in Grants, spentAt[key(g)] # None PROVE g \in created
      BY DEF ReplaysAreReplays
  <2>1. PICK h \in created : key(h) = key(g)
      BY DEF Asked, Keys
  <2>2. h \in Seq(Letters) /\ g \in Seq(Letters)
      BY DEF Asked
  <2>3. h = g
      BY <2>1, <2>2, KeysTellApart
  <2> QED
      BY <2>3
<1> QED
    BY <1>1, <1>2, AskedStep, PTL DEF Spec

--------------------------------------------------------------------------------
(* Replicas that ask for different TTLs.                                    *)

\* The shortest TTL a boot asks for is M, or longer; the longest X, or shorter.
AskedFor(M, X) == \A c \in BootCatalogues : M <= SizeFor(c) /\ SizeFor(c) <= X

\* A running replica was sized within those, whatever it reloaded since.
SizedInv(M, X) ==
    \A r \in Replicas : serving[r] # None =>
        /\ M <= ttl
        /\ retention[r] # 0 /\ retention[r] <= X
        /\ Covers(serving[r]) <= X

\* A call in flight was checked a moment ago, and its approval was no older than
\* the longest TTL then.
WindowInv(X) ==
    \A r \in Replicas : call[r] # NoCall =>
        /\ serving[r] # None
        /\ issuedAt[call[r].grant] # None
        /\ issuedAt[call[r].grant] <= call[r].since
        /\ call[r].since <= now /\ now <= call[r].since + SpendLatency
        /\ call[r].since < issuedAt[call[r].grant] + X

\* When the uses of an approval so far, M apart, may be followed by another.
NextUse(M, g) == firstUse[g] + M * uses[g]

\* The uses of an approval are M apart: the record of the last one stands until
\* the next may come; and the last came in time.
SpacedUses(M, X) ==
    \A g \in Grants :
        /\ issuedAt[g] # None => issuedAt[g] <= now
        /\ uses[g] = 0 <=> firstUse[g] = None
        /\ uses[g] > 0 =>
              /\ M <= ttl
              /\ issuedAt[g] # None /\ issuedAt[g] <= firstUse[g]
              /\ spentAt[key(g)] = None => NextUse(M, g) <= now
              /\ spentAt[key(g)] # None => NextUse(M, g) <= spentAt[key(g)] + M
              /\ NextUse(M, g) < issuedAt[g] + X + SpendLatency + M

\* The invariant of the bucket under any boots.
SpacedInv(M, X) == Types /\ SizedInv(M, X) /\ WindowInv(X) /\ SpacedUses(M, X)

\* When the next use may come is a time.
LEMMA NextUseType ==
    ASSUME Types, NEW M \in Nat, NEW g \in Grants, firstUse[g] # None
    PROVE  NextUse(M, g) \in Nat
PROOF
<1>1. firstUse[g] \in Nat /\ uses[g] \in Nat
    BY DEF Types, Times
<1>2. M * uses[g] \in Nat
    BY <1>1
<1> QED
    BY <1>1, <1>2 DEF NextUse

\* A use moves it on by M.
LEMMA NextUseMoves ==
    ASSUME Types, NEW M \in Nat, NEW g \in Grants, now # None,
           firstUse' = [firstUse EXCEPT ![g] = IF firstUse[g] = None THEN now ELSE firstUse[g]],
           uses' = [uses EXCEPT ![g] = uses[g] + 1],
           uses[g] = 0 <=> firstUse[g] = None
    PROVE  /\ firstUse' \in [Grants -> Times] /\ uses' \in [Grants -> Nat]
           /\ uses[g] = 0 => firstUse'[g] = now /\ NextUse(M, g)' = now + M
           /\ uses[g] > 0 => firstUse'[g] = firstUse[g] /\ NextUse(M, g)' = NextUse(M, g) + M
           /\ uses'[g] > 0 /\ firstUse'[g] # None
           /\ \A h \in Grants \ {g} : /\ NextUse(M, h)' = NextUse(M, h)
                                      /\ uses'[h] = uses[h] /\ firstUse'[h] = firstUse[h]
PROOF
<1>1. uses[g] \in Nat /\ firstUse[g] \in Times /\ now \in Nat
    BY DEF Types
<1>2. /\ uses'[g] = uses[g] + 1
      /\ firstUse'[g] = IF firstUse[g] = None THEN now ELSE firstUse[g]
      /\ \A h \in Grants \ {g} : uses'[h] = uses[h] /\ firstUse'[h] = firstUse[h]
    BY DEF Types
<1>3. firstUse' \in [Grants -> Times] /\ uses' \in [Grants -> Nat]
    BY <1>1 DEF Types, Times
<1>4. ASSUME uses[g] = 0 PROVE firstUse'[g] = now /\ NextUse(M, g)' = now + M
  <2>1. firstUse'[g] = now /\ uses'[g] = 1 /\ M * 1 = M
      BY <1>2, <1>4
  <2> QED
      BY <2>1 DEF NextUse
<1>5. ASSUME uses[g] > 0
      PROVE  firstUse'[g] = firstUse[g] /\ NextUse(M, g)' = NextUse(M, g) + M
  <2>1. firstUse'[g] = firstUse[g] /\ firstUse[g] \in Nat
      BY <1>1, <1>2, <1>5 DEF Times
  <2>2. M * (uses[g] + 1) = M * uses[g] + M /\ M * uses[g] \in Nat
      BY <1>1
  <2> QED
      BY <1>2, <2>1, <2>2 DEF NextUse
<1>6. \A h \in Grants \ {g} : NextUse(M, h)' = NextUse(M, h)
    BY <1>2 DEF NextUse
<1>7. uses'[g] > 0 /\ firstUse'[g] # None
    BY <1>1, <1>2
<1> QED
    BY <1>2, <1>3, <1>4, <1>5, <1>6, <1>7

\* Nothing is served or used at first.
LEMMA InitSpaced ==
    ASSUME NEW M \in Nat, NEW X \in Nat, Init
    PROVE  SpacedInv(M, X)
PROOF
<1>1. Types
    BY DEF Init, Types, Times
<1>2. SizedInv(M, X) /\ WindowInv(X) /\ SpacedUses(M, X)
    BY DEF Init, SizedInv, WindowInv, SpacedUses
<1> QED
    BY <1>1, <1>2 DEF SpacedInv

\* A bucket that keeps its records for M or longer keeps the uses apart.
LEMMA KeptSpaced ==
    ASSUME NEW M \in Nat, NEW X \in Nat, SpacedInv(M, X),
           NEW t \in Nat, now <= t, NEW life \in Nat,
           (\E g \in Grants : uses[g] > 0) => M <= life,
           now' = t, ttl' = life, spentAt' = Kept(t, life),
           UNCHANGED <<issuedAt, firstUse, uses>>
    PROVE  SpacedUses(M, X)' /\ spentAt' \in [Keys -> Times]
PROOF
<1>1. Types /\ SpacedUses(M, X) /\ now \in Nat /\ t # None
    BY DEF SpacedInv, Types
<1>2. spentAt' \in [Keys -> Times]
    BY <1>1 DEF Kept, Types, Times
<1>3. ASSUME NEW g \in Grants
      PROVE  /\ issuedAt[g] # None => issuedAt[g] <= t
             /\ uses[g] = 0 <=> firstUse[g] = None
  <2>1. issuedAt[g] # None => issuedAt[g] \in Nat /\ issuedAt[g] <= now
      BY <1>1 DEF SpacedUses, Types, Times
  <2> QED
      BY <1>1, <2>1 DEF SpacedUses
<1>4. ASSUME NEW g \in Grants, uses[g] > 0
      PROVE  /\ M <= life
             /\ issuedAt[g] # None /\ issuedAt[g] <= firstUse[g]
             /\ spentAt'[key(g)] = None => NextUse(M, g) <= t
             /\ spentAt'[key(g)] # None => NextUse(M, g) <= spentAt'[key(g)] + M
             /\ NextUse(M, g) < issuedAt[g] + X + SpendLatency + M
  <2>1. /\ issuedAt[g] # None /\ issuedAt[g] <= firstUse[g]
        /\ spentAt[key(g)] = None => NextUse(M, g) <= now
        /\ spentAt[key(g)] # None => NextUse(M, g) <= spentAt[key(g)] + M
        /\ NextUse(M, g) < issuedAt[g] + X + SpendLatency + M
        /\ firstUse[g] # None
      BY <1>1, <1>4 DEF SpacedUses
  <2>2. key(g) \in Keys /\ spentAt[key(g)] \in Times /\ NextUse(M, g) \in Nat
      BY <1>1, <2>1, NextUseType DEF Keys, Types
  <2>3. /\ spentAt'[key(g)] = spentAt[key(g)] \/ spentAt'[key(g)] = None
        /\ spentAt[key(g)] # None /\ spentAt'[key(g)] = None => spentAt[key(g)] + life <= t
      BY <1>1, <2>2, KeptRecords
  <2>4. M <= life
      BY <1>4
  <2>5. spentAt'[key(g)] = None => NextUse(M, g) <= t
    <3>1. CASE spentAt[key(g)] = None
        BY <1>1, <2>1, <2>2, <3>1
    <3>2. CASE spentAt[key(g)] # None
        BY <1>1, <2>1, <2>2, <2>3, <2>4, <3>2 DEF Times
    <3> QED
        BY <3>1, <3>2
  <2> QED
      BY <2>1, <2>3, <2>4, <2>5
<1>5. \A g \in Grants : NextUse(M, g)' = NextUse(M, g)
    BY DEF NextUse
<1> QED
    BY <1>2, <1>3, <1>4, <1>5 DEF SpacedUses

\* Time passes.
LEMMA TickSpaced ==
    ASSUME NEW M \in Nat, NEW X \in Nat, SpacedInv(M, X), Tick
    PROVE  SpacedInv(M, X)'
PROOF
<1>1. /\ Types /\ SizedInv(M, X) /\ WindowInv(X) /\ SpacedUses(M, X)
      /\ now \in Nat /\ ttl \in Nat
      /\ now' = now + 1 /\ spentAt' = Kept(now + 1, ttl)
      /\ UNCHANGED <<ttl, serving, retention, call, issuedAt, firstUse, uses>>
    BY DEF SpacedInv, Tick, history, Types
<1>2. \A g \in Grants : uses[g] > 0 => M <= ttl
    BY <1>1 DEF SpacedUses
<1>3. SpacedUses(M, X)' /\ spentAt' \in [Keys -> Times]
  <2>1. now + 1 \in Nat /\ now <= now + 1 /\ ttl' = ttl
      BY <1>1
  <2> QED
      BY <1>1, <1>2, <2>1, KeptSpaced
<1>4. Types'
    BY <1>1, <1>3 DEF Types
<1>5. SizedInv(M, X)'
    BY <1>1 DEF SizedInv
<1>6. WindowInv(X)'
  <2> SUFFICES ASSUME NEW r \in Replicas, call[r] # NoCall
               PROVE  /\ call[r].since <= now + 1
                      /\ now + 1 <= call[r].since + SpendLatency
      BY <1>1 DEF WindowInv
  <2>1. call[r].since \in Nat /\ call[r].since <= now
      BY <1>1 DEF Types, WindowInv
  <2>2. now - call[r].since < SpendLatency
      BY DEF Tick
  <2> QED
      BY <1>1, <2>1, <2>2
<1> QED
    BY <1>3, <1>4, <1>5, <1>6 DEF SpacedInv

\* A replica joins and gives the bucket the TTL it asks for, shorter perhaps
\* than the one it had, but no shorter than M.
LEMMA BootSpaced ==
    ASSUME NEW M \in Nat, NEW X \in Nat, AskedFor(M, X), SpacedInv(M, X),
           NEW r \in Replicas, NEW c \in BootCatalogues, Boot(r, c)
    PROVE  SpacedInv(M, X)'
PROOF
<1>1. /\ Types /\ SizedInv(M, X) /\ WindowInv(X) /\ SpacedUses(M, X)
      /\ serving[r] = None /\ now \in Nat
      /\ ttl' = SizeFor(c) /\ spentAt' = Kept(now, SizeFor(c))
      /\ retention' = [retention EXCEPT ![r] = SizeFor(c)]
      /\ serving' = [serving EXCEPT ![r] = c]
      /\ UNCHANGED <<now, call, issuedAt, firstUse, uses>>
    BY DEF SpacedInv, Boot, history, Types
<1>2. /\ c \in Catalogues /\ SizeFor(c) \in Nat \ {0} /\ Covers(c) \in Nat
      /\ Covers(c) <= SizeFor(c) /\ M <= SizeFor(c) /\ SizeFor(c) <= X
    BY Sizes DEF AskedFor
<1>3. SpacedUses(M, X)' /\ spentAt' \in [Keys -> Times]
  <2>1. SizeFor(c) \in Nat /\ now <= now /\ now' = now
      BY <1>1, <1>2
  <2> QED
      BY <1>1, <1>2, <2>1, KeptSpaced
<1>4. Types'
    BY <1>1, <1>2, <1>3 DEF Types
<1>5. SizedInv(M, X)'
  <2> SUFFICES ASSUME NEW s \in Replicas, serving'[s] # None
               PROVE  /\ M <= SizeFor(c)
                      /\ retention'[s] # 0 /\ retention'[s] <= X
                      /\ Covers(serving'[s]) <= X
      BY <1>1 DEF SizedInv
  <2>1. CASE s = r
      BY <1>1, <1>2, <2>1 DEF Types
  <2>2. CASE s # r
    <3>1. serving'[s] = serving[s] /\ retention'[s] = retention[s]
        BY <1>1, <2>2 DEF Types
    <3> QED
        BY <1>1, <1>2, <3>1 DEF SizedInv
  <2> QED
      BY <2>1, <2>2
<1>6. WindowInv(X)'
  <2> SUFFICES ASSUME NEW s \in Replicas, call[s] # NoCall PROVE serving'[s] # None
      BY <1>1 DEF WindowInv
  <2>1. serving[s] # None /\ c # None
      BY <1>1, <1>2 DEF WindowInv
  <2> QED
      BY <1>1, <2>1 DEF Types
<1> QED
    BY <1>3, <1>4, <1>5, <1>6 DEF SpacedInv

\* A reload is admitted against the retention read at boot, whatever has become
\* of the bucket's TTL.
LEMMA ReloadSpaced ==
    ASSUME NEW M \in Nat, NEW X \in Nat, SpacedInv(M, X),
           NEW r \in Replicas, NEW c \in Catalogues, Reload(r, c)
    PROVE  SpacedInv(M, X)'
PROOF
<1>1. /\ Types /\ SizedInv(M, X) /\ WindowInv(X) /\ SpacedUses(M, X)
      /\ serving[r] # None /\ Admit(r, c)
      /\ serving' = [serving EXCEPT ![r] = c]
      /\ UNCHANGED <<now, ttl, spentAt, retention, call, issuedAt, firstUse, uses>>
    BY DEF SpacedInv, Reload, history
<1>2. c # None /\ LongestAge[c] \in Nat /\ Covers(c) \in Nat
      /\ retention[r] \in Nat /\ retention[r] # 0 /\ retention[r] <= X
    BY <1>1, Sizes DEF Types, SizedInv
<1>3. Covers(c) <= X
    BY <1>1, <1>2, Sizes DEF Admit, CheckRetention
<1>4. Types'
    BY <1>1 DEF Types
<1>5. SizedInv(M, X)'
  <2> SUFFICES ASSUME NEW s \in Replicas, serving'[s] # None
               PROVE  /\ M <= ttl /\ retention[s] # 0 /\ retention[s] <= X
                      /\ Covers(serving'[s]) <= X
      BY <1>1 DEF SizedInv
  <2>1. serving[s] # None
      BY <1>1 DEF Types
  <2> QED
      BY <1>1, <1>3, <2>1 DEF SizedInv, Types
<1>6. WindowInv(X)'
    BY <1>1, <1>2 DEF WindowInv, Types
<1>7. SpacedUses(M, X)'
    BY <1>1 DEF SpacedUses, NextUse
<1> QED
    BY <1>4, <1>5, <1>6, <1>7 DEF SpacedInv

\* A call ends: nothing is disturbed but its window.
LEMMA CallEndsSpaced ==
    ASSUME NEW X \in Nat, NEW M \in Nat, Types, SizedInv(M, X), WindowInv(X),
           NEW r \in Replicas, call' = [call EXCEPT ![r] = NoCall],
           UNCHANGED <<now, ttl, serving, retention, issuedAt>>
    PROVE  /\ call' \in [Replicas -> [grant : Grants, since : Nat] \cup {NoCall}]
           /\ SizedInv(M, X)' /\ WindowInv(X)'
PROOF
<1>1. call' \in [Replicas -> [grant : Grants, since : Nat] \cup {NoCall}]
    BY DEF Types
<1>2. SizedInv(M, X)' /\ WindowInv(X)'
    BY DEF SizedInv, WindowInv, Types
<1> QED
    BY <1>1, <1>2

\* A crash takes the replica's call with it.
LEMMA CrashSpaced ==
    ASSUME NEW M \in Nat, NEW X \in Nat, SpacedInv(M, X), NEW r \in Replicas, Crash(r)
    PROVE  SpacedInv(M, X)'
PROOF
<1>1. /\ Types /\ SizedInv(M, X) /\ WindowInv(X) /\ SpacedUses(M, X)
      /\ serving' = [serving EXCEPT ![r] = None]
      /\ retention' = [retention EXCEPT ![r] = 0]
      /\ call' = [call EXCEPT ![r] = NoCall]
      /\ UNCHANGED <<now, ttl, spentAt, issuedAt, firstUse, uses>>
    BY DEF SpacedInv, Crash, history
<1>2. Types'
    BY <1>1 DEF Types
<1>3. SizedInv(M, X)' /\ WindowInv(X)'
    BY <1>1 DEF SizedInv, WindowInv, Types
<1>4. SpacedUses(M, X)'
    BY <1>1 DEF SpacedUses, NextUse
<1> QED
    BY <1>2, <1>3, <1>4 DEF SpacedInv

\* An approval is issued.
LEMMA IssueSpaced ==
    ASSUME NEW M \in Nat, NEW X \in Nat, SpacedInv(M, X), NEW g \in Grants, Issue(g)
    PROVE  SpacedInv(M, X)'
PROOF
<1>1. /\ Types /\ SizedInv(M, X) /\ WindowInv(X) /\ SpacedUses(M, X)
      /\ issuedAt[g] = None /\ issuedAt' = [issuedAt EXCEPT ![g] = now]
      /\ now \in Nat
      /\ UNCHANGED <<now, ttl, spentAt, serving, retention, call, firstUse, uses>>
    BY DEF SpacedInv, Issue, history, Types
<1>2. Types' /\ SizedInv(M, X)'
    BY <1>1 DEF Types, Times, SizedInv
<1>3. \A h \in Grants : issuedAt'[h] = IF h = g THEN now ELSE issuedAt[h]
    BY <1>1 DEF Types
<1>4. WindowInv(X)'
  <2> SUFFICES ASSUME NEW s \in Replicas, call[s] # NoCall
               PROVE  issuedAt'[call[s].grant] = issuedAt[call[s].grant]
      BY <1>1 DEF WindowInv
  <2>1. call[s].grant \in Grants /\ issuedAt[call[s].grant] # None
      BY <1>1 DEF WindowInv, Types
  <2> QED
      BY <1>1, <1>3, <2>1
<1>5. SpacedUses(M, X)'
  <2>1. ASSUME NEW h \in Grants, uses[h] > 0 PROVE issuedAt'[h] = issuedAt[h]
      BY <1>1, <1>3, <2>1 DEF SpacedUses
  <2>2. \A h \in Grants : NextUse(M, h)' = NextUse(M, h)
      BY <1>1 DEF NextUse
  <2>3. \A h \in Grants : issuedAt'[h] # None => issuedAt'[h] <= now
      BY <1>1, <1>3 DEF SpacedUses
  <2> QED
      BY <1>1, <2>1, <2>2, <2>3 DEF SpacedUses
<1> QED
    BY <1>2, <1>4, <1>5 DEF SpacedInv

\* A call is checked: its approval is younger than any replica accepts.
LEMMA CheckSpaced ==
    ASSUME NEW M \in Nat, NEW X \in Nat, SpacedInv(M, X),
           NEW r \in Replicas, NEW g \in Grants, Check(r, g)
    PROVE  SpacedInv(M, X)'
PROOF
<1> DEFINE o == [grant |-> g, since |-> now]
<1>1. /\ Types /\ SizedInv(M, X) /\ WindowInv(X) /\ SpacedUses(M, X)
      /\ serving[r] # None /\ issuedAt[g] # None
      /\ LongestAge[serving[r]] > 0 /\ Fresh(g, serving[r])
      /\ call' = [call EXCEPT ![r] = o]
      /\ UNCHANGED <<now, ttl, spentAt, serving, retention, issuedAt, firstUse, uses>>
    BY DEF SpacedInv, Check, history
<1>2. o \in [grant : Grants, since : Nat] /\ o.grant = g /\ o.since = now /\ now \in Nat
    BY <1>1 DEF Types
<1>3. /\ issuedAt[g] <= now /\ now < issuedAt[g] + X
  <2>1. serving[r] \in Catalogues /\ issuedAt[g] \in Nat
      BY <1>1 DEF Types, Times
  <2>2. Covers(serving[r]) = LongestAge[serving[r]] + Skew /\ Covers(serving[r]) <= X
      BY <1>1, <2>1, Sizes DEF SizedInv
  <2>3. issuedAt[g] <= now
      BY <1>1 DEF SpacedUses
  <2> QED
      BY <1>1, <1>2, <2>1, <2>2, <2>3 DEF Fresh
<1> HIDE DEF o
<1>4. Types'
    BY <1>1, <1>2 DEF Types
<1>5. SizedInv(M, X)' /\ SpacedUses(M, X)'
    BY <1>1 DEF SizedInv, SpacedUses, NextUse
<1>6. WindowInv(X)'
  <2> SUFFICES ASSUME NEW s \in Replicas, call'[s] # NoCall
               PROVE  /\ serving[s] # None /\ issuedAt[call'[s].grant] # None
                      /\ issuedAt[call'[s].grant] <= call'[s].since
                      /\ call'[s].since <= now /\ now <= call'[s].since + SpendLatency
                      /\ call'[s].since < issuedAt[call'[s].grant] + X
      BY <1>1 DEF WindowInv
  <2>1. CASE s = r
    <3>1. call'[s] = o
        BY <1>1, <2>1 DEF Types
    <3> QED
        BY <1>1, <1>2, <1>3, <2>1, <3>1
  <2>2. CASE s # r
      BY <1>1, <2>2 DEF WindowInv, Types
  <2> QED
      BY <2>1, <2>2
<1> QED
    BY <1>4, <1>5, <1>6 DEF SpacedInv

\* A record made where there was none keeps every approval's uses apart.
LEMMA RecordSpaced ==
    ASSUME NEW M \in Nat, NEW X \in Nat, Types, SpacedUses(M, X),
           NEW k \in Keys, spentAt[k] = None, spentAt' = [spentAt EXCEPT ![k] = now],
           NEW h \in Grants, uses[h] > 0
    PROVE  /\ spentAt' \in [Keys -> Times]
           /\ spentAt'[key(h)] = None => NextUse(M, h) <= now
           /\ spentAt'[key(h)] # None => NextUse(M, h) <= spentAt'[key(h)] + M
PROOF
<1>1. now \in Nat /\ now # None /\ key(h) \in Keys
    BY DEF Types, Keys
<1>2. /\ spentAt[key(h)] = None => NextUse(M, h) <= now
      /\ spentAt[key(h)] # None => NextUse(M, h) <= spentAt[key(h)] + M
      /\ firstUse[h] # None
    BY DEF SpacedUses
<1>3. NextUse(M, h) \in Nat
    BY <1>2, NextUseType
<1>4. spentAt' \in [Keys -> Times]
    BY <1>1 DEF Types, Times
<1>5. CASE key(h) = k
  <2>1. spentAt'[key(h)] = now
      BY <1>1, <1>5 DEF Types
  <2> QED
      BY <1>1, <1>2, <1>3, <1>4, <1>5, <2>1
<1>6. CASE key(h) # k
  <2>1. spentAt'[key(h)] = spentAt[key(h)]
      BY <1>1, <1>6 DEF Types
  <2> QED
      BY <1>2, <1>4, <2>1
<1> QED
    BY <1>5, <1>6

\* Create makes the record: the record of the use before has gone, so that use
\* was M ago, and this one comes in time.
LEMMA SpendSpaced ==
    ASSUME NEW M \in Nat, NEW X \in Nat, SpacedInv(M, X), NEW r \in Replicas, Spend(r)
    PROVE  SpacedInv(M, X)'
PROOF
<1>1. PICK g : g = call[r].grant
    OBVIOUS
<1>2. /\ Types /\ SizedInv(M, X) /\ WindowInv(X) /\ SpacedUses(M, X)
      /\ call[r] # NoCall /\ spentAt[key(g)] = None
      /\ spentAt' = [spentAt EXCEPT ![key(g)] = now]
      /\ firstUse' = [firstUse EXCEPT ![g] = IF firstUse[g] = None THEN now ELSE firstUse[g]]
      /\ uses' = [uses EXCEPT ![g] = uses[g] + 1]
      /\ call' = [call EXCEPT ![r] = NoCall]
      /\ UNCHANGED <<now, ttl, serving, retention, issuedAt>>
    BY <1>1 DEF SpacedInv, Spend, Authorise
<1>3. /\ g \in Grants /\ key(g) \in Keys /\ call[r].since \in Nat
      /\ now \in Nat /\ now # None /\ ttl \in Nat
    BY <1>1, <1>2 DEF Types, Keys
<1>4. /\ M <= ttl /\ issuedAt[g] \in Nat
      /\ issuedAt[g] <= now /\ now < issuedAt[g] + X + SpendLatency
  <2>1. /\ serving[r] # None /\ issuedAt[g] # None
        /\ issuedAt[g] <= call[r].since /\ call[r].since <= now
        /\ now <= call[r].since + SpendLatency
        /\ call[r].since < issuedAt[g] + X
      BY <1>1, <1>2 DEF WindowInv
  <2>2. issuedAt[g] \in Nat
      BY <1>2, <1>3, <2>1 DEF Types, Times
  <2>3. M <= ttl
      BY <1>2, <2>1 DEF SizedInv
  <2> QED
      BY <1>3, <2>1, <2>2, <2>3
<1>5. /\ SizedInv(M, X)' /\ WindowInv(X)'
      /\ call' \in [Replicas -> [grant : Grants, since : Nat] \cup {NoCall}]
    BY <1>2, CallEndsSpaced
<1>6. \A h \in Grants : uses[h] = 0 <=> firstUse[h] = None
    BY <1>2 DEF SpacedUses
<1>7. /\ firstUse' \in [Grants -> Times] /\ uses' \in [Grants -> Nat]
      /\ uses[g] = 0 => firstUse'[g] = now /\ NextUse(M, g)' = now + M
      /\ uses[g] > 0 => firstUse'[g] = firstUse[g] /\ NextUse(M, g)' = NextUse(M, g) + M
      /\ uses'[g] > 0 /\ firstUse'[g] # None
      /\ \A h \in Grants \ {g} : /\ NextUse(M, h)' = NextUse(M, h)
                                 /\ uses'[h] = uses[h] /\ firstUse'[h] = firstUse[h]
  <2>1. Types /\ g \in Grants /\ now # None /\ (uses[g] = 0 <=> firstUse[g] = None)
      BY <1>2, <1>3, <1>6
  <2>2. /\ firstUse' = [firstUse EXCEPT ![g] = IF firstUse[g] = None THEN now ELSE firstUse[g]]
        /\ uses' = [uses EXCEPT ![g] = uses[g] + 1]
      BY <1>2
  <2> QED
      BY ONLY M \in Nat, <2>1, <2>2, NextUseMoves
<1>8. spentAt' \in [Keys -> Times] /\ spentAt'[key(g)] = now
    BY <1>2, <1>3 DEF Types, Times
<1>9. Types'
    BY <1>2, <1>5, <1>7, <1>8 DEF Types
<1>10. /\ issuedAt[g] <= firstUse'[g]
       /\ NextUse(M, g)' <= now + M
       /\ NextUse(M, g)' < issuedAt[g] + X + SpendLatency + M
  <2>1. uses[g] = 0 \/ uses[g] > 0
      BY <1>2, <1>3 DEF Types
  <2>2. CASE uses[g] = 0
      BY <1>3, <1>4, <1>7, <2>2
  <2>3. CASE uses[g] > 0
    <3>1. issuedAt[g] <= firstUse[g] /\ NextUse(M, g) <= now /\ firstUse[g] # None
        BY <1>2, <1>3, <2>3 DEF SpacedUses
    <3>2. NextUse(M, g) \in Nat
        BY <1>2, <1>3, <3>1, NextUseType
    <3> QED
        BY <1>3, <1>4, <1>7, <2>3, <3>1, <3>2
  <2> QED
      BY <2>1, <2>2, <2>3
<1>11. SpacedUses(M, X)'
  <2> SUFFICES ASSUME NEW h \in Grants
               PROVE  /\ issuedAt[h] # None => issuedAt[h] <= now
                      /\ uses'[h] = 0 <=> firstUse'[h] = None
                      /\ uses'[h] > 0 =>
                            /\ M <= ttl
                            /\ issuedAt[h] # None /\ issuedAt[h] <= firstUse'[h]
                            /\ spentAt'[key(h)] = None => NextUse(M, h)' <= now
                            /\ spentAt'[key(h)] # None
                                  => NextUse(M, h)' <= spentAt'[key(h)] + M
                            /\ NextUse(M, h)' < issuedAt[h] + X + SpendLatency + M
      BY <1>2 DEF SpacedUses
  <2>1. issuedAt[h] # None => issuedAt[h] <= now
      BY <1>2 DEF SpacedUses
  <2>2. CASE h = g
    <3>1. issuedAt[g] # None
        BY <1>4
    <3> QED
        BY <1>3, <1>4, <1>7, <1>8, <1>10, <2>1, <2>2, <3>1
  <2>3. CASE h # g
    <3>1. /\ NextUse(M, h)' = NextUse(M, h)
          /\ uses'[h] = uses[h] /\ firstUse'[h] = firstUse[h]
        BY <1>7, <2>3
    <3>2. uses[h] > 0 => /\ spentAt'[key(h)] = None => NextUse(M, h) <= now
                         /\ spentAt'[key(h)] # None => NextUse(M, h) <= spentAt'[key(h)] + M
        BY <1>2, <1>3, RecordSpaced
    <3>3. uses[h] > 0 => /\ M <= ttl
                         /\ issuedAt[h] # None /\ issuedAt[h] <= firstUse[h]
                         /\ NextUse(M, h) < issuedAt[h] + X + SpendLatency + M
        BY <1>2 DEF SpacedUses
    <3> QED
        BY <1>6, <2>1, <3>1, <3>2, <3>3
  <2> QED
      BY <2>2, <2>3
<1> QED
    BY <1>5, <1>9, <1>11 DEF SpacedInv

\* A refused replay ends its call.
LEMMA AlreadySpentSpaced ==
    ASSUME NEW M \in Nat, NEW X \in Nat, SpacedInv(M, X),
           NEW r \in Replicas, AlreadySpent(r)
    PROVE  SpacedInv(M, X)'
PROOF
<1>1. /\ Types /\ SizedInv(M, X) /\ WindowInv(X) /\ SpacedUses(M, X)
      /\ call' = [call EXCEPT ![r] = NoCall]
      /\ UNCHANGED <<now, ttl, spentAt, serving, retention, issuedAt, firstUse, uses>>
    BY DEF SpacedInv, AlreadySpent, history
<1>2. /\ SizedInv(M, X)' /\ WindowInv(X)'
      /\ call' \in [Replicas -> [grant : Grants, since : Nat] \cup {NoCall}]
    BY <1>1, CallEndsSpaced
<1>3. Types' /\ SpacedUses(M, X)'
    BY <1>1, <1>2 DEF Types, SpacedUses, NextUse
<1> QED
    BY <1>2, <1>3 DEF SpacedInv

\* An answer lost: the record may be there, and no call was authorised.
LEMMA SpendUnknownSpaced ==
    ASSUME NEW M \in Nat, NEW X \in Nat, SpacedInv(M, X),
           NEW r \in Replicas, SpendUnknown(r)
    PROVE  SpacedInv(M, X)'
PROOF
<1>1. PICK g : g = call[r].grant
    OBVIOUS
<1>2. /\ Types /\ SizedInv(M, X) /\ WindowInv(X) /\ SpacedUses(M, X)
      /\ call[r] # NoCall /\ call' = [call EXCEPT ![r] = NoCall]
      /\ \/ UNCHANGED spentAt
         \/ spentAt[key(g)] = None /\ spentAt' = [spentAt EXCEPT ![key(g)] = now]
      /\ UNCHANGED <<now, ttl, serving, retention, issuedAt, firstUse, uses>>
    BY <1>1 DEF SpacedInv, SpendUnknown
<1>3. g \in Grants /\ key(g) \in Keys /\ now \in Nat
    BY <1>1, <1>2 DEF Types, Keys
<1>4. /\ SizedInv(M, X)' /\ WindowInv(X)'
      /\ call' \in [Replicas -> [grant : Grants, since : Nat] \cup {NoCall}]
    BY <1>2, CallEndsSpaced
<1>5. \A h \in Grants : NextUse(M, h)' = NextUse(M, h)
    BY <1>2 DEF NextUse
<1>6. CASE UNCHANGED spentAt
  <2>1. Types' /\ SpacedUses(M, X)'
      BY <1>2, <1>4, <1>5, <1>6 DEF Types, SpacedUses
  <2> QED
      BY <1>4, <2>1 DEF SpacedInv
<1>7. CASE spentAt[key(g)] = None /\ spentAt' = [spentAt EXCEPT ![key(g)] = now]
  <2>1. spentAt' \in [Keys -> Times]
      BY <1>2, <1>3, <1>7 DEF Types, Times
  <2>2. ASSUME NEW h \in Grants, uses[h] > 0
        PROVE  /\ spentAt'[key(h)] = None => NextUse(M, h) <= now
               /\ spentAt'[key(h)] # None => NextUse(M, h) <= spentAt'[key(h)] + M
      BY <1>2, <1>3, <1>7, <2>2, RecordSpaced
  <2>3. SpacedUses(M, X)'
      BY <1>2, <1>5, <2>2 DEF SpacedUses
  <2>4. Types'
      BY <1>2, <1>4, <2>1 DEF Types
  <2> QED
      BY <1>4, <2>3, <2>4 DEF SpacedInv
<1> QED
    BY <1>2, <1>6, <1>7

\* The invariant of the bucket under boots that ask for different TTLs.
LEMMA SpacedInvariant ==
    ASSUME NEW M \in Nat, NEW X \in Nat, AskedFor(M, X)
    PROVE  Spec => []SpacedInv(M, X)
PROOF
<1>1. Init => SpacedInv(M, X)
    BY InitSpaced
<1>2. ASSUME SpacedInv(M, X), [Next]_vars PROVE SpacedInv(M, X)'
  <2>1. CASE UNCHANGED vars
      BY <1>2, <2>1 DEF SpacedInv, Types, SizedInv, WindowInv, SpacedUses, NextUse, vars, history
  <2>2. CASE Next
      BY <1>2, <2>2, TickSpaced, IssueSpaced, BootSpaced, ReloadSpaced, CheckSpaced,
         CrashSpaced, SpendSpaced, AlreadySpentSpaced, SpendUnknownSpaced DEF Next
  <2> QED
      BY <1>2, <2>1, <2>2
<1> QED
    BY <1>1, <1>2, PTL DEF Spec

\* What is left of one approval, one call (grants.Spend over the replay cache)
\* when replicas ask for different TTLs: its uses are the shortest TTL apart and
\* come within the longest and the latency of a spend, so they are no more than
\* the shortest TTLs that begin in that time.
THEOREM UsesAreFew ==
    ASSUME NEW M \in Nat, NEW X \in Nat, AskedFor(M, X)
    PROVE  Spec => [](\A g \in Grants : uses[g] > 0 =>
                          M * (uses[g] - 1) < X + SpendLatency)
PROOF
<1>1. ASSUME SpacedInv(M, X), NEW g \in Grants, uses[g] > 0
      PROVE  M * (uses[g] - 1) < X + SpendLatency
  <2>1. Types /\ SpacedUses(M, X)
      BY <1>1 DEF SpacedInv
  <2>2. /\ issuedAt[g] # None /\ issuedAt[g] <= firstUse[g] /\ firstUse[g] # None
        /\ NextUse(M, g) < issuedAt[g] + X + SpendLatency + M
      BY <1>1, <2>1 DEF SpacedUses
  <2>3. issuedAt[g] \in Nat /\ firstUse[g] \in Nat /\ uses[g] \in Nat /\ SpendLatency \in Nat
      BY <2>1, <2>2 DEF Types, Times
  <2>4. M * (uses[g] - 1) = M * uses[g] - M /\ M * uses[g] \in Nat
      BY <2>3
  <2> QED
      BY <2>2, <2>3, <2>4 DEF NextUse
<1>2. SpacedInv(M, X) => \A g \in Grants : uses[g] > 0 =>
                             M * (uses[g] - 1) < X + SpendLatency
    BY <1>1
<1>3. Spec => []SpacedInv(M, X)
    BY SpacedInvariant
<1> QED
    BY <1>2, <1>3, PTL
================================================================================
