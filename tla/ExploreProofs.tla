---------------------------- MODULE ExploreProofs ----------------------------
(***************************************************************************)
(* Proofs about what is decided beside the line of a run: the rules of review *)
(* and gate, annealed review, the adaptive search, population search, fusion *)
(* of replicas, and candidates explored from the command line.  The        *)
(* components share no state; each has its section.                        *)
(***************************************************************************)
EXTENDS Annealing, SearchRound, PopulationSearch, Fusion, Candidate, ReviewRules, SumTheorems

------------------------------------------------------------------------------
\* The rules of review and gate.

\* The sorted sequence of a finite set of numbers has each of them once.
LEMMA AscendingOfFinite ==
  ASSUME NEW S \in SUBSET Nat, IsFiniteSet(S)
  PROVE  /\ Ascending(S) \in [1 .. Cardinality(S) -> S] /\ Cardinality(S) \in Nat
         /\ \A i, j \in 1 .. Cardinality(S) : Ascending(S)[i] = Ascending(S)[j] => i = j
         /\ \A x \in S : \E i \in 1 .. Cardinality(S) : Ascending(S)[i] = x
<1>. DEFINE n        == Cardinality(S)
            Below(x) == {y \in S : y <= x}
            rank     == [x \in S |-> Cardinality(Below(x))]
<1>0. n \in Nat /\ IsFiniteSet(1 .. n) /\ Cardinality(1 .. n) = n
  BY FS_CardinalityType, FS_Interval
<1>1. ASSUME NEW x \in S
      PROVE  IsFiniteSet(Below(x)) /\ rank[x] = Cardinality(Below(x)) /\ rank[x] \in 1 .. n
  <2>1. Below(x) \in SUBSET S /\ x \in Below(x)
    BY <1>1
  <2>2. IsFiniteSet(Below(x)) /\ Cardinality(Below(x)) <= n
    BY <2>1, FS_Subset
  <2>3. Cardinality(Below(x)) \in Nat /\ Cardinality(Below(x)) # 0
    BY <2>1, <2>2, FS_CardinalityType, FS_EmptySet
  <2>. HIDE DEF Below, n
  <2>. QED BY <2>2, <2>3, <1>0
<1>2. ASSUME NEW x \in S, NEW y \in S, x < y PROVE rank[x] < rank[y]
  <2>0. x \in Nat /\ y \in Nat
    OBVIOUS
  <2>1. Below(x) \in SUBSET Below(y) /\ Below(x) # Below(y)
    <3>1. ASSUME NEW z \in Below(x) PROVE z \in Below(y)
      <4>1. z \in S /\ z \in Nat /\ z <= x
        BY <3>1
      <4>. QED BY <4>1, <2>0, <1>2
    <3>2. y \in Below(y) /\ y \notin Below(x)
      BY <2>0, <1>2
    <3>. QED BY <3>1, <3>2
  <2>2. IsFiniteSet(Below(y)) /\ rank[x] = Cardinality(Below(x)) /\ rank[y] = Cardinality(Below(y))
    BY <1>1, <1>2
  <2>3. Cardinality(Below(x)) <= Cardinality(Below(y)) /\ Cardinality(Below(x)) # Cardinality(Below(y))
    BY <2>1, <2>2, FS_Subset
  <2>4. rank[x] \in 1 .. n /\ rank[y] \in 1 .. n
    BY <1>1
  <2>. HIDE DEF Below, n, rank
  <2>. QED BY <2>2, <2>3, <2>4, <1>0
<1>. HIDE DEF rank, Below, n
<1>3. rank \in [S -> 1 .. n]
  BY <1>1 DEF rank
<1>4. rank \in Injection(S, 1 .. n)
  <2>1. ASSUME NEW x \in S, NEW y \in S, rank[x] = rank[y] PROVE x = y
    <3>1. x \in Nat /\ y \in Nat /\ rank[x] \in Nat /\ ~(x < y) /\ ~(y < x)
      BY <1>2, <2>1, <1>3, <1>0
    <3>. QED BY <3>1
  <2>. QED BY <2>1, <1>3 DEF Injection, IsInjective
<1>5. rank \in Surjection(S, 1 .. n)
  BY <1>0, <1>4, FS_Injection DEF n
<1>. DEFINE s == [i \in 1 .. n |-> CHOOSE x \in S : rank[x] = i]
<1>6. ASSUME NEW i \in 1 .. n PROVE s[i] \in S /\ rank[s[i]] = i
  <2>1. \E x \in S : rank[x] = i
    BY <1>5, <1>6 DEF Surjection
  <2>. QED BY <2>1
<1>7. s \in [1 .. n -> S]
  BY <1>6
<1>. HIDE DEF s
<1>8. ASSUME NEW i \in 1 .. n, NEW j \in 1 .. n, i < j PROVE s[i] < s[j]
  <2>1. s[i] \in S /\ s[j] \in S /\ rank[s[i]] = i /\ rank[s[j]] = j
    BY <1>6, <1>8
  <2>2. i \in Nat /\ j \in Nat /\ i # j /\ ~(j < i)
    BY <1>0, <1>8
  <2>4. s[i] # s[j]
    BY <2>1, <2>2
  <2>5. ~(s[j] < s[i])
    BY <2>1, <2>2, <1>2
  <2>3. s[i] \in Nat /\ s[j] \in Nat
    BY <2>1
  <2>. QED BY <2>3, <2>4, <2>5
<1>. DEFINE a == Ascending(S)
<1>9. a \in [1 .. n -> S] /\ \A i, j \in 1 .. n : i < j => a[i] < a[j]
  BY <1>7, <1>8 DEF Ascending, n
<1>. HIDE DEF a
<1>10. ASSUME NEW i \in 1 .. n, NEW j \in 1 .. n, a[i] = a[j] PROVE i = j
  <2>0. a[i] \in S /\ a[j] \in S
    BY <1>9, <1>10
  <2>1. \A x \in Nat : ~(x < x)
    OBVIOUS
  <2>2. ~(i < j) /\ ~(j < i)
    BY <2>0, <2>1, <1>9, <1>10
  <2>. QED BY <2>2, <1>0
<1>11. a \in Injection(1 .. n, S)
  BY <1>9, <1>10 DEF Injection, IsInjective
<1>12. a \in Surjection(1 .. n, S)
  BY <1>0, <1>11, FS_Injection DEF n
<1>13. \A x \in S : \E i \in 1 .. n : a[i] = x
  BY <1>12 DEF Surjection
<1>. QED BY <1>0, <1>9, <1>10, <1>13 DEF a, n

\* A line of a document is a heading, an item or text.
LEMMA LineKinds ==
  ASSUME NEW l \in SpecLines
  PROVE  /\ l.kind \in {"heading", "item", "text"}
         /\ l.kind = "heading" => l.depth \in Nat \ {0} /\ l.titled \in BOOLEAN
         /\ l.kind = "item" => l.id \in ReqIds
<1>1. CASE l \in [kind : {"heading"}, depth : 1 .. 2, titled : BOOLEAN]
  BY <1>1
<1>2. CASE l \in [kind : {"item"}, id : ReqIds]
  BY <1>2
<1>3. CASE l = [kind |-> "text"]
  BY <1>3
<1>. QED BY <1>1, <1>2, <1>3 DEF SpecLines

\* The state of the reader before the first line, and the states it goes through in n lines.
ReadStart == [level |-> 0, found |-> <<>>]
Reads(f, n, lines) == f = [i \in 0 .. n |-> IF i = 0 THEN ReadStart ELSE ReadLine(f[i - 1], lines[i])]

\* Documents can be read.
LEMMA ReadingExists ==
  ASSUME NEW lines, NEW m \in Nat
  PROVE  \E f : Reads(f, m, lines)
<1>. DEFINE T == {n \in Nat : ~ \E f : Reads(f, n, lines)}
<1>1. SUFFICES ASSUME T # {} PROVE FALSE
  OBVIOUS
<1>2. PICK n \in T : \A k \in T : n <= k
  BY <1>1, LeastNatural
<1>3. n # 0
  <2>1. Reads([i \in 0 .. 0 |-> ReadStart], 0, lines)
    BY DEF Reads
  <2>. QED BY <2>1, <1>2
<1>4. n - 1 \in Nat /\ n - 1 \notin T
  BY <1>2, <1>3
<1>5. PICK f : Reads(f, n - 1, lines)
  BY <1>4
<1>. DEFINE g == [i \in 0 .. n |-> IF i = n THEN ReadLine(f[n - 1], lines[n]) ELSE f[i]]
<1>6. ASSUME NEW i \in 0 .. n
      PROVE  g[i] = IF i = 0 THEN ReadStart ELSE ReadLine(g[i - 1], lines[i])
  <2>1. CASE i = n
    <3>1. n - 1 \in 0 .. n /\ n - 1 # n
      BY <1>4
    <3>2. g[n - 1] = f[n - 1] /\ g[n] = ReadLine(f[n - 1], lines[n])
      BY <3>1, <1>2
    <3>. QED BY <2>1, <3>2, <1>3
  <2>2. CASE i # n
    <3>1. i \in 0 .. n - 1 /\ g[i] = f[i]
      BY <2>2, <1>2
    <3>2. f[i] = IF i = 0 THEN ReadStart ELSE ReadLine(f[i - 1], lines[i])
      BY <3>1, <1>5 DEF Reads
    <3>3. i # 0 => i - 1 \in 0 .. n /\ i - 1 # n
      BY <1>2
    <3>4. i # 0 => g[i - 1] = f[i - 1]
      BY <3>3
    <3>. QED BY <3>1, <3>2, <3>4
  <2>. QED BY <2>1, <2>2
<1>7. g = [i \in 0 .. n |-> g[i]]
  OBVIOUS
<1>. HIDE DEF g
<1>8. Reads(g, n, lines)
  BY <1>6, <1>7 DEF Reads
<1>. QED BY <1>8, <1>2

\* The requirements are what the reader has found at the end.
LEMMA RequirementsAreRead ==
  ASSUME NEW lines, Len(lines) \in Nat
  PROVE  \E f : Reads(f, Len(lines), lines) /\ SpecRequirements(lines) = f[Len(lines)].found
<1>. DEFINE R(f) == f = [i \in 0 .. Len(lines) |-> IF i = 0 THEN [level |-> 0, found |-> <<>>] ELSE ReadLine(f[i - 1], lines[i])]
            c == CHOOSE f : R(f)
<1>1. \E f : R(f)
  BY ReadingExists DEF Reads, ReadStart
<1>2. R(c)
  BY <1>1
<1>3. SpecRequirements(lines) = c[Len(lines)].found
  BY DEF SpecRequirements
<1>. QED BY <1>2, <1>3 DEF Reads, ReadStart

\* The titled heading at line h opened a section that is still open after line i.
Opens(lines, h, i) ==
  /\ h \in 1 .. i /\ lines[h].kind = "heading" /\ lines[h].titled
  /\ \A j \in h + 1 .. i : lines[j].kind = "heading" => lines[j].depth > lines[h].depth

\* What the reader knows after line i: the level is that of the outermost open section, and it has found
\* the items of sections, each id once.
LevelSound(lines, i, p) ==
  /\ p.level = 0 => \A h \in 1 .. i : ~Opens(lines, h, i)
  /\ p.level # 0 => \E h \in 1 .. i : /\ Opens(lines, h, i) /\ lines[h].depth = p.level
                                      /\ \A g \in 1 .. i : Opens(lines, g, i) => g >= h
FoundSound(lines, i, p) ==
  /\ \A a, b \in 1 .. Len(p.found) : p.found[a] = p.found[b] => a = b
  /\ \A k \in 1 .. i : lines[k].kind = "item" /\ InSection(lines, k) => Contains(p.found, lines[k].id)
  /\ \A a \in 1 .. Len(p.found) : \E k \in 1 .. i : lines[k].kind = "item" /\ lines[k].id = p.found[a] /\ InSection(lines, k)
ReadSound(lines, i, p) == p \in [level : Nat, found : Seq(ReqIds)] /\ LevelSound(lines, i, p) /\ FoundSound(lines, i, p)

\* What is open after the next line.
LEMMA OpensNext ==
  ASSUME NEW lines, NEW i \in Nat
  PROVE  /\ \A h \in 1 .. i : Opens(lines, h, i + 1) <=>
               Opens(lines, h, i) /\ (lines[i + 1].kind = "heading" => lines[i + 1].depth > lines[h].depth)
         /\ Opens(lines, i + 1, i + 1) <=> lines[i + 1].kind = "heading" /\ lines[i + 1].titled
         /\ InSection(lines, i + 1) <=> \E h \in 1 .. i : Opens(lines, h, i)
<1>1. ASSUME NEW h \in 1 .. i
      PROVE  Opens(lines, h, i + 1) <=>
               Opens(lines, h, i) /\ (lines[i + 1].kind = "heading" => lines[i + 1].depth > lines[h].depth)
  <2>1. \A j : j \in h + 1 .. i + 1 <=> j \in h + 1 .. i \/ j = i + 1
    BY <1>1
  <2>2. h \in 1 .. i + 1
    BY <1>1
  <2>. QED BY <1>1, <2>1, <2>2 DEF Opens
<1>2. Opens(lines, i + 1, i + 1) <=> lines[i + 1].kind = "heading" /\ lines[i + 1].titled
  <2>1. \A j : j \notin (i + 1) + 1 .. i + 1
    OBVIOUS
  <2>2. i + 1 \in 1 .. i + 1
    OBVIOUS
  <2>. QED BY <2>1, <2>2 DEF Opens
<1>3. InSection(lines, i + 1) <=> \E h \in 1 .. i : Opens(lines, h, i)
  <2>1. (i + 1) - 1 = i
    OBVIOUS
  <2>. QED BY <2>1 DEF InSection, Opens
<1>. QED BY <1>1, <1>2, <1>3

\* The level after the next line.
LEMMA LevelNext ==
  ASSUME NEW lines, NEW i \in Nat, lines[i + 1] \in SpecLines, NEW p \in [level : Nat, found : Seq(ReqIds)],
         \A h \in 1 .. i : lines[h] \in SpecLines, LevelSound(lines, i, p)
  PROVE  LevelSound(lines, i + 1, ReadLine(p, lines[i + 1]))
<1>. DEFINE l == lines[i + 1]
            q == ReadLine(p, l)
<1>0. /\ l.kind \in {"heading", "item", "text"}
      /\ l.kind = "heading" => l.depth \in Nat \ {0} /\ l.titled \in BOOLEAN
      /\ \A h \in 1 .. i : lines[h].kind = "heading" => lines[h].depth \in Nat \ {0}
  BY LineKinds
<1>1. \A h : h \in 1 .. i + 1 <=> h \in 1 .. i \/ h = i + 1
  OBVIOUS
<1>2. p.level \in Nat
  OBVIOUS
<1>3. CASE l.kind # "heading"
  <2>1. q.level = p.level
    BY <1>3, <1>0 DEF ReadLine
  <2>2. \A h \in 1 .. i : Opens(lines, h, i + 1) <=> Opens(lines, h, i)
    BY <1>3, OpensNext
  <2>3. ~Opens(lines, i + 1, i + 1)
    BY <1>3, OpensNext
  <2>. HIDE DEF l, q
  <2>. QED BY <2>1, <2>2, <2>3, <1>1 DEF LevelSound, q, l
<1>4. CASE l.kind = "heading" /\ p.level > 0 /\ l.depth > p.level
  <2>1. q = p
    BY <1>4 DEF ReadLine
  <2>2. PICK h \in 1 .. i : /\ Opens(lines, h, i) /\ lines[h].depth = p.level
                            /\ \A g \in 1 .. i : Opens(lines, g, i) => g >= h
    BY <1>4 DEF LevelSound
  <2>6. lines[i + 1].depth > lines[h].depth
    BY <2>2, <1>4
  <2>7. Opens(lines, h, i + 1)
    BY <2>2, <2>6, OpensNext
  <2>3. Opens(lines, h, i + 1) /\ h \in 1 .. i + 1
    BY <2>7, <1>1
  <2>4. \A g \in 1 .. i + 1 : Opens(lines, g, i + 1) => g >= h
    BY <2>2, <1>1, OpensNext
  <2>5. p.level # 0
    BY <1>4
  <2>. QED BY <2>1, <2>2, <2>3, <2>4, <2>5 DEF LevelSound
<1>5. CASE l.kind = "heading" /\ ~(p.level > 0 /\ l.depth > p.level)
  <2>1. q.level = IF l.titled THEN l.depth ELSE 0
    BY <1>5 DEF ReadLine
  <2>2. ASSUME NEW g \in 1 .. i PROVE ~Opens(lines, g, i + 1)
    <3>1. CASE p.level = 0
      BY <3>1, OpensNext DEF LevelSound
    <3>2. CASE p.level # 0
      <4>1. PICK h \in 1 .. i : /\ Opens(lines, h, i) /\ lines[h].depth = p.level
                                /\ \A k \in 1 .. i : Opens(lines, k, i) => k >= h
        BY <3>2 DEF LevelSound
      <4>2. l.depth <= lines[h].depth /\ l.depth \in Nat
        BY <3>2, <1>5, <1>2, <1>0, <4>1
      <4>3. SUFFICES ASSUME Opens(lines, g, i + 1) PROVE FALSE
        OBVIOUS
      <4>4. Opens(lines, g, i) /\ l.depth > lines[g].depth /\ g >= h
        BY <4>1, <4>3, <1>5, OpensNext
      <4>5. lines[g].depth \in Nat /\ lines[h].depth \in Nat
        BY <4>1, <4>4, <1>0 DEF Opens
      <4>6. CASE g = h
        BY <4>2, <4>4, <4>5, <4>6
      <4>7. CASE g # h
        <5>1. g \in h + 1 .. i
          BY <4>4, <4>7
        <5>2. lines[g].depth > lines[h].depth
          BY <5>1, <4>1, <4>4 DEF Opens
        <5>. QED BY <5>2, <4>2, <4>4, <4>5
      <4>. QED BY <4>6, <4>7
    <3>. QED BY <3>1, <3>2
  <2>3. Opens(lines, i + 1, i + 1) <=> l.titled
    BY <1>5, OpensNext
  <2>4. CASE l.titled
    <3>1. q.level # 0 /\ q.level = l.depth /\ Opens(lines, i + 1, i + 1) /\ i + 1 \in 1 .. i + 1
      BY <2>1, <2>3, <2>4, <1>0, <1>5
    <3>2. \A g \in 1 .. i + 1 : Opens(lines, g, i + 1) => g >= i + 1
      BY <2>2, <1>1
    <3>. QED BY <3>1, <3>2 DEF LevelSound
  <2>5. CASE ~l.titled
    <3>1. q.level = 0 /\ ~Opens(lines, i + 1, i + 1)
      BY <2>1, <2>3, <2>5
    <3>. QED BY <3>1, <2>2, <1>1 DEF LevelSound
  <2>. QED BY <2>4, <2>5
<1>. QED BY <1>3, <1>4, <1>5

\* What is found after the next line.
LEMMA FoundNext ==
  ASSUME NEW lines, NEW i \in Nat, lines[i + 1] \in SpecLines, NEW p \in [level : Nat, found : Seq(ReqIds)],
         LevelSound(lines, i, p), FoundSound(lines, i, p)
  PROVE  FoundSound(lines, i + 1, ReadLine(p, lines[i + 1])) /\ ReadLine(p, lines[i + 1]) \in [level : Nat, found : Seq(ReqIds)]
<1>. DEFINE l == lines[i + 1]
            q == ReadLine(p, l)
            n == Len(p.found)
<1>0. /\ l.kind \in {"heading", "item", "text"}
      /\ l.kind = "heading" => l.depth \in Nat \ {0} /\ l.titled \in BOOLEAN
      /\ l.kind = "item" => l.id \in ReqIds
  BY LineKinds
<1>1. \A h : h \in 1 .. i + 1 <=> h \in 1 .. i \/ h = i + 1
  OBVIOUS
<1>2. p.level \in Nat /\ p.found \in Seq(ReqIds) /\ n \in Nat /\ DOMAIN p.found = 1 .. n
  OBVIOUS
<1>3. InSection(lines, i + 1) <=> p.level # 0
  BY OpensNext DEF LevelSound
<1>4. /\ \A a, b \in 1 .. n : p.found[a] = p.found[b] => a = b
      /\ \A k \in 1 .. i : lines[k].kind = "item" /\ InSection(lines, k) => Contains(p.found, lines[k].id)
      /\ \A a \in 1 .. n : \E k \in 1 .. i : lines[k].kind = "item" /\ lines[k].id = p.found[a] /\ InSection(lines, k)
  BY DEF FoundSound
<1>5. CASE l.kind = "item" /\ p.level > 0 /\ ~Contains(p.found, l.id)
  <2>. DEFINE f == Append(p.found, l.id)
  <2>1. q = [p EXCEPT !.found = f]
    BY <1>5 DEF ReadLine
  <2>2. /\ f \in Seq(ReqIds) /\ Len(f) = n + 1 /\ f[n + 1] = l.id
        /\ \A a \in 1 .. n : f[a] = p.found[a]
    BY <1>0, <1>2, <1>5
  <2>3. q \in [level : Nat, found : Seq(ReqIds)] /\ q.found = f
    BY <2>1, <2>2
  <2>. HIDE DEF f, q, n
  <2>4. \A a : a \in 1 .. n + 1 <=> a \in 1 .. n \/ a = n + 1
    BY <1>2
  <2>5. \A a \in 1 .. n : p.found[a] # l.id
    BY <1>5 DEF Contains, n
  <2>6. \A a, b \in 1 .. n + 1 : f[a] = f[b] => a = b
    BY <2>2, <2>4, <2>5, <1>4
  <2>7. ASSUME NEW k \in 1 .. i + 1, lines[k].kind = "item", InSection(lines, k) PROVE Contains(f, lines[k].id)
    <3>1. CASE k \in 1 .. i
      <4>1. PICK a \in 1 .. n : p.found[a] = lines[k].id
        BY <3>1, <2>7, <1>4 DEF Contains, n
      <4>2. f[a] = lines[k].id /\ a \in 1 .. Len(f)
        BY <4>1, <2>2, <2>4
      <4>. QED BY <4>2 DEF Contains
    <3>2. CASE k = i + 1
      <4>1. f[n + 1] = lines[k].id /\ n + 1 \in 1 .. Len(f)
        BY <3>2, <2>2, <2>4
      <4>. QED BY <4>1 DEF Contains
    <3>. QED BY <3>1, <3>2, <1>1
  <2>8. ASSUME NEW a \in 1 .. n + 1
        PROVE  \E k \in 1 .. i + 1 : lines[k].kind = "item" /\ lines[k].id = f[a] /\ InSection(lines, k)
    <3>1. CASE a \in 1 .. n
      BY <3>1, <1>4, <1>1, <2>2
    <3>2. CASE a = n + 1
      <4>1. InSection(lines, i + 1) /\ i + 1 \in 1 .. i + 1 /\ lines[i + 1].kind = "item" /\ lines[i + 1].id = f[a]
        BY <3>2, <1>3, <1>5, <1>1, <2>2
      <4>. QED BY <4>1
    <3>. QED BY <3>1, <3>2, <2>4
  <2>. QED BY <2>2, <2>3, <2>6, <2>7, <2>8 DEF FoundSound, q
<1>6. CASE ~(l.kind = "item" /\ p.level > 0 /\ ~Contains(p.found, l.id))
  <2>1. q.found = p.found /\ q \in [level : Nat, found : Seq(ReqIds)]
    <3>1. CASE q = p
      BY <3>1
    <3>2. CASE l.kind = "heading" /\ q = [p EXCEPT !.level = IF l.titled THEN l.depth ELSE 0]
      BY <3>2, <1>0, <1>2
    <3>. QED BY <3>1, <3>2, <1>6 DEF ReadLine
  <2>. HIDE DEF q
  <2>2. lines[i + 1].kind = "item" /\ InSection(lines, i + 1) => Contains(q.found, lines[i + 1].id)
    BY <2>1, <1>3, <1>6, <1>2
  <2>3. ASSUME NEW k \in 1 .. i + 1, lines[k].kind = "item", InSection(lines, k) PROVE Contains(q.found, lines[k].id)
    BY <2>1, <2>2, <2>3, <1>1, <1>4
  <2>4. ASSUME NEW a \in 1 .. n
        PROVE  \E k \in 1 .. i + 1 : lines[k].kind = "item" /\ lines[k].id = q.found[a] /\ InSection(lines, k)
    BY <2>1, <1>1, <1>4
  <2>. QED BY <2>1, <2>3, <2>4, <1>4 DEF FoundSound, q
<1>. QED BY <1>5, <1>6

\* The reader knows at every line what it should.
LEMMA ReadingSound ==
  ASSUME NEW m \in Nat, NEW lines \in [1 .. m -> SpecLines], NEW f, Reads(f, m, lines)
  PROVE  \A i \in 0 .. m : ReadSound(lines, i, f[i])
<1>. DEFINE T == {i \in 0 .. m : ~ReadSound(lines, i, f[i])}
<1>1. SUFFICES ASSUME T # {} PROVE FALSE
  OBVIOUS
<1>2. T \in SUBSET Nat
  OBVIOUS
<1>3. PICK n \in T : \A k \in T : n <= k
  BY <1>1, <1>2, LeastNatural
<1>4. n \in 0 .. m /\ ~ReadSound(lines, n, f[n])
  BY <1>3
<1>5. n # 0
  <2>1. f[0] = ReadStart /\ ReadStart \in [level : Nat, found : Seq(ReqIds)] /\ ReadStart.level = 0 /\ ReadStart.found = <<>> /\ Len(<<>>) = 0
    BY DEF Reads, ReadStart
  <2>2. ReadSound(lines, 0, ReadStart)
    <3>1. \A h : h \notin 1 .. 0
      OBVIOUS
    <3>. QED BY <2>1, <3>1 DEF ReadSound, LevelSound, FoundSound
  <2>. QED BY <2>1, <2>2, <1>4
<1>6. n - 1 \in 0 .. m /\ ~(n <= n - 1) /\ (n - 1) + 1 = n /\ n - 1 \in Nat /\ n \in 1 .. m
  BY <1>4, <1>5
<1>7. ReadSound(lines, n - 1, f[n - 1])
  BY <1>3, <1>6
<1>8. f[n] = ReadLine(f[n - 1], lines[n])
  BY <1>4, <1>5 DEF Reads
<1>9. lines[n] \in SpecLines /\ \A h \in 1 .. n - 1 : lines[h] \in SpecLines
  BY <1>6
<1>10. LevelSound(lines, (n - 1) + 1, ReadLine(f[n - 1], lines[(n - 1) + 1]))
  BY <1>6, <1>7, <1>9, LevelNext DEF ReadSound
<1>11. /\ FoundSound(lines, (n - 1) + 1, ReadLine(f[n - 1], lines[(n - 1) + 1]))
       /\ ReadLine(f[n - 1], lines[(n - 1) + 1]) \in [level : Nat, found : Seq(ReqIds)]
  BY <1>6, <1>7, <1>9, FoundNext DEF ReadSound
<1>12. ReadSound(lines, n, f[n])
  BY <1>6, <1>8, <1>10, <1>11 DEF ReadSound
<1>. QED BY <1>12, <1>4

\* What spec_requirements returns: the ids of the items in requirements sections, each one once.
LEMMA RequirementsFound ==
  ASSUME NEW m \in Nat, NEW lines \in [1 .. m -> SpecLines]
  PROVE  LET s == SpecRequirements(lines) IN
         /\ s \in Seq(ReqIds)
         /\ \A a, b \in 1 .. Len(s) : s[a] = s[b] => a = b
         /\ \A k \in 1 .. m : lines[k].kind = "item" /\ InSection(lines, k) => Contains(s, lines[k].id)
         /\ \A a \in 1 .. Len(s) : \E k \in 1 .. m : lines[k].kind = "item" /\ lines[k].id = s[a] /\ InSection(lines, k)
<1>1. lines \in Seq(SpecLines) /\ Len(lines) = m
  OBVIOUS
<1>2. PICK f : Reads(f, m, lines) /\ SpecRequirements(lines) = f[m].found
  BY <1>1, RequirementsAreRead
<1>3. m \in 0 .. m
  OBVIOUS
<1>4. ReadSound(lines, m, f[m])
  BY <1>2, <1>3, ReadingSound
<1>. QED BY <1>2, <1>4 DEF ReadSound, FoundSound

\* The rows of a trace: one per requirement of the spec and of the plan.
LEMMA RowsOfTrace ==
  ASSUME NEW m \in Nat, NEW lines \in [1 .. m -> SpecLines], NEW entries, NEW cases
  PROVE  LET rows == TraceRows(lines, entries, cases) IN
         /\ \A k \in DOMAIN rows : rows[k].tests = PlannedTests(entries, rows[k].req)
         /\ \A j, k \in DOMAIN rows : rows[j].req = rows[k].req => j = k
         /\ \A r \in ReqIds : PlannedTests(entries, r) # {} => \E k \in DOMAIN rows : rows[k].req = r
         /\ \A i \in 1 .. m : lines[i].kind = "item" /\ InSection(lines, i) => \E k \in DOMAIN rows : rows[k].req = lines[i].id
         /\ \A k \in DOMAIN rows :
              \/ rows[k].tests # {}
              \/ \E i \in 1 .. m : lines[i].kind = "item" /\ lines[i].id = rows[k].req /\ InSection(lines, i)
<1>. DEFINE s    == SpecRequirements(lines)
            only == {r \in ReqIds : PlannedTests(entries, r) # {} /\ ~Contains(s, r)}
            t    == Ascending(only)
            ids  == s \o t
            rows == TraceRows(lines, entries, cases)
            n    == Len(s)
            c    == Cardinality(only)
<1>1. /\ s \in Seq(ReqIds)
      /\ \A a, b \in 1 .. n : s[a] = s[b] => a = b
      /\ \A k \in 1 .. m : lines[k].kind = "item" /\ InSection(lines, k) => Contains(s, lines[k].id)
      /\ \A a \in 1 .. n : \E k \in 1 .. m : lines[k].kind = "item" /\ lines[k].id = s[a] /\ InSection(lines, k)
  BY RequirementsFound
<1>2. only \in SUBSET ReqIds /\ only \in SUBSET Nat /\ IsFiniteSet(only)
  <2>1. only \in SUBSET ReqIds
    OBVIOUS
  <2>. QED BY <2>1, FS_Subset, RulesAssumption
<1>3. /\ t \in [1 .. c -> only] /\ c \in Nat
      /\ \A i, j \in 1 .. c : t[i] = t[j] => i = j
      /\ \A x \in only : \E i \in 1 .. c : t[i] = x
  BY <1>2, AscendingOfFinite
<1>4. /\ rows = [i \in DOMAIN ids |-> [req |-> ids[i], tests |-> PlannedTests(entries, ids[i]),
                                       status |-> RowStatus(PlannedTests(entries, ids[i]), cases)]]
      /\ \A x \in only : x \in ReqIds /\ PlannedTests(entries, x) # {} /\ ~Contains(s, x)
      /\ \A r \in ReqIds : PlannedTests(entries, r) # {} => r \in only \/ Contains(s, r)
  BY DEF TraceRows
<1>. HIDE DEF s, only, t, c, rows
<1>5. t \in Seq(ReqIds) /\ Len(t) = c
  <2>1. t \in [1 .. c -> ReqIds]
    BY <1>2, <1>3
  <2>. QED BY <2>1, <1>3
<1>6. /\ n \in Nat /\ DOMAIN ids = 1 .. n + c
      /\ \A a \in 1 .. n : ids[a] = s[a]
      /\ \A b \in 1 .. c : ids[n + b] = t[b]
  <2>1. n \in Nat /\ DOMAIN ids = 1 .. n + c
    <3>1. n \in Nat
      BY <1>1
    <3>2. Len(s \o t) = Len(s) + Len(t) /\ s \o t \in Seq(ReqIds)
      <4>1. s \in Seq(ReqIds) /\ t \in Seq(ReqIds)
        BY <1>1, <1>5
      <4>2. s \o t \in Seq(ReqIds)
        BY <4>1
      <4>3. Len(s \o t) = Len(s) + Len(t)
        BY <4>1
      <4>. QED BY <4>2, <4>3
    <3>3. DOMAIN (s \o t) = 1 .. Len(s \o t)
      BY <3>2
    <3>. QED BY <3>1, <3>2, <3>3, <1>5
  <2>2. \A a \in 1 .. n : ids[a] = s[a]
    BY <1>1, <1>5
  <2>3. ASSUME NEW b \in 1 .. c PROVE ids[n + b] = t[b]
    <3>1. n + b \in 1 .. Len(s) + Len(t) /\ ~(n + b <= Len(s)) /\ (n + b) - Len(s) = b
      BY <2>1, <2>3, <1>3, <1>5
    <3>2. \A i \in 1 .. Len(s) + Len(t) : (s \o t)[i] = IF i <= Len(s) THEN s[i] ELSE t[i - Len(s)]
      BY <1>1, <1>5
    <3>. QED BY <3>1, <3>2
  <2>. QED BY <2>1, <2>2, <2>3
<1>. HIDE DEF ids, n
<1>7. ASSUME NEW k \in DOMAIN ids
      PROVE  k \in 1 .. n \/ \E b \in 1 .. c : k = n + b
  <2>1. CASE k <= n
    BY <2>1, <1>6, <1>7, <1>3
  <2>2. CASE ~(k <= n)
    <3>1. k - n \in 1 .. c /\ k = n + (k - n)
      BY <2>2, <1>6, <1>7, <1>3
    <3>. QED BY <3>1
  <2>. QED BY <2>1, <2>2
<1>8. \A b \in 1 .. c : n + b \in DOMAIN ids
  BY <1>6, <1>3
<1>9. \A a \in 1 .. n : a \in DOMAIN ids
  BY <1>6, <1>3
<1>10. /\ DOMAIN rows = DOMAIN ids
       /\ \A k \in DOMAIN ids : rows[k].req = ids[k] /\ rows[k].tests = PlannedTests(entries, ids[k])
  BY <1>4
<1>11. ASSUME NEW j \in DOMAIN ids, NEW k \in DOMAIN ids, ids[j] = ids[k] PROVE j = k
  <2>1. ASSUME NEW a \in 1 .. n, NEW b \in 1 .. c PROVE s[a] # t[b]
    <3>1. ~Contains(s, t[b])
      BY <1>3, <1>4
    <3>. QED BY <3>1 DEF Contains, n
  <2>2. CASE j \in 1 .. n /\ k \in 1 .. n
    BY <2>2, <1>1, <1>6, <1>11
  <2>3. ASSUME NEW b \in 1 .. c, k = n + b, j \in 1 .. n PROVE FALSE
    BY <2>1, <2>3, <1>6, <1>11
  <2>4. ASSUME NEW b \in 1 .. c, j = n + b, k \in 1 .. n PROVE FALSE
    BY <2>1, <2>4, <1>6, <1>11
  <2>5. ASSUME NEW a \in 1 .. c, NEW b \in 1 .. c, j = n + a, k = n + b PROVE j = k
    <3>1. t[a] = t[b]
      BY <2>5, <1>6, <1>11
    <3>. QED BY <3>1, <2>5, <1>3
  <2>. QED BY <1>7, <2>2, <2>3, <2>4, <2>5
<1>12. ASSUME NEW r, Contains(s, r) \/ r \in only PROVE \E k \in DOMAIN rows : rows[k].req = r
  <2>1. CASE Contains(s, r)
    <3>1. PICK a \in 1 .. n : s[a] = r
      BY <2>1 DEF Contains, n
    <3>. QED BY <3>1, <1>6, <1>9, <1>10
  <2>2. CASE r \in only
    <3>1. PICK b \in 1 .. c : t[b] = r
      BY <2>2, <1>3
    <3>2. n + b \in DOMAIN rows /\ rows[n + b].req = r
      BY <3>1, <1>6, <1>8, <1>10
    <3>. QED BY <3>2
  <2>. QED BY <1>12, <2>1, <2>2
<1>13. ASSUME NEW k \in DOMAIN rows
       PROVE  \/ rows[k].tests # {}
              \/ \E i \in 1 .. m : lines[i].kind = "item" /\ lines[i].id = rows[k].req /\ InSection(lines, i)
  <2>1. CASE k \in 1 .. n
    BY <2>1, <1>1, <1>6, <1>10
  <2>2. ASSUME NEW b \in 1 .. c, k = n + b PROVE rows[k].tests # {}
    <3>1. t[b] \in only /\ ids[k] = t[b]
      BY <2>2, <1>3, <1>6
    <3>. QED BY <3>1, <1>4, <1>10
  <2>. QED BY <2>1, <2>2, <1>7, <1>10
<1>14. \A r \in ReqIds : PlannedTests(entries, r) # {} => \E k \in DOMAIN rows : rows[k].req = r
  BY <1>4, <1>12
<1>15. \A i \in 1 .. m : lines[i].kind = "item" /\ InSection(lines, i) => \E k \in DOMAIN rows : rows[k].req = lines[i].id
  BY <1>1, <1>12
<1>16. \A k \in DOMAIN rows : rows[k].tests = PlannedTests(entries, rows[k].req)
  BY <1>10
<1>17. \A j, k \in DOMAIN rows : rows[j].req = rows[k].req => j = k
  BY <1>10, <1>11
<1>. QED BY <1>13, <1>14, <1>15, <1>16, <1>17 DEF rows

\* A planned test counts as passed only when it has a case and every case of it passed.
LEMMA PassedIsPassed ==
  ASSUME NEW cases \in AllCases, cases # None, NEW test, PlannedOutcome(test, cases) = "passed"
  PROVE  /\ \E c \in DOMAIN cases : c[1] = test
         /\ \A c \in DOMAIN cases : c[1] = test => cases[c] = "passed"
<1>. DEFINE seen == {cases[c] : c \in MatchingCases(test, cases)}
<1>1. PICK D \in SUBSET CaseIds : cases \in [D -> TestOutcomes]
  BY DEF AllCases
<1>2. \A c \in DOMAIN cases : cases[c] \in {"passed", "failed", "error", "skipped"}
  BY <1>1 DEF TestOutcomes
<1>3. PlannedOutcome(test, cases) = CASE seen = {} -> "missing"
         [] seen \cap {"failed", "error"} # {} -> "failed"
         [] seen \cap {"failed", "error"} = {} /\ "skipped" \in seen -> "skipped"
         [] OTHER -> "passed"
  BY DEF PlannedOutcome
<1>. HIDE DEF seen
<1>4. seen # {} /\ seen \cap {"failed", "error"} = {} /\ "skipped" \notin seen
  BY <1>3
<1>5. ASSUME NEW c \in DOMAIN cases, c[1] = test PROVE cases[c] = "passed"
  <2>1. cases[c] \in seen
    BY <1>5 DEF seen, MatchingCases
  <2>. QED BY <2>1, <1>2, <1>4, <1>5
<1>6. \E c \in DOMAIN cases : c[1] = test
  BY <1>4 DEF seen, MatchingCases
<1>. QED BY <1>5, <1>6

\* The trace that review asks for.
LEMMA TraceAnswered ==
  ASSUME NEW lines \in Documents, NEW entries \in SUBSET PlanEntries, NEW cases \in AllCases, AskTrace(lines, entries, cases)
  PROVE  RulesAreSound'
<1>. DEFINE rows == TraceRows(lines, entries, cases)
<1>1. PICK m \in 0 .. MaxLines : lines \in [1 .. m -> SpecLines]
  BY DEF Documents
<1>2. m \in Nat /\ DOMAIN lines = 1 .. m
  BY <1>1, RulesAssumption
<1>3. /\ question' = [about |-> "trace", lines |-> lines, entries |-> entries, cases |-> cases]
      /\ ruling' = [rows |-> rows, findings |-> TraceFindings(rows, cases)]
  BY DEF AskTrace
<1>4. /\ question'.about = "trace" /\ question'.lines = lines /\ question'.entries = entries /\ question'.cases = cases
      /\ ruling'.rows = rows /\ ruling'.findings = TraceFindings(rows, cases)
  BY <1>3
<1>5. /\ \A k \in DOMAIN rows : rows[k].tests = PlannedTests(entries, rows[k].req)
      /\ \A j, k \in DOMAIN rows : rows[j].req = rows[k].req => j = k
      /\ \A r \in ReqIds : PlannedTests(entries, r) # {} => \E k \in DOMAIN rows : rows[k].req = r
      /\ \A i \in 1 .. m : lines[i].kind = "item" /\ InSection(lines, i) => \E k \in DOMAIN rows : rows[k].req = lines[i].id
      /\ \A k \in DOMAIN rows :
           \/ rows[k].tests # {}
           \/ \E i \in 1 .. m : lines[i].kind = "item" /\ lines[i].id = rows[k].req /\ InSection(lines, i)
  BY <1>1, <1>2, RowsOfTrace
<1>. HIDE DEF rows
<1>6. ASSUME TraceFindings(rows, cases) = {}, NEW e \in entries
      PROVE  /\ cases # None
             /\ \E c \in DOMAIN cases : c[1] = e.test
             /\ \A c \in DOMAIN cases : c[1] = e.test => cases[c] = "passed"
  <2>1. e.first \in ReqIds /\ e.last \in ReqIds /\ e.first \in Nat /\ e.last \in Nat
    BY <1>6, RulesAssumption DEF PlanEntries
  <2>2. e.first \in Numbers(e)
    BY <2>1 DEF Numbers
  <2>3. e.test \in PlannedTests(entries, e.first)
    BY <2>2 DEF PlannedTests
  <2>4. PICK k \in DOMAIN rows : rows[k].req = e.first
    BY <2>1, <2>3, <1>5
  <2>5. e.test \in AllPlanned(rows)
    BY <2>3, <2>4, <1>5 DEF AllPlanned
  <2>6. cases # None /\ PlannedOutcome(e.test, cases) = "passed"
    BY <2>5, <1>6 DEF TraceFindings
  <2>. QED BY <2>6, PassedIsPassed
<1>7. ASSUME NEW i \in DOMAIN lines, lines[i].kind = "item", InSection(lines, i)
      PROVE  Cardinality({k \in DOMAIN rows : rows[k].req = lines[i].id}) = 1
  <2>1. PICK k \in DOMAIN rows : rows[k].req = lines[i].id
    BY <1>2, <1>5, <1>7
  <2>2. {j \in DOMAIN rows : rows[j].req = lines[i].id} = {k}
    BY <2>1, <1>5
  <2>. QED BY <2>2, FS_Singleton
<1>8. TraceIsProof'
  BY <1>2, <1>4, <1>5, <1>6, <1>7 DEF TraceIsProof
<1>9. GuardMissesNothing' /\ HumanGateTakesAPerson'
  BY <1>4 DEF GuardMissesNothing, HumanGateTakesAPerson
<1>. QED BY <1>8, <1>9 DEF RulesAreSound

\* The guard that deliver asks.
LEMMA GuardAnswered ==
  ASSUME NEW baseline, NEW cases, NEW passed, AskGuard(baseline, cases, passed)
  PROVE  RulesAreSound'
<1>1. /\ question' = [about |-> "guard", baseline |-> baseline, cases |-> cases, passed |-> passed]
      /\ ruling' = [findings |-> Regressions(baseline, cases, passed)]
  BY DEF AskGuard
<1>2. /\ question'.about = "guard" /\ question'.baseline = baseline /\ question'.cases = cases /\ question'.passed = passed
      /\ ruling'.findings = Regressions(baseline, cases, passed)
  BY <1>1
<1>3. ASSUME Regressions(baseline, cases, passed) = {}
      PROVE  /\ baseline.passing \notin {None, {}} => cases # None /\ baseline.passing \subseteq Passing(cases)
             /\ passed >= baseline.passed \/ baseline.passing # None
  <2>1. CASE baseline.passing \notin {None, {}} /\ cases = None
    BY <2>1, <1>3 DEF Regressions
  <2>2. CASE baseline.passing # None /\ cases # None
    <3>1. {c \in baseline.passing : c \notin Passing(cases)} = {}
      BY <2>2, <1>3 DEF Regressions
    <3>. QED BY <3>1, <2>2
  <2>3. CASE ~(baseline.passing \notin {None, {}} /\ cases = None) /\ ~(baseline.passing # None /\ cases # None)
    BY <2>3, <1>3 DEF Regressions
  <2>. QED BY <2>1, <2>2, <2>3
<1>. QED BY <1>2, <1>3 DEF RulesAreSound, TraceIsProof, GuardMissesNothing, HumanGateTakesAPerson

\* The decision of a gate, read back by delivery.
LEMMA GateAnswered ==
  ASSUME NEW r \in GateRuns, NEW c, AskGate(r, c)
  PROVE  RulesAreSound'
<1>. DEFINE a == ApprovalFromResponse(r)
<1>1. /\ question'.about = "gate" /\ question'.gateMode = r.gateMode /\ question'.response = r.response
      /\ question'.managed = r.managed /\ question'.scm = r.scm
      /\ ruling'.accepted => a.mode # "refused"
  <2>1. question' = [about |-> "gate", gateMode |-> r.gateMode, response |-> r.response, managed |-> r.managed,
                     scm |-> r.scm, cell |-> c]
    BY DEF AskGate
  <2>2. ruling'.accepted => a.mode # "refused"
    BY DEF AskGate
  <2>. QED BY <2>1, <2>2
<1>2. GateRefusal.mode = "refused"
  BY DEF GateRefusal
<1>3. ASSUME r.gateMode = "human", a.mode # "refused"
      PROVE  IF r.response = None THEN ~r.managed /\ r.scm = "local" ELSE r.response.actor = "person" /\ r.response.dated
  <2>1. CASE r.response = None
    <3>1. a = ReplayApproval(r)
      BY <1>3, <2>1 DEF ApprovalFromResponse
    <3>. QED BY <3>1, <2>1, <1>2, <1>3 DEF ReplayApproval, ReplayRefused
  <2>2. CASE r.response # None
    BY <2>2, <1>2, <1>3 DEF ApprovalFromResponse
  <2>. QED BY <2>1, <2>2
<1>. QED BY <1>1, <1>3 DEF RulesAreSound, TraceIsProof, GuardMissesNothing, HumanGateTakesAPerson

\* What the rules of review and gate let through is what they promise (stages.requirement_trace, trace_findings,
\* regression_findings, approval_policy.approval_from_response, check_recorded), for every document, plan, suite run and response.
THEOREM RulesSound == RulesSpec => []RulesAreSound
<1>1. RulesInit => RulesAreSound
  BY DEF RulesInit, RulesAreSound, TraceIsProof, GuardMissesNothing, HumanGateTakesAPerson
<1>2. ASSUME RulesAreSound, [question.about = "nothing" /\ RulesNext]_ruleVars PROVE RulesAreSound'
  <2>1. CASE UNCHANGED ruleVars
    BY <2>1, <1>2 DEF ruleVars, RulesAreSound, TraceIsProof, GuardMissesNothing, HumanGateTakesAPerson
  <2>2. ASSUME NEW l \in Documents, NEW e \in SUBSET PlanEntries, AskTrace(l, e, None) PROVE RulesAreSound'
    BY <2>2, TraceAnswered DEF AllCases
  <2>3. ASSUME NEW e \in SUBSET PlanEntries, NEW c \in AllCases, AskTrace(<<>>, e, c) PROVE RulesAreSound'
    <3>1. <<>> \in Documents
      <4>1. <<>> \in [1 .. 0 -> SpecLines] /\ 0 \in 0 .. MaxLines
        BY RulesAssumption
      <4>. QED BY <4>1 DEF Documents
    <3>. QED BY <3>1, <2>3, TraceAnswered
  <2>4. ASSUME NEW b, NEW c, NEW p, AskGuard(b, c, p) PROVE RulesAreSound'
    BY <2>4, GuardAnswered
  <2>5. ASSUME NEW r \in GateRuns, NEW c, AskGate(r, c) PROVE RulesAreSound'
    BY <2>5, GateAnswered
  <2>. QED BY <1>2, <2>1, <2>2, <2>3, <2>4, <2>5 DEF RulesNext
<1>. QED BY <1>1, <1>2, PTL DEF RulesSpec

------------------------------------------------------------------------------
\* The annealed review.

\* Findings, and the answers of the lanes of one pass.
Findings == [key : {"remark", "fidelity", "acceptance", "missing", "tests"}, sev : Severities]
LaneAnswers == UNION {[1 .. n -> SUBSET Findings] : n \in 0 .. 3}
\* The places and the fields of a pass.
PassSteps == {"none", "lanes", "fix", "fence", "test", "restore", "refence", "retest", "raise", "conclude"}
Phases == {"none", "jammed", "critical", "glass", "crystal", "liquid"}
Passes == [at : PassSteps, round : Nat, groups : LaneAnswers, carried : SUBSET Findings, green : BOOLEAN,
           findings : SUBSET Findings, read : Nat, before : Nat, strays : BOOLEAN, last : SUBSET Findings, phase : Phases]

\* What the lanes of a pass have raised.
Raised(groups) == UNION {groups[l] : l \in DOMAIN groups}

\* The types of the pass and of the code's versions.
AnnealTypeOK ==
    /\ pass \in Passes
    /\ \A v \in DOMAIN decided : decided[v] \in CodeDecided
    /\ \E n \in Nat \ {0} :
         /\ DOMAIN decided = 1 .. n /\ DOMAIN greenOf = 1 .. n /\ version \in 1 .. n
         /\ pass.at \in {"fence", "test", "restore"} => pass.before \in 1 .. n

\* The fence and the suite run keep up with HEAD at every step that reads them.
HeadIsKnown ==
    /\ pass.at \in {"lanes", "fix", "conclude"} => version = fenced /\ tested = version
    /\ pass.at \in {"test", "retest"} => version = fenced

\* A pass that concludes crystallized found nothing to repair at the HEAD it read.
ConcludesOnHead ==
    pass.at = "conclude" =>
        /\ pass.read = version
        /\ Actionable(pass.findings) = {} => decided[version] = {} /\ Actionable(Raised(pass.groups)) = {}

\* A stage on record runs no more.
OnRecord == outcome.status \in {"ok", "blocked"} => pass.at = "none"

\* The inductive invariant of the annealed review.
AnnealInv == AnnealTypeOK /\ HeadIsKnown /\ ConcludesOnHead /\ OnRecord /\ OkIsOfHead

\* Merging by severity loses no place that needs a repair.
LEMMA MergeKeepsActionable ==
  ASSUME NEW fs \in SUBSET Findings, Actionable(MergeFindings(fs)) = {}
  PROVE  Actionable(fs) = {}
  <1> SUFFICES ASSUME NEW f \in fs, f.sev \in {"blocker", "major"} PROVE FALSE
    BY DEF Actionable
  <1>1. \A g \in fs : g.sev \in Severities /\ g.sev \in {"blocker", "major", "minor"}
    BY DEF Findings, Severities
  <1>2. Severity["blocker"] = 0 /\ Severity["major"] = 1 /\ Severity["minor"] = 2
    BY DEF Severity
  <1>3. CASE \E g \in fs : g.key = f.key /\ g.sev = "blocker"
    <2>1. PICK g \in fs : g.key = f.key /\ g.sev = "blocker"
      BY <1>3
    <2>2. g \in MergeFindings(fs)
      <3>1. \A h \in fs : Severity[g.sev] <= Severity[h.sev]
        BY <1>1, <1>2, <2>1
      <3> QED BY <3>1 DEF MergeFindings
    <2> QED BY <2>1, <2>2 DEF Actionable
  <1>4. CASE ~\E g \in fs : g.key = f.key /\ g.sev = "blocker"
    <2>1. f.sev = "major"
      BY <1>4
    <2>2. f \in MergeFindings(fs)
      <3>1. \A h \in fs : h.key = f.key => Severity[f.sev] <= Severity[h.sev]
        BY <1>1, <1>2, <1>4, <2>1
      <3> QED BY <3>1 DEF MergeFindings
    <2> QED BY <2>2 DEF Actionable
  <1> QED BY <1>3, <1>4

\* Whatever code decides of a version needs a repair.
LEMMA DecidedActionable ==
  ASSUME NEW d \in CodeDecided
  PROVE  d \in SUBSET Findings /\ (Actionable(d) = {} => d = {})
  BY DEF CodeDecided, Findings, Severities, Actionable, F

\* The fresh pass.
LEMMA NoPassTyped == NoPass \in Passes /\ NoPass.at = "none" /\ NoPass.groups \in LaneAnswers /\ DOMAIN NoPass.groups = {}
  <1>1. [l \in {} |-> {}] \in [1 .. 0 -> SUBSET Findings]
    OBVIOUS
  <1>2. [l \in {} |-> {}] \in LaneAnswers
    BY <1>1 DEF LaneAnswers
  <1>3. NoPass.groups = [l \in {} |-> {}] /\ NoPass.at = "none"
    BY DEF NoPass
  <1>4. \A g \in LaneAnswers :
          [at |-> "none", round |-> 0, groups |-> g, carried |-> {}, green |-> FALSE, findings |-> {},
           read |-> 0, before |-> 0, strays |-> FALSE, last |-> {}, phase |-> "none"] \in Passes
    BY DEF Passes, PassSteps, Phases
  <1>5. NoPass \in Passes
    BY <1>2, <1>4 DEF NoPass
  <1> QED BY <1>2, <1>3, <1>5

\* The stage starts on a green candidate.
LEMMA LaneCount == ASSUME NEW m \in 0 .. 3 PROVE Cardinality(1 .. m) = m
  <1>1. m \in Int /\ 1 \in Int
    OBVIOUS
  <1>2. Cardinality(1 .. m) = IF 1 > m THEN 0 ELSE m - 1 + 1
    BY <1>1, FS_Interval
  <1> QED BY <1>1, <1>2

\* A review starts on the first version, whose suite is green.
LEMMA AnnealStart == AnnealInit => AnnealInv
  <1> SUFFICES ASSUME AnnealInit PROVE AnnealInv
    OBVIOUS
  <1>1. /\ version = 1 /\ pass = NoPass /\ outcome.status = "none" /\ greenOf = [v \in {1} |-> TRUE]
        /\ \E d \in CodeDecided : decided = [v \in {1} |-> d]
    BY DEF AnnealInit, NoOutcome
  <1>2. DOMAIN decided = 1 .. 1 /\ DOMAIN greenOf = 1 .. 1 /\ version \in 1 .. 1 /\ \A v \in DOMAIN decided : decided[v] \in CodeDecided
    BY <1>1
  <1>3. AnnealTypeOK
    BY <1>1, <1>2, NoPassTyped DEF AnnealTypeOK
  <1> QED BY <1>1, <1>3, NoPassTyped DEF AnnealInv, HeadIsKnown, ConcludesOnHead, OnRecord, OkIsOfHead

\* A stage that ends leaves the code and the record it makes.
LEMMA StageEnds ==
  ASSUME AnnealInv, pass' = NoPass, UNCHANGED source, OkIsOfHead'
  PROVE  AnnealInv'
  <1>1. pass' \in Passes /\ pass'.at = "none"
    BY NoPassTyped
  <1>2. UNCHANGED <<version, fenced, greenOf, decided, tested>>
    BY DEF source
  <1>3. AnnealTypeOK'
    BY <1>1, <1>2 DEF AnnealInv, AnnealTypeOK
  <1> QED BY <1>1, <1>3 DEF AnnealInv, HeadIsKnown, ConcludesOnHead, OnRecord

\* A step of a running pass, from the facts about it.
LEMMA PassGoesOn ==
  ASSUME AnnealInv, pass.at # "none", AnnealTypeOK', HeadIsKnown', ConcludesOnHead', UNCHANGED outcome
  PROVE  AnnealInv'
  BY DEF AnnealInv, OnRecord, OkIsOfHead

\* The pass that goes on to the next round.
LEMMA NextRoundTyped ==
  ASSUME pass \in Passes, NEW b \in BOOLEAN
  PROVE  NextRound(b) \in Passes /\ NextRound(b).at = "lanes"
  <1> DEFINE c == IF b THEN {F("tests", "blocker")} ELSE {}
  <1>1. c \in SUBSET Findings
    BY DEF Findings, Severities, F
  <1>2. NoPass.groups \in LaneAnswers
    BY NoPassTyped
  <1>3. (~b) \in BOOLEAN
    OBVIOUS
  <1>4. NextRound(b) = [pass EXCEPT !.at = "lanes", !.round = @ + 1, !.groups = NoPass.groups, !.green = ~b, !.carried = c]
    BY DEF NextRound
  <1> HIDE DEF c
  <1>5. pass.round + 1 \in Nat /\ "lanes" \in PassSteps
    BY DEF Passes, PassSteps
  <1> QED BY <1>1, <1>2, <1>3, <1>4, <1>5 DEF Passes

\* Every step of the stage preserves the invariant.
LEMMA AnnealStep == AnnealInv /\ [AnnealNext]_anVars => AnnealInv'
  <1> SUFFICES ASSUME AnnealInv, [AnnealNext]_anVars PROVE AnnealInv'
    OBVIOUS
  <1>1. AnnealTypeOK /\ HeadIsKnown /\ ConcludesOnHead /\ OnRecord /\ OkIsOfHead /\ pass \in Passes
    BY DEF AnnealInv, AnnealTypeOK
  <1>2. PICK n \in Nat \ {0} :
          /\ DOMAIN decided = 1 .. n /\ DOMAIN greenOf = 1 .. n /\ version \in 1 .. n
          /\ pass.at \in {"fence", "test", "restore"} => pass.before \in 1 .. n
    BY <1>1 DEF AnnealTypeOK
  <1>3. \A v \in DOMAIN decided : decided[v] \in CodeDecided
    BY <1>1 DEF AnnealTypeOK
  <1>4. ASSUME UNCHANGED <<decided, greenOf>>, pass' \in Passes, version' \in 1 .. n,
               pass'.at \in {"fence", "test", "restore"} => pass'.before \in 1 .. n
        PROVE  AnnealTypeOK'
    BY <1>2, <1>3, <1>4 DEF AnnealTypeOK
  <1>5. ASSUME NEW s \in PassSteps, pass' = [pass EXCEPT !.at = s]
        PROVE  pass' \in Passes /\ pass'.at = s /\ pass'.before = pass.before
    BY <1>1, <1>5 DEF Passes
  <1>6. CASE BeginReview
    <2> DEFINE red == tested # version /\ ~greenOf[version]
               c == IF red THEN {F("tests", "blocker")} ELSE {}
    <2>1. /\ pass.at = "none" /\ outcome.status \notin {"ok", "blocked"} /\ version = fenced /\ tested' = version
          /\ pass' = [NoPass EXCEPT !.at = "lanes", !.green = ~red, !.carried = c]
          /\ UNCHANGED <<version, fenced, greenOf, decided, outcome, cuts>>
      BY <1>6 DEF BeginReview
    <2>2. c \in SUBSET Findings /\ (~red) \in BOOLEAN
      BY DEF Findings, Severities, F
    <2> HIDE DEF c, red
    <2>3. pass' \in Passes /\ pass'.at = "lanes"
      BY <2>1, <2>2, NoPassTyped DEF Passes, PassSteps
    <2>4. AnnealTypeOK'
      BY <1>2, <1>4, <2>1, <2>3
    <2> QED BY <1>1, <2>1, <2>3, <2>4 DEF AnnealInv, HeadIsKnown, ConcludesOnHead, OnRecord, OkIsOfHead
  <1>7. ASSUME NEW found \in SUBSET Findings, Lane(found) PROVE AnnealInv'
    <2> DEFINE l == Cardinality(DOMAIN pass.groups) + 1
               g == [k \in 1 .. l |-> IF k = l THEN found ELSE pass.groups[k]]
    <2>1. pass.at = "lanes" /\ l \in LANES /\ pass' = [pass EXCEPT !.groups = g]
          /\ UNCHANGED <<version, fenced, greenOf, decided, tested, outcome>>
      BY <1>7 DEF Lane, source
    <2>2. PICK m \in 0 .. 3 : pass.groups \in [1 .. m -> SUBSET Findings]
      BY <1>1 DEF Passes, LaneAnswers
    <2>3. Cardinality(1 .. m) = m
      BY <2>2, LaneCount
    <2>4. l = m + 1 /\ l \in 0 .. 3
      BY <2>1, <2>2, <2>3 DEF LANES
    <2>5. g \in [1 .. l -> SUBSET Findings]
      BY <2>2, <2>4
    <2> HIDE DEF l
    <2>6. g \in LaneAnswers
      BY <2>4, <2>5 DEF LaneAnswers
    <2> HIDE DEF g
    <2>7. pass' \in Passes /\ pass'.at = "lanes"
      BY <1>1, <2>1, <2>6 DEF Passes
    <2>8. AnnealTypeOK'
      BY <1>2, <1>4, <2>1, <2>7
    <2>9. HeadIsKnown' /\ ConcludesOnHead'
      BY <1>1, <2>1, <2>7 DEF HeadIsKnown, ConcludesOnHead
    <2> QED BY <2>1, <2>8, <2>9, PassGoesOn
  <1>8. CASE FanIn
    <2> DEFINE spoken == UNION {pass.groups[l] : l \in LANES}
               all == (UNION {pass.groups[l] : l \in LANES}) \cup decided[version] \cup pass.carried
               fs == MergeFindings(all)
               signature == Actionable(fs)
               exhausted == pass.round = AnnealFixes
               stops == Crystallized(fs, pass.green) \/ exhausted \/ Repairable(signature) = {}
               at == IF stops THEN "conclude" ELSE "fix"
               last == IF stops THEN pass.last ELSE signature
               phase == AnnealPhase(fs, pass.green, signature # {} /\ signature = pass.last, exhausted)
    <2>1. /\ pass.at = "lanes" /\ DOMAIN pass.groups = LANES
          /\ pass' = [pass EXCEPT !.at = at, !.findings = fs, !.read = version, !.last = last, !.phase = phase]
          /\ UNCHANGED <<version, fenced, greenOf, decided, tested, outcome>>
      BY <1>8 DEF FanIn, source
    <2>2. Raised(pass.groups) \in SUBSET Findings
      BY <1>1 DEF Passes, LaneAnswers, Raised
    <2>a. spoken = Raised(pass.groups)
      BY <2>1 DEF Raised
    <2>b. all = spoken \cup decided[version] \cup pass.carried
      BY Zenon
    <2> HIDE DEF spoken, all
    <2>3. all = Raised(pass.groups) \cup decided[version] \cup pass.carried
      BY <2>a, <2>b
    <2>4. decided[version] \in CodeDecided
      BY <1>2, <1>3
    <2>5. all \in SUBSET Findings
      BY <1>1, <2>2, <2>3, <2>4, DecidedActionable DEF Passes
    <2> HIDE DEF all
    <2>6. fs \in SUBSET Findings /\ signature \in SUBSET Findings
      BY <2>5 DEF MergeFindings, Actionable
    <2>7. Actionable(fs) = {} => decided[version] = {} /\ Actionable(Raised(pass.groups)) = {}
      <3> SUFFICES ASSUME Actionable(fs) = {} PROVE decided[version] = {} /\ Actionable(Raised(pass.groups)) = {}
        OBVIOUS
      <3>1. Actionable(all) = {}
        BY <2>5, MergeKeepsActionable
      <3>2. Actionable(decided[version]) = {} /\ Actionable(Raised(pass.groups)) = {}
        BY <2>3, <3>1 DEF Actionable
      <3> QED BY <2>4, <3>2, DecidedActionable
    <2>8. at \in {"conclude", "fix"} /\ phase \in Phases
      BY DEF AnnealPhase, Phases
    <2> HIDE DEF fs, signature, stops, exhausted, at, phase
    <2>9. last \in SUBSET Findings
      BY <1>1, <2>6 DEF Passes
    <2> HIDE DEF last
    <2>10. version \in Nat
      BY <1>2
    <2>11. pass' \in Passes /\ pass'.at = at /\ pass'.read = version /\ pass'.findings = fs /\ pass'.groups = pass.groups
      BY <1>1, <2>1, <2>6, <2>8, <2>9, <2>10 DEF Passes, PassSteps
    <2>12. AnnealTypeOK'
      BY <1>2, <1>4, <2>1, <2>8, <2>11
    <2>13. HeadIsKnown' /\ ConcludesOnHead'
      BY <1>1, <2>1, <2>7, <2>8, <2>11 DEF HeadIsKnown, ConcludesOnHead
    <2> QED BY <2>1, <2>12, <2>13, PassGoesOn
  <1>9. ASSUME NEW green \in BOOLEAN, NEW says \in CodeDecided, Fix(green, says) PROVE AnnealInv'
    <2>1. /\ pass.at = "fix" /\ UNCHANGED <<fenced, tested, outcome>>
          /\ pass' = [pass EXCEPT !.at = "fence", !.before = version, !.groups = NoPass.groups, !.findings = {}]
      BY <1>9 DEF Fix
    <2>2. NoPass.groups \in LaneAnswers /\ version \in Nat
      BY <1>2, NoPassTyped
    <2>3. pass' \in Passes /\ pass'.at = "fence" /\ pass'.before = version
      BY <1>1, <2>1, <2>2 DEF Passes, PassSteps
    <2>4. AnnealTypeOK'
      <3>1. CASE UNCHANGED <<version, greenOf, decided>>
        BY <1>2, <1>4, <2>3, <3>1
      <3>2. CASE /\ version' = Cardinality(DOMAIN greenOf) + 1
                 /\ greenOf' = [v \in 1 .. version' |-> IF v = version' THEN green ELSE greenOf[v]]
                 /\ decided' = [v \in 1 .. version' |-> IF v = version' THEN says ELSE decided[v]]
        <4>1. version' = n + 1 /\ version' \in Nat \ {0}
          <5>1. Cardinality(1 .. n) = n
            BY <1>2, FS_Interval
          <5> QED BY <1>2, <3>2, <5>1
        <4>2. DOMAIN decided' = 1 .. version' /\ DOMAIN greenOf' = 1 .. version'
          BY <3>2
        <4>3. \A v \in DOMAIN decided' : decided'[v] \in CodeDecided
          BY <1>2, <1>3, <3>2, <4>1
        <4>4. version' \in 1 .. version' /\ pass'.before \in 1 .. version'
          BY <1>2, <2>3, <4>1
        <4> QED BY <2>3, <4>1, <4>2, <4>3, <4>4 DEF AnnealTypeOK
      <3> QED BY <1>9, <3>1, <3>2 DEF Fix
    <2>5. HeadIsKnown' /\ ConcludesOnHead'
      BY <2>3 DEF HeadIsKnown, ConcludesOnHead
    <2> QED BY <2>1, <2>4, <2>5, PassGoesOn
  <1>10. CASE FenceFix
    <2>1. /\ pass.at = "fence" /\ fenced' = version /\ UNCHANGED <<version, greenOf, decided, tested, outcome>>
          /\ \/ pass' = [pass EXCEPT !.at = "test"]
             \/ pass' = [pass EXCEPT !.at = "restore", !.strays = TRUE]
      BY <1>10 DEF FenceFix
    <2>2. pass' \in Passes /\ pass'.at \in {"test", "restore"} /\ pass'.before = pass.before
      BY <1>1, <2>1 DEF Passes, PassSteps
    <2>3. AnnealTypeOK'
      BY <1>2, <1>4, <2>1, <2>2
    <2>4. HeadIsKnown' /\ ConcludesOnHead'
      BY <2>1, <2>2 DEF HeadIsKnown, ConcludesOnHead
    <2> QED BY <2>1, <2>3, <2>4, PassGoesOn
  <1>11. CASE TestFix
    <2>1. /\ pass.at = "test" /\ tested' = version /\ UNCHANGED <<version, fenced, greenOf, decided, outcome, cuts>>
          /\ pass' = NextRound(FALSE) \/ pass' = NextRound(TRUE) \/ pass' = [pass EXCEPT !.at = "restore"]
      BY <1>11 DEF TestFix
    <2>2. pass' \in Passes /\ (pass'.at = "lanes" \/ (pass'.at = "restore" /\ pass'.before = pass.before))
      <3>1. CASE pass' = NextRound(FALSE) \/ pass' = NextRound(TRUE)
        BY <1>1, <3>1, NextRoundTyped
      <3>2. CASE pass' = [pass EXCEPT !.at = "restore"]
        BY <1>5, <3>2 DEF PassSteps
      <3> QED BY <2>1, <3>1, <3>2
    <2>3. AnnealTypeOK'
      BY <1>2, <1>4, <2>1, <2>2
    <2>4. HeadIsKnown' /\ ConcludesOnHead'
      BY <1>1, <2>1, <2>2 DEF HeadIsKnown, ConcludesOnHead
    <2> QED BY <2>1, <2>3, <2>4, PassGoesOn
  <1>12. CASE RestoreFix
    <2>1. /\ pass.at = "restore" /\ version' = pass.before /\ pass' = [pass EXCEPT !.at = "refence"]
          /\ UNCHANGED <<fenced, greenOf, decided, tested, outcome>>
      BY <1>12 DEF RestoreFix
    <2>2. pass' \in Passes /\ pass'.at = "refence"
      BY <1>5, <2>1 DEF PassSteps
    <2>3. AnnealTypeOK'
      BY <1>2, <1>4, <2>1, <2>2
    <2>4. HeadIsKnown' /\ ConcludesOnHead'
      BY <2>2 DEF HeadIsKnown, ConcludesOnHead
    <2> QED BY <2>1, <2>3, <2>4, PassGoesOn
  <1>13. CASE RefenceFix
    <2>1. /\ pass.at = "refence" /\ fenced' = version /\ UNCHANGED <<version, greenOf, decided, tested, outcome>>
          /\ pass' = [pass EXCEPT !.at = "raise"] \/ pass' = [pass EXCEPT !.at = "retest"]
      BY <1>13 DEF RefenceFix
    <2>2. pass' \in Passes /\ pass'.at \in {"raise", "retest"}
      BY <1>5, <2>1 DEF PassSteps
    <2>3. AnnealTypeOK'
      BY <1>2, <1>4, <2>1, <2>2
    <2>4. HeadIsKnown' /\ ConcludesOnHead'
      BY <2>1, <2>2 DEF HeadIsKnown, ConcludesOnHead
    <2> QED BY <2>1, <2>3, <2>4, PassGoesOn
  <1>14. CASE RetestFix
    <2>1. /\ pass.at = "retest" /\ tested' = version /\ pass' = NextRound(TRUE)
          /\ UNCHANGED <<version, fenced, greenOf, decided, outcome>>
      BY <1>14 DEF RetestFix
    <2>2. pass' \in Passes /\ pass'.at = "lanes"
      BY <1>1, <2>1, NextRoundTyped
    <2>3. AnnealTypeOK'
      BY <1>2, <1>4, <2>1, <2>2
    <2>4. HeadIsKnown' /\ ConcludesOnHead'
      BY <1>1, <2>1, <2>2 DEF HeadIsKnown, ConcludesOnHead
    <2> QED BY <2>1, <2>3, <2>4, PassGoesOn
  <1>15. CASE ConcludeReview
    <2>1. /\ pass.at = "conclude" /\ pass' = NoPass /\ UNCHANGED source
          /\ outcome' = [status |-> IF Crystallized(pass.findings, pass.green) THEN "ok" ELSE "blocked",
                         of |-> pass.read, phase |-> pass.phase, raised |-> Raised(pass.groups)]
      BY <1>15 DEF ConcludeReview, Raised
    <2>2. version = fenced /\ tested = version /\ pass.read = version
      BY <1>1, <2>1 DEF HeadIsKnown, ConcludesOnHead
    <2>3. outcome'.status = "ok" => decided[version] = {} /\ Actionable(Raised(pass.groups)) = {}
      BY <1>1, <2>1 DEF ConcludesOnHead, Crystallized
    <2>4. outcome'.of = pass.read /\ outcome'.raised = Raised(pass.groups) /\ UNCHANGED <<version, fenced, greenOf, decided, tested>>
      BY <2>1 DEF source
    <2>5. OkIsOfHead'
      BY <2>2, <2>3, <2>4 DEF OkIsOfHead, Actionable
    <2> QED BY <2>1, <2>5, StageEnds
  <1>16. CASE AnnealRaises
    <2>1. pass' = NoPass /\ UNCHANGED source /\ outcome'.status = "failed"
      BY <1>16 DEF AnnealRaises, NoOutcome
    <2> QED BY <2>1, StageEnds DEF OkIsOfHead
  <1>17. CASE CutReview
    <2>1. pass' = NoPass /\ UNCHANGED <<version, fenced, greenOf, decided, tested, outcome>> /\ UNCHANGED source
      BY <1>17 DEF CutReview, source
    <2> QED BY <1>1, <2>1, StageEnds DEF OkIsOfHead
  <1>18. CASE Lane({}) \/ \E s \in Severities : Lane({F(LaneKey, s)})
    <2>1. \A s \in Severities : {F(LaneKey, s)} \in SUBSET Findings
      BY DEF F, LaneKey, Findings
    <2> QED BY <1>7, <1>18, <2>1
  <1>19. CASE UNCHANGED anVars
    BY <1>1, <1>19 DEF anVars, AnnealInv, AnnealTypeOK, HeadIsKnown, ConcludesOnHead, OnRecord, OkIsOfHead
  <1> QED
    BY <1>6, <1>8, <1>9, <1>10, <1>11, <1>12, <1>13, <1>14, <1>15, <1>16, <1>17, <1>18, <1>19 DEF AnnealNext

\* Whatever the lanes find, the fixes change and wherever the stage is killed, a review on record as ok is of
\* the code HEAD is at, in which neither code nor any lane found something to repair.
THEOREM AnnealedOkIsOfHead == AnnealSpec => []OkIsOfHead
  <1>1. AnnealInv => OkIsOfHead
    BY DEF AnnealInv
  <1> QED
    BY <1>1, AnnealStart, AnnealStep, PTL DEF AnnealSpec

------------------------------------------------------------------------------
\* The adaptive search.

\* Induction along an interval, over the set of the numbers for which something holds.
LEMMA IntervalInduction ==
  ASSUME NEW n \in Nat, NEW T, 0 \in T, \A i \in 1 .. n : i - 1 \in T => i \in T
  PROVE  \A i \in 0 .. n : i \in T
<1>. DEFINE U == {i \in 0 .. n : i \notin T}
<1>1. SUFFICES ASSUME U # {} PROVE FALSE
  OBVIOUS
<1>2. PICK i \in U : \A k \in U : i <= k
  <2>1. U \in SUBSET Nat
    OBVIOUS
  <2>. HIDE DEF U
  <2>. QED BY <1>1, <2>1, LeastNatural
<1>3. i \in 1 .. n /\ i - 1 \in 0 .. n /\ i - 1 \notin U
  BY <1>2
<1>. QED BY <1>2, <1>3

\* A step from each number of an interval to the next, and the function it defines.
StepsOn(n, S) == [1 .. n -> [S -> S]]
Recurs(f, n, S, base, step) == f \in [0 .. n -> S] /\ f[0] = base /\ \A i \in 1 .. n : f[i] = step[i][f[i - 1]]

\* That function exists.
LEMMA RecursionExists ==
  ASSUME NEW n \in Nat, NEW S, NEW base \in S, NEW step \in StepsOn(n, S)
  PROVE  \E f : Recurs(f, n, S, base, step)
<1>. USE DEF StepsOn
<1>. DEFINE Is(f, m) == f[0] = base /\ \A i \in 1 .. m : f[i] = step[i][f[i - 1]]
            T == {m \in Nat : \E f \in [0 .. m -> S] : Is(f, m)}
<1>1. 0 \in T
  <2>1. Is([i \in 0 .. 0 |-> base], 0) /\ [i \in 0 .. 0 |-> base] \in [0 .. 0 -> S]
    OBVIOUS
  <2>. HIDE DEF Is
  <2>. QED BY <2>1
<1>2. ASSUME NEW m \in 1 .. n, m - 1 \in T PROVE m \in T
  <2>1. PICK f \in [0 .. m - 1 -> S] : Is(f, m - 1)
    BY <1>2
  <2>. DEFINE g == [i \in 0 .. m |-> IF i = m THEN step[m][f[m - 1]] ELSE f[i]]
  <2>2. \A i \in 0 .. m - 1 : i \in 0 .. m /\ i # m /\ f[i] \in S
    BY <1>2
  <2>3. m - 1 \in 0 .. m - 1 /\ m \in Nat /\ m \in 0 .. m
    BY <1>2
  <2>4. \A i \in 0 .. m - 1 : g[i] = f[i]
    BY <2>2
  <2>5. g[m] = step[m][g[m - 1]] /\ g[m] \in S
    BY <2>2, <2>3, <2>4, <1>2
  <2>6. g \in [0 .. m -> S]
    BY <2>2, <2>3, <2>5, <1>2
  <2>. HIDE DEF g
  <2>7. g[0] = base
    BY <2>1, <2>4, <1>2
  <2>8. ASSUME NEW i \in 1 .. m PROVE g[i] = step[i][g[i - 1]]
    <3>1. CASE i = m
      BY <3>1, <2>5
    <3>2. CASE i # m
      <4>1. i \in 1 .. m - 1 /\ i \in 0 .. m - 1 /\ i - 1 \in 0 .. m - 1
        BY <3>2, <2>3, <2>8
      <4>. QED BY <4>1, <2>1, <2>4
    <3>. QED BY <3>1, <3>2
  <2>9. Is(g, m)
    BY <2>7, <2>8
  <2>. HIDE DEF Is
  <2>. QED BY <2>3, <2>6, <2>9
<1>. HIDE DEF T
<1>3. n \in T
  <2>1. \A i \in 0 .. n : i \in T
    BY <1>1, <1>2, IntervalInduction
  <2>. QED BY <2>1
<1>4. PICK f \in [0 .. n -> S] : Is(f, n)
  BY <1>3 DEF T
<1>. QED BY <1>4 DEF Recurs

-----------------------------------------------------------------------------
(* Sums along a sequence.                                                  *)

\* A sum is the last of the partial sums.
LEMMA SumUpto ==
  ASSUME NEW n \in Nat, NEW f \in [1 .. n -> Nat]
  PROVE  \E c \in [0 .. n -> Nat] : c[0] = 0 /\ (\A i \in 1 .. n : c[i] = c[i - 1] + f[i]) /\ SumOf(f) = c[n]
<1>. DEFINE step == [i \in 1 .. n |-> [x \in Nat |-> x + f[i]]]
            R(c) == c = [i \in 0 .. n |-> IF i = 0 THEN 0 ELSE c[i - 1] + f[i]]
            d == CHOOSE c : R(c)
<1>1. Len(f) = n
  <2>1. f \in Seq(Nat)
    OBVIOUS
  <2>. QED BY <2>1
<1>2. step \in StepsOn(n, Nat)
  BY DEF StepsOn
<1>3. \A i \in 1 .. n, x \in Nat : step[i][x] = x + f[i]
  OBVIOUS
<1>. HIDE DEF step
<1>4. PICK g : g \in [0 .. n -> Nat] /\ g[0] = 0 /\ \A i \in 1 .. n : g[i] = step[i][g[i - 1]]
  <2>1. 0 \in Nat
    OBVIOUS
  <2>2. PICK g : Recurs(g, n, Nat, 0, step)
    BY <1>2, <2>1, RecursionExists
  <2>. QED BY <2>2 DEF Recurs
<1>5. \A i \in 1 .. n : i - 1 \in 0 .. n /\ g[i - 1] \in Nat
  BY <1>4
<1>6. \A i \in 1 .. n : g[i] = g[i - 1] + f[i]
  BY <1>3, <1>4, <1>5
<1>7. \A i \in 0 .. n : g[i] = IF i = 0 THEN 0 ELSE g[i - 1] + f[i]
  BY <1>4, <1>6
<1>8. R(g)
  BY <1>4, <1>7
<1>9. R(d)
  BY <1>8
<1>10. SumOf(f) = d[n]
  BY <1>1 DEF SumOf
<1>. HIDE DEF d
<1>11. \A i \in 0 .. n : d[i] = IF i = 0 THEN 0 ELSE d[i - 1] + f[i]
  BY <1>9
<1>17. d = [i \in 0 .. n |-> d[i]]
  BY <1>9
<1>. DEFINE T == {i \in 0 .. n : d[i] \in Nat}
<1>12. ASSUME NEW i \in 1 .. n, i - 1 \in T PROVE i \in T
  <2>1. d[i] = d[i - 1] + f[i] /\ d[i - 1] \in Nat /\ f[i] \in Nat
    <3>1. i \in 0 .. n /\ i # 0
      BY <1>12
    <3>2. d[i] = d[i - 1] + f[i]
      BY <1>11, <3>1
    <3>. QED BY <1>12, <3>2
  <2>. QED BY <2>1
<1>13. 0 \in T
  BY <1>11
<1>. HIDE DEF T
<1>14. \A i \in 0 .. n : i \in T
  BY <1>12, <1>13, IntervalInduction
<1>15. d \in [0 .. n -> Nat]
  BY <1>17, <1>14 DEF T
<1>16. d[0] = 0 /\ \A i \in 1 .. n : d[i] = d[i - 1] + f[i]
  <2>1. 0 \in 0 .. n /\ \A i \in 1 .. n : i \in 0 .. n /\ i # 0
    OBVIOUS
  <2>. QED BY <1>11, <2>1
<1>. QED BY <1>10, <1>15, <1>16

\* A sum of naturals is one.
LEMMA SumType ==
  ASSUME NEW n \in Nat, NEW f \in [1 .. n -> Nat]
  PROVE  SumOf(f) \in Nat /\ (n = 0 => SumOf(f) = 0)
<1>1. PICK c \in [0 .. n -> Nat] : c[0] = 0 /\ SumOf(f) = c[n]
  BY SumUpto
<1>. QED BY <1>1

\* One term more adds its value.
LEMMA SumExtends ==
  ASSUME NEW n \in Nat, NEW f \in [1 .. n -> Nat], NEW g \in [1 .. n + 1 -> Nat], \A i \in 1 .. n : g[i] = f[i]
  PROVE  SumOf(g) = SumOf(f) + g[n + 1]
<1>1. PICK c \in [0 .. n -> Nat] : c[0] = 0 /\ (\A i \in 1 .. n : c[i] = c[i - 1] + f[i]) /\ SumOf(f) = c[n]
  BY SumUpto
<1>2. PICK d \in [0 .. n + 1 -> Nat] :
        d[0] = 0 /\ (\A i \in 1 .. n + 1 : d[i] = d[i - 1] + g[i]) /\ SumOf(g) = d[n + 1]
  <2>1. n + 1 \in Nat
    OBVIOUS
  <2>. QED BY <2>1, SumUpto, Zenon
<1>. DEFINE T == {i \in 0 .. n : c[i] = d[i]}
<1>3. ASSUME NEW i \in 1 .. n, i - 1 \in T PROVE i \in T
  BY <1>1, <1>2, <1>3
<1>4. 0 \in T
  BY <1>1, <1>2
<1>. HIDE DEF T
<1>5. n \in T
  <2>1. \A i \in 0 .. n : i \in T
    BY <1>3, <1>4, IntervalInduction
  <2>. QED BY <2>1
<1>. QED BY <1>1, <1>2, <1>5 DEF T

-----------------------------------------------------------------------------
(* The elements of a sequence that are kept.                               *)

\* What is kept of one more element.
KeepOne(t, x, T) == IF x \in T THEN Append(t, x) ELSE t

\* c lists what is kept of every prefix of s, from none of it to all of it.
KeptUpto(c, n, S, s, T) ==
  /\ \A i \in 0 .. n : c[i] \in Seq(S)
  /\ c[0] = <<>> /\ (\A i \in 1 .. n : c[i] = KeepOne(c[i - 1], s[i], T)) /\ Keep(s, T) = c[n]

\* What is kept is the last of what is kept of the prefixes.
LEMMA KeepUpto ==
  ASSUME NEW n \in Nat, NEW S, NEW s \in [1 .. n -> S], NEW T
  PROVE  \E c : KeptUpto(c, n, S, s, T)
<1>. DEFINE step == [i \in 1 .. n |-> [t \in Seq(S) |-> KeepOne(t, s[i], T)]]
            R(c) == c = [i \in 0 .. n |-> IF i = 0 THEN <<>> ELSE IF s[i] \in T THEN Append(c[i - 1], s[i]) ELSE c[i - 1]]
            d == CHOOSE c : R(c)
<1>1. Len(s) = n
  <2>1. s \in Seq(S)
    OBVIOUS
  <2>. QED BY <2>1
<1>0. ASSUME NEW i \in 1 .. n, NEW t \in Seq(S) PROVE KeepOne(t, s[i], T) \in Seq(S)
  <2>1. s[i] \in S
    OBVIOUS
  <2>2. Append(t, s[i]) \in Seq(S)
    BY <2>1
  <2>. QED BY <2>2 DEF KeepOne
<1>2. step \in StepsOn(n, Seq(S))
  BY <1>0 DEF StepsOn
<1>3. \A i \in 1 .. n, t \in Seq(S) : step[i][t] = KeepOne(t, s[i], T)
  OBVIOUS
<1>. HIDE DEF step
<1>4. PICK g : g \in [0 .. n -> Seq(S)] /\ g[0] = <<>> /\ \A i \in 1 .. n : g[i] = step[i][g[i - 1]]
  <2>1. <<>> \in Seq(S)
    OBVIOUS
  <2>2. PICK g : Recurs(g, n, Seq(S), <<>>, step)
    BY <1>2, <2>1, RecursionExists
  <2>. QED BY <2>2 DEF Recurs
<1>5. \A i \in 1 .. n : i - 1 \in 0 .. n /\ g[i - 1] \in Seq(S)
  BY <1>4
<1>6. \A i \in 1 .. n : g[i] = KeepOne(g[i - 1], s[i], T)
  BY <1>3, <1>4, <1>5
<1>7. \A i \in 0 .. n : g[i] = IF i = 0 THEN <<>> ELSE IF s[i] \in T THEN Append(g[i - 1], s[i]) ELSE g[i - 1]
  <2>1. \A i \in 0 .. n : i # 0 => i \in 1 .. n
    OBVIOUS
  <2>2. \A t, x : KeepOne(t, x, T) = IF x \in T THEN Append(t, x) ELSE t
    BY DEF KeepOne
  <2>3. \A i \in 0 .. n : g[i] = IF i = 0 THEN <<>> ELSE KeepOne(g[i - 1], s[i], T)
    BY <1>4, <1>6, <2>1
  <2>. QED BY <2>2, <2>3, Zenon
<1>8. R(g)
  BY <1>4, <1>7
<1>9. R(d)
  BY <1>8
<1>10. Keep(s, T) = d[n]
  BY <1>1 DEF Keep
<1>. HIDE DEF d
<1>11. d[0] = <<>> /\ \A i \in 1 .. n : d[i] = KeepOne(d[i - 1], s[i], T)
  <2>1. 0 \in 0 .. n /\ \A i \in 1 .. n : i \in 0 .. n /\ i # 0
    OBVIOUS
  <2>2. \A i \in 0 .. n : d[i] = IF i = 0 THEN <<>> ELSE IF s[i] \in T THEN Append(d[i - 1], s[i]) ELSE d[i - 1]
    BY <1>9
  <2>. QED BY <2>1, <2>2 DEF KeepOne
<1>. HIDE DEF R
<1>. DEFINE U == {i \in 0 .. n : d[i] \in Seq(S)}
<1>12. ASSUME NEW i \in 1 .. n, i - 1 \in U PROVE i \in U
  <2>1. d[i - 1] \in Seq(S)
    BY <1>12
  <2>2. d[i] \in Seq(S)
    BY <2>1, <1>0, <1>11
  <2>. QED BY <2>2
<1>13. 0 \in U
  <2>1. d[0] \in Seq(S)
    BY <1>11
  <2>. QED BY <2>1
<1>. HIDE DEF U
<1>14. \A i \in 0 .. n : i \in U
  BY <1>12, <1>13, IntervalInduction
<1>15. \A i \in 0 .. n : d[i] \in Seq(S)
  BY <1>14 DEF U
<1>16. KeptUpto(d, n, S, s, T)
  BY <1>10, <1>11, <1>15 DEF KeptUpto
<1>. QED BY <1>16

\* What is kept comes from the sequence and is in the set, distinct when the sequence is, and begins as
\* the sequence does when that is kept.
KeptOf(t, s, i, T) ==
  /\ \A a \in 1 .. Len(t) : t[a] \in T /\ \E j \in 1 .. i : t[a] = s[j]
  /\ (\A j, k \in 1 .. i : s[j] = s[k] => j = k) => \A a, b \in 1 .. Len(t) : t[a] = t[b] => a = b
  /\ (i > 0 /\ s[1] \in T) => Len(t) > 0 /\ t[1] = s[1]

\* One more element leaves that so.
LEMMA KeptOfNext ==
  ASSUME NEW S, NEW t \in Seq(S), NEW i \in Nat, NEW s, s[i + 1] \in S, NEW T, KeptOf(t, s, i, T),
         i = 0 => t = <<>>
  PROVE  KeptOf(KeepOne(t, s[i + 1], T), s, i + 1, T)
<1>. DEFINE x == s[i + 1]
            u == Append(t, x)
<1>1. Len(t) \in Nat /\ Len(u) = Len(t) + 1 /\ u[Len(t) + 1] = x /\ \A a \in 1 .. Len(t) : u[a] = t[a]
  OBVIOUS
<1>. HIDE DEF u
<1>2. \A j : j \in 1 .. i + 1 <=> j \in 1 .. i \/ j = i + 1
  OBVIOUS
<1>3. /\ \A a \in 1 .. Len(t) : t[a] \in T /\ \E j \in 1 .. i : t[a] = s[j]
      /\ (\A j, k \in 1 .. i : s[j] = s[k] => j = k) => \A a, b \in 1 .. Len(t) : t[a] = t[b] => a = b
      /\ (i > 0 /\ s[1] \in T) => Len(t) > 0 /\ t[1] = s[1]
  BY DEF KeptOf
<1>4. \A j \in 1 .. i : j # i + 1
  OBVIOUS
<1>5. CASE x \notin T
  <2>1. KeepOne(t, x, T) = t
    BY <1>5 DEF KeepOne
  <2>2. i + 1 > 0 /\ (s[1] \in T => i > 0)
    BY <1>5
  <2>. QED BY <2>1, <2>2, <1>2, <1>3 DEF KeptOf
<1>6. CASE x \in T
  <2>1. KeepOne(t, x, T) = u
    BY <1>6 DEF KeepOne, u
  <2>2. \A a : a \in 1 .. Len(u) <=> a \in 1 .. Len(t) \/ a = Len(t) + 1
    BY <1>1
  <2>3. \A a \in 1 .. Len(u) : u[a] \in T /\ \E j \in 1 .. i + 1 : u[a] = s[j]
    BY <1>1, <1>2, <1>3, <1>6, <2>2
  <2>4. ASSUME \A j, k \in 1 .. i + 1 : s[j] = s[k] => j = k, NEW a \in 1 .. Len(u), NEW b \in 1 .. Len(u), u[a] = u[b]
        PROVE  a = b
    <3>1. \A c \in 1 .. Len(t) : t[c] # x
      BY <1>2, <1>3, <1>4, <2>4
    <3>2. \A c, e \in 1 .. Len(t) : t[c] = t[e] => c = e
      BY <1>2, <1>3, <2>4
    <3>. QED BY <1>1, <2>2, <2>4, <3>1, <3>2
  <2>5. s[1] \in T => Len(u) > 0 /\ u[1] = s[1]
    <3>1. CASE i = 0
      <4>1. Len(t) = 0
        BY <3>1
      <4>. QED BY <4>1, <1>1, <3>1
    <3>2. CASE i > 0
      <4>1. s[1] \in T => Len(t) > 0 /\ 1 \in 1 .. Len(t) /\ t[1] = s[1]
        BY <1>1, <1>3, <3>2
      <4>. QED BY <4>1, <1>1
    <3>. QED BY <3>1, <3>2
  <2>. QED BY <2>1, <2>3, <2>4, <2>5 DEF KeptOf
<1>. QED BY <1>5, <1>6

\* What Keep keeps.
LEMMA KeepFacts ==
  ASSUME NEW n \in Nat, NEW S, NEW s \in [1 .. n -> S], NEW T
  PROVE  Keep(s, T) \in Seq(S) /\ KeptOf(Keep(s, T), s, n, T)
<1>0. PICK c : KeptUpto(c, n, S, s, T)
  BY KeepUpto
<1>1. /\ \A i \in 0 .. n : c[i] \in Seq(S)
      /\ c[0] = <<>> /\ (\A i \in 1 .. n : c[i] = KeepOne(c[i - 1], s[i], T)) /\ Keep(s, T) = c[n]
  BY <1>0 DEF KeptUpto
<1>. DEFINE U == {i \in 0 .. n : KeptOf(c[i], s, i, T)}
<1>2. 0 \in U
  <2>1. Len(c[0]) = 0
    BY <1>1
  <2>. QED BY <2>1 DEF KeptOf
<1>3. ASSUME NEW i \in 1 .. n, i - 1 \in U PROVE i \in U
  <2>1. i - 1 \in Nat /\ i - 1 \in 0 .. n /\ (i - 1) + 1 = i /\ i \in 0 .. n
    OBVIOUS
  <2>2. c[i - 1] \in Seq(S) /\ KeptOf(c[i - 1], s, i - 1, T) /\ (i - 1 = 0 => c[i - 1] = <<>>)
    BY <1>1, <1>3, <2>1
  <2>3. s[(i - 1) + 1] \in S
    BY <2>1
  <2>4. KeptOf(KeepOne(c[i - 1], s[(i - 1) + 1], T), s, (i - 1) + 1, T)
    BY <2>1, <2>2, <2>3, KeptOfNext
  <2>5. KeptOf(c[i], s, i, T)
    BY <2>1, <2>4, <1>1
  <2>. QED BY <2>1, <2>5
<1>. HIDE DEF U
<1>4. \A i \in 0 .. n : i \in U
  BY <1>2, <1>3, IntervalInduction
<1>. QED BY <1>1, <1>4 DEF U

-----------------------------------------------------------------------------
(* The strategies in an order.                                             *)

\* The order of SortedBy: by the key, ties by name.
ComesBefore(a, b) == a[1] < b[1] \/ (a[1] = b[1] /\ a[2] < b[2])

\* It is a strict order, total on pairs of numbers.
LEMMA ComesBeforeIsTotal ==
  ASSUME NEW a \in Int \X Nat, NEW b \in Int \X Nat
  PROVE  /\ ~ComesBefore(a, a) /\ (a # b => ComesBefore(a, b) \/ ComesBefore(b, a))
         /\ \A c \in Int \X Nat : ComesBefore(c, a) /\ ComesBefore(a, b) => ComesBefore(c, b)
  BY DEF ComesBefore

\* An order lists strategies, each at most once, and at least one.
LEMMA SortedFacts ==
  ASSUME NEW key \in [Strategies -> Int]
  PROVE  \E n \in Nat \ {0} : /\ SortedBy(key) \in [1 .. n -> Strategies]
                              /\ \A i, j \in 1 .. n : SortedBy(key)[i] = SortedBy(key)[j] => i = j
<1>. DEFINE keyed     == {<<key[k], k>> : k \in Strategies}
            before(a) == {b \in keyed : b[1] < a[1] \/ (b[1] = a[1] /\ b[2] < a[2])}
            n         == Cardinality(keyed)
            pick(i)   == CHOOSE a \in keyed : Cardinality(before(a)) = i - 1
            s         == SortedBy(key)
<1>0. Strategies # {} /\ Strategies \subseteq Nat /\ IsFiniteSet(Strategies)
  BY SearchAssumption
<1>1. s = [i \in 1 .. n |-> pick(i)[2]]
  BY DEF SortedBy
<1>2. keyed \subseteq Int \X Nat /\ keyed # {} /\ \A a \in keyed : a[2] \in Strategies /\ a = <<key[a[2]], a[2]>>
  <2>1. \A a \in keyed : \E k \in Strategies : a = <<key[k], k>>
    OBVIOUS
  <2>2. keyed # {}
    BY <1>0
  <2>3. \A k \in Strategies : key[k] \in Int /\ k \in Nat
    BY <1>0
  <2>. HIDE DEF keyed
  <2>. QED BY <2>1, <2>2, <2>3
<1>3. IsFiniteSet(keyed)
  <2>. DEFINE f == [k \in Strategies |-> <<key[k], k>>]
  <2>1. f \in Surjection(Strategies, keyed)
    BY DEF Surjection
  <2>. QED BY <2>1, <1>0, FS_Surjection
<1>4. \A a : before(a) = {b \in keyed : ComesBefore(b, a)}
  BY DEF ComesBefore
<1>. DEFINE rank == [a \in keyed |-> Cardinality(before(a)) + 1]
<1>. HIDE DEF s, before, keyed, n
<1>5. n \in Nat /\ n # 0 /\ IsFiniteSet(1 .. n) /\ Cardinality(1 .. n) = n
  <2>1. n \in Nat /\ n # 0
    BY <1>2, <1>3, FS_CardinalityType, FS_EmptySet DEF n
  <2>2. 1 \in Int /\ n \in Int
    BY <2>1
  <2>3. IsFiniteSet(1 .. n) /\ Cardinality(1 .. n) = IF 1 > n THEN 0 ELSE n - 1 + 1
    BY <2>2, FS_Interval
  <2>. QED BY <2>1, <2>3
<1>6. ASSUME NEW a \in keyed
      PROVE  IsFiniteSet(before(a)) /\ Cardinality(before(a)) \in Nat /\ Cardinality(before(a)) < n
  <2>1. before(a) \in SUBSET keyed /\ before(a) # keyed
    <3>1. a \in Int \X Nat
      BY <1>2, <1>6
    <3>2. a \notin before(a)
      BY <3>1, <1>4, ComesBeforeIsTotal
    <3>. QED BY <3>2, <1>4, <1>6
  <2>2. IsFiniteSet(before(a)) /\ Cardinality(before(a)) <= n /\ Cardinality(before(a)) # n
    BY <2>1, <1>3, FS_Subset DEF n
  <2>3. Cardinality(before(a)) \in Nat
    BY <2>2, FS_CardinalityType
  <2>. QED BY <2>2, <2>3, <1>5
<1>7. ASSUME NEW a \in keyed, NEW b \in keyed, ComesBefore(a, b) PROVE rank[a] < rank[b]
  <2>0. a \in Int \X Nat /\ b \in Int \X Nat
    BY <1>2
  <2>1. ASSUME NEW c \in before(a) PROVE c \in before(b)
    <3>1. c \in keyed /\ c \in Int \X Nat /\ ComesBefore(c, a)
      BY <1>2, <1>4, <2>1
    <3>2. ComesBefore(c, b)
      BY <3>1, <2>0, <1>7, ComesBeforeIsTotal
    <3>. QED BY <3>1, <3>2, <1>4
  <2>2. a \in before(b) /\ a \notin before(a)
    BY <1>4, <1>7, <2>0, ComesBeforeIsTotal
  <2>3. before(a) \in SUBSET before(b) /\ before(a) # before(b)
    BY <2>1, <2>2
  <2>4. IsFiniteSet(before(b)) /\ Cardinality(before(a)) \in Nat /\ Cardinality(before(b)) \in Nat
    BY <1>6
  <2>5. Cardinality(before(a)) <= Cardinality(before(b)) /\ Cardinality(before(a)) # Cardinality(before(b))
    BY <2>3, <2>4, FS_Subset
  <2>. QED BY <2>4, <2>5
<1>8. \A a \in keyed : rank[a] = Cardinality(before(a)) + 1 /\ rank[a] \in 1 .. n
  BY <1>5, <1>6
<1>9. rank \in [keyed -> 1 .. n]
  BY <1>8
<1>. HIDE DEF rank
<1>10. rank \in Injection(keyed, 1 .. n)
  <2>1. ASSUME NEW a \in keyed, NEW b \in keyed, rank[a] = rank[b] PROVE a = b
    <3>1. a \in Int \X Nat /\ b \in Int \X Nat /\ rank[a] \in Nat
      BY <1>2, <1>5, <1>8
    <3>2. ~ComesBefore(a, b) /\ ~ComesBefore(b, a)
      BY <1>7, <2>1, <3>1
    <3>. QED BY <3>1, <3>2, ComesBeforeIsTotal
  <2>. QED BY <2>1, <1>9 DEF Injection, IsInjective
<1>11. rank \in Surjection(keyed, 1 .. n)
  BY <1>3, <1>5, <1>10, FS_Injection DEF n
<1>12. ASSUME NEW i \in 1 .. n PROVE pick(i) \in keyed /\ rank[pick(i)] = i
  <2>1. \E a \in keyed : rank[a] = i
    BY <1>11, <1>12 DEF Surjection
  <2>2. \E a \in keyed : Cardinality(before(a)) = i - 1
    BY <2>1, <1>6, <1>8
  <2>3. pick(i) \in keyed /\ Cardinality(before(pick(i))) = i - 1
    BY <2>2
  <2>. QED BY <2>3, <1>8
<1>. HIDE DEF pick
<1>13. ASSUME NEW i \in 1 .. n PROVE s[i] \in Strategies /\ pick(i) = <<key[s[i]], s[i]>>
  BY <1>1, <1>2, <1>12
<1>14. s \in [1 .. n -> Strategies]
  BY <1>1, <1>13
<1>15. ASSUME NEW i \in 1 .. n, NEW j \in 1 .. n, s[i] = s[j] PROVE i = j
  <2>1. pick(i) = pick(j)
    BY <1>13, <1>15
  <2>. QED BY <2>1, <1>12, <1>15
<1>. QED BY <1>5, <1>14, <1>15 DEF s

-----------------------------------------------------------------------------
(* Signals.                                                                *)

\* What a campaign says: rows for some of the strategies, and a winner or none.
Signals == [rows : UNION {[D -> Rows] : D \in SUBSET Strategies}, winner : {0} \cup Strategies]

\* A rate of whole numbers is one.
LEMMA RateType == \A n \in Int, d \in Nat : Rate(n, d) \in Int
  BY DEF Rate, Whole

\* A rate reaches a share when the count does.
LEMMA RateReaches ==
  ASSUME NEW n \in Int, NEW d \in Nat \ {0}, NEW k \in Int
  PROVE  Rate(n, d) >= k <=> n * 10000 >= k * d
  BY DEF Rate, Whole

\* Counting what a signal says.
LEMMA SignalCounts ==
  ASSUME NEW s \in Signals
  PROVE  /\ Cardinality(AnsweredIn(s)) \in Nat /\ Cardinality(OutputsIn(s)) \in Nat /\ Attempts(s) \in Nat
         /\ AnsweredIn(s) # {} => Cardinality(AnsweredIn(s)) # 0
         /\ Disagreement(s) \in Int /\ Novelty(s) \in Int /\ s.winner \in {0} \cup Strategies
<1>1. IsFiniteSet(Strategies)
  BY SearchAssumption
<1>2. DOMAIN s.rows \in SUBSET Strategies /\ s.winner \in {0} \cup Strategies
  <2>1. s.rows \in UNION {[D -> Rows] : D \in SUBSET Strategies} /\ s.winner \in {0} \cup Strategies
    BY DEF Signals
  <2>2. PICK D \in SUBSET Strategies : s.rows \in [D -> Rows]
    BY <2>1
  <2>. QED BY <2>1, <2>2
<1>3. AnsweredIn(s) \in SUBSET Strategies
  BY <1>2 DEF AnsweredIn
<1>4. IsFiniteSet(AnsweredIn(s)) /\ IsFiniteSet(DOMAIN s.rows)
  BY <1>1, <1>2, <1>3, FS_Subset
<1>5. IsFiniteSet(OutputsIn(s))
  <2>. DEFINE f == [k \in AnsweredIn(s) |-> s.rows[k].output]
  <2>1. f \in Surjection(AnsweredIn(s), OutputsIn(s))
    BY DEF Surjection, OutputsIn
  <2>. QED BY <2>1, <1>4, FS_Surjection
<1>6. /\ Cardinality(AnsweredIn(s)) \in Nat /\ Cardinality(OutputsIn(s)) \in Nat /\ Attempts(s) \in Nat
      /\ AnsweredIn(s) # {} => Cardinality(AnsweredIn(s)) # 0
  BY <1>4, <1>5, FS_CardinalityType, FS_EmptySet DEF Attempts
<1>7. Novelty(s) \in Int
  BY <1>6, RateType DEF Novelty
<1>8. Disagreement(s) \in Int
  <2>1. CASE Cardinality(AnsweredIn(s)) < 2
    BY <2>1 DEF Disagreement
  <2>2. CASE ~(Cardinality(AnsweredIn(s)) < 2)
    <3>1. Cardinality(AnsweredIn(s)) - 1 \in Nat /\ Cardinality(OutputsIn(s)) - 1 \in Int
      BY <2>2, <1>6
    <3>. QED BY <2>2, <3>1, RateType DEF Disagreement
  <2>. QED BY <2>1, <2>2
<1>. QED BY <1>2, <1>6, <1>7, <1>8

\* Answers of which fewer than half are new do not disagree by two thirds.
LEMMA FewOutputsAgree ==
  ASSUME NEW s \in Signals, AnsweredIn(s) # {}, Novelty(s) < Pc(50)
  PROVE  Disagreement(s) < Pc(66)
<1>. DEFINE a == Cardinality(AnsweredIn(s))
            o == Cardinality(OutputsIn(s))
<1>1. a \in Nat \ {0} /\ o \in Nat /\ Novelty(s) = Rate(o, a) /\ Novelty(s) \in Int /\ Disagreement(s) \in Int
  BY SignalCounts DEF Novelty
<1>2. Disagreement(s) = IF a < 2 THEN 0 ELSE Rate(o - 1, a - 1)
  BY DEF Disagreement
<1>3. Pc(50) = 5000 /\ Pc(66) = 6600
  BY DEF Pc
<1>. HIDE DEF a, o
<1>4. ~(o * 10000 >= 5000 * a)
  <2>1. ~(Rate(o, a) >= 5000)
    BY <1>1, <1>3
  <2>. QED BY <2>1, <1>1, RateReaches
<1>5. CASE a < 2
  BY <1>5, <1>2, <1>3
<1>6. CASE ~(a < 2)
  <2>1. a - 1 \in Nat \ {0} /\ o - 1 \in Int
    BY <1>1, <1>6
  <2>2. ~((o - 1) * 10000 >= 6600 * (a - 1))
    BY <1>1, <1>4, <1>6
  <2>3. ~(Rate(o - 1, a - 1) >= 6600)
    <3>. DEFINE x == o - 1
                y == a - 1
    <3>1. x \in Int /\ y \in Nat \ {0} /\ 6600 \in Int /\ ~(x * 10000 >= 6600 * y)
      BY <2>1, <2>2
    <3>. HIDE DEF x, y
    <3>2. ~(Rate(x, y) >= 6600)
      BY <3>1, RateReaches
    <3>. QED BY <3>2 DEF x, y
  <2>. QED BY <2>3, <1>1, <1>2, <1>3, <1>6
<1>. QED BY <1>5, <1>6

\* The law the last round gives, if any, is the posture of the next.
LEMMA LawIsPosture ==
  ASSUME NEW s \in Signals
  PROVE  \A l \in RoundLaw(s) : l = Posture(s)
<1>1. Disagreement(s) \in Int /\ Pc(25) = 2500 /\ Pc(66) = 6600
  BY SignalCounts DEF Pc
<1>2. AnsweredIn(s) # {} /\ Novelty(s) < Pc(50) => ~(Disagreement(s) >= Pc(66))
  BY <1>1, FewOutputsAgree
<1>3. Disagreement(s) >= Pc(66) => ~(Disagreement(s) <= Pc(25))
  BY <1>1
<1>. HIDE DEF Pc
<1>. QED BY <1>2, <1>3, Zenon DEF RoundLaw, Posture

\* Counting what the rounds say of a strategy.
LEMMA StrategyCounts ==
  ASSUME signals \in Seq(Signals), NEW k
  PROVE  /\ Cardinality(Tried(k)) \in Nat /\ Cardinality(AnsweredBy(k)) \in Nat
         /\ Cardinality(EvidenceBy(k)) \in Nat /\ Cardinality(RequiredBy(k)) \in Nat
         /\ AnsweredBy(k) # {} => Cardinality(AnsweredBy(k)) # 0
<1>1. DOMAIN signals = 1 .. Len(signals) /\ Len(signals) \in Nat
  OBVIOUS
<1>2. IsFiniteSet(DOMAIN signals)
  BY <1>1, FS_Interval
<1>3. /\ Tried(k) \in SUBSET DOMAIN signals /\ AnsweredBy(k) \in SUBSET DOMAIN signals
      /\ EvidenceBy(k) \in SUBSET DOMAIN signals /\ RequiredBy(k) \in SUBSET DOMAIN signals
  BY DEF Tried, AnsweredBy, EvidenceBy, RequiredBy
<1>4. IsFiniteSet(Tried(k)) /\ IsFiniteSet(AnsweredBy(k)) /\ IsFiniteSet(EvidenceBy(k)) /\ IsFiniteSet(RequiredBy(k))
  BY <1>2, <1>3, FS_Subset
<1>. QED BY <1>4, FS_CardinalityType, FS_EmptySet

\* The smaller and the larger of two whole numbers.
LEMMA LeastLargest ==
  ASSUME NEW a \in Int, NEW b \in Int
  PROVE  /\ Least(a, b) \in Int /\ Least(a, b) <= a /\ Least(a, b) <= b /\ Least(a, b) \in {a, b}
         /\ Largest(a, b) \in Int /\ Largest(a, b) >= a /\ Largest(a, b) >= b /\ Largest(a, b) \in {a, b}
  BY DEF Least, Largest

\* The score of a strategy is a whole number.
LEMMA ScoreType ==
  ASSUME signals \in Seq(Signals), NEW k
  PROVE  Score(k) \in Int
<1>1. /\ Cardinality(Tried(k)) \in Nat /\ Cardinality(AnsweredBy(k)) \in Nat
      /\ Cardinality(EvidenceBy(k)) \in Nat /\ Cardinality(RequiredBy(k)) \in Nat
      /\ AnsweredBy(k) # {} => Cardinality(AnsweredBy(k)) # 0
  BY StrategyCounts
<1>. DEFINE cost    == Cardinality(Tried(k)) * AttemptCost * 1000
            penalty == Least(Whole, IF AnsweredBy(k) = {} THEN cost ELSE cost \div Cardinality(AnsweredBy(k)))
            ra == TriedRate(AnsweredBy(k), k)
            re == TriedRate(EvidenceBy(k), k)
            rr == TriedRate(RequiredBy(k), k)
<1>2. ra \in Int /\ re \in Int /\ rr \in Int
  BY <1>1, RateType DEF TriedRate
<1>3. penalty \in Int
  <2>1. cost \in Int
    BY <1>1, SearchAssumption
  <2>. HIDE DEF cost
  <2>2. AnsweredBy(k) # {} => cost \div Cardinality(AnsweredBy(k)) \in Int
    BY <1>1, <2>1
  <2>. QED BY <2>1, <2>2 DEF Least, Whole
<1>4. NoveltyOf(k) \in Int
  BY DEF NoveltyOf, Whole
<1>5. Score(k) = IF Tried(k) = {} THEN Pc(25) ELSE (20 * ra + 35 * re + 35 * rr + 20 * NoveltyOf(k) - 10 * penalty) \div 100
  BY DEF Score
<1>. HIDE DEF ra, re, rr, penalty
<1>. QED BY <1>2, <1>3, <1>4, <1>5 DEF Pc

-----------------------------------------------------------------------------
(* The strategies a round asks.                                            *)

\* A list of strategies: not empty, none twice.
Listing(s) == \E n \in Nat \ {0} : s \in [1 .. n -> Strategies] /\ \A i, j \in 1 .. n : s[i] = s[j] => i = j

\* A listing is a sequence.
LEMMA ListingIsSeq ==
  ASSUME NEW s, Listing(s)
  PROVE  /\ s \in Seq(Strategies) /\ Len(s) \in Nat \ {0} /\ s # <<>>
         /\ s \in [1 .. Len(s) -> Strategies] /\ \A i, j \in 1 .. Len(s) : s[i] = s[j] => i = j
<1>1. PICK n \in Nat \ {0} : s \in [1 .. n -> Strategies] /\ \A i, j \in 1 .. n : s[i] = s[j] => i = j
  BY DEF Listing
<1>2. s \in Seq(Strategies)
  BY <1>1
<1>3. Len(s) = n
  BY <1>1, <1>2
<1>. QED BY <1>1, <1>2, <1>3

\* The orders by score, by tries and by novelty list strategies.
LEMMA OrdersList ==
  ASSUME signals \in Seq(Signals)
  PROVE  Listing(Ordered) /\ Listing(LeastTried) /\ Listing(NoveltyFirst)
<1>1. [k \in Strategies |-> -Score(k)] \in [Strategies -> Int]
  BY ScoreType
<1>2. [k \in Strategies |-> Cardinality(Tried(k))] \in [Strategies -> Int]
  BY StrategyCounts
<1>3. [k \in Strategies |-> Cardinality(AnsweredBy(k))] \in [Strategies -> Int]
  BY StrategyCounts
<1>4. \A key \in [Strategies -> Int] : Listing(SortedBy(key))
  BY SortedFacts DEF Listing
<1>. QED BY <1>1, <1>2, <1>3, <1>4 DEF Ordered, LeastTried, NoveltyFirst

\* So does the order that puts the winner first.
LEMMA WinnerFirstLists ==
  ASSUME signals \in Seq(Signals), NEW w \in {0} \cup Strategies
  PROVE  Listing(WinnerFirst(w))
<1>. DEFINE o == Ordered
            t == Keep(o, Strategies \ {w})
<1>1. o \in Seq(Strategies) /\ Len(o) \in Nat \ {0} /\ o \in [1 .. Len(o) -> Strategies] /\ \A i, j \in 1 .. Len(o) : o[i] = o[j] => i = j
  BY OrdersList, ListingIsSeq
<1>. HIDE DEF o
<1>2. t \in Seq(Strategies) /\ KeptOf(t, o, Len(o), Strategies \ {w})
  BY <1>1, KeepFacts
<1>. HIDE DEF t
<1>3. /\ \A a \in 1 .. Len(t) : t[a] \in Strategies \ {w}
      /\ \A a, b \in 1 .. Len(t) : t[a] = t[b] => a = b
      /\ o[1] \in Strategies \ {w} => Len(t) > 0
  BY <1>1, <1>2 DEF KeptOf
<1>4. Len(t) \in Nat /\ t \in [1 .. Len(t) -> Strategies]
  BY <1>2
<1>5. CASE w = 0
  <2>1. WinnerFirst(w) = t
    <3>1. WinnerFirst(w) = <<>> \o t
      BY <1>5 DEF WinnerFirst, t, o
    <3>2. <<>> \o t = t
      BY <1>2
    <3>. QED BY <3>1, <3>2
  <2>2. 0 \notin Strategies
    BY SearchAssumption
  <2>3. Len(t) \in Nat \ {0}
    BY <1>1, <1>3, <1>4, <1>5, <2>2
  <2>. QED BY <2>1, <2>3, <1>3, <1>4 DEF Listing
<1>6. CASE w # 0
  <2>. DEFINE u == <<w>> \o t
  <2>0. w \in Strategies
    BY <1>6
  <2>1. WinnerFirst(w) = u
    BY <1>6 DEF WinnerFirst, t, o
  <2>2. u \in Seq(Strategies) /\ Len(u) = Len(t) + 1
    <3>1. <<w>> \in Seq(Strategies) /\ Len(<<w>>) = 1
      BY <2>0
    <3>2. u \in Seq(Strategies)
      BY <3>1, <1>2
    <3>3. Len(u) = 1 + Len(t)
      BY <3>1, <1>2
    <3>. QED BY <3>2, <3>3, <1>4
  <2>3. u[1] = w /\ \A i \in 2 .. Len(t) + 1 : u[i] = t[i - 1]
    BY <1>2, <1>4, <2>0
  <2>. HIDE DEF u
  <2>4. u \in [1 .. Len(t) + 1 -> Strategies] /\ Len(t) + 1 \in Nat \ {0}
    BY <2>2, <1>4
  <2>5. ASSUME NEW i \in 1 .. Len(t) + 1, NEW j \in 1 .. Len(t) + 1, u[i] = u[j] PROVE i = j
    <3>1. \A m \in 1 .. Len(t) + 1 : m = 1 \/ (m \in 2 .. Len(t) + 1 /\ m - 1 \in 1 .. Len(t))
      BY <1>4
    <3>2. \A m \in 1 .. Len(t) + 1 : m # 1 => u[m] # w
      BY <3>1, <2>3, <1>3
    <3>3. CASE i = 1 \/ j = 1
      BY <3>2, <3>3, <2>3, <2>5
    <3>4. CASE i # 1 /\ j # 1
      <4>1. t[i - 1] = t[j - 1] /\ i - 1 \in 1 .. Len(t) /\ j - 1 \in 1 .. Len(t)
        BY <3>1, <3>4, <2>3, <2>5
      <4>2. i - 1 = j - 1
        BY <4>1, <1>3
      <4>. QED BY <4>2, <2>5, <1>4
    <3>. QED BY <3>3, <3>4
  <2>. QED BY <2>1, <2>4, <2>5 DEF Listing
<1>. QED BY <1>5, <1>6

\* A prefix of at least one lists strategies too.
LEMMA PrefixLists ==
  ASSUME NEW s, Listing(s), NEW m \in Nat \ {0}
  PROVE  Listing(Prefix(s, m)) /\ Len(Prefix(s, m)) = Least(m, Len(s))
<1>1. s \in Seq(Strategies) /\ Len(s) \in Nat \ {0} /\ s \in [1 .. Len(s) -> Strategies] /\ \A i, j \in 1 .. Len(s) : s[i] = s[j] => i = j
  BY ListingIsSeq
<1>. DEFINE n == Least(m, Len(s))
            t == SubSeq(s, 1, n)
<1>2. n \in Nat \ {0} /\ n <= Len(s)
  BY <1>1 DEF Least
<1>3. Prefix(s, m) = t
  BY DEF Prefix
<1>. HIDE DEF n
<1>4. Len(t) = n /\ t \in Seq(Strategies) /\ \A i \in 1 .. n : t[i] = s[i]
  BY <1>1, <1>2
<1>. HIDE DEF t
<1>5. t \in [1 .. n -> Strategies] /\ \A i, j \in 1 .. n : t[i] = t[j] => i = j
  BY <1>1, <1>2, <1>4
<1>. QED BY <1>2, <1>3, <1>4, <1>5 DEF Listing, n

\* A round has strategies to ask, each once, and works on at least one at a time.
LEMMA NextStrategiesList ==
  ASSUME signals \in Seq(Signals), Len(signals) > 0
  PROVE  Listing(NextStrategies) /\ NextParallel(NextStrategies) \in Nat \ {0}
<1>. DEFINE p    == Posture(LastSignal)
            pref == Preference(p, LastSignal.winner)
            wide == Width(p, Len(pref))
<1>1. LastSignal \in Signals
  BY DEF LastSignal
<1>2. LastSignal.winner \in {0} \cup Strategies
  BY <1>1, SignalCounts
<1>3. Listing(pref)
  BY <1>2, OrdersList, WinnerFirstLists DEF Preference
<1>4. Len(pref) \in Nat \ {0}
  BY <1>3, ListingIsSeq
<1>. HIDE DEF pref, p
<1>5. wide \in Nat \ {0}
  BY <1>4, SearchAssumption DEF Width, Least, Largest
<1>6. NextStrategies = Prefix(pref, wide)
  BY DEF NextStrategies, pref, p
<1>. HIDE DEF wide
<1>7. Listing(NextStrategies)
  BY <1>3, <1>5, <1>6, PrefixLists
<1>8. Len(NextStrategies) \in Nat \ {0}
  BY <1>7, ListingIsSeq
<1>9. NextParallel(NextStrategies) \in Nat \ {0}
  BY <1>8, SearchAssumption DEF NextParallel, Least, Largest
<1>. QED BY <1>7, <1>9

-----------------------------------------------------------------------------
(* Lanes and what they take.                                               *)

\* What a lane is for, and what it computes with.
LaneRoles == {"explorer", "mutator", "synthesizer", "critic", "verifier", "red_team", "memory"}
LaneTiers == {"cheap", "standard", "deep", "exact"}

\* A lane as it is wanted, and one that is filled.
WantedLanes == [role : LaneRoles, tier : LaneTiers, count : Int]
FilledLanes == [role : LaneRoles, tier : LaneTiers, count : Nat \ {0}]

\* What a tier costs.
LEMMA TierCosts == /\ TierCost["cheap"] = 1 /\ TierCost["standard"] = 2 /\ TierCost["deep"] = 8 /\ TierCost["exact"] = 3
                   /\ \A t \in LaneTiers : TierCost[t] \in Nat \ {0}
  BY DEF TierCost, LaneTiers

\* The sums over lanes are sums along an interval.
LEMMA LaneTerms ==
  ASSUME NEW lanes \in Seq(FilledLanes), NEW t
  PROVE  /\ Len(lanes) \in Nat /\ DOMAIN lanes = 1 .. Len(lanes)
         /\ [i \in DOMAIN lanes |-> lanes[i].count] \in [1 .. Len(lanes) -> Nat]
         /\ [i \in DOMAIN lanes |-> lanes[i].count * TierCost[lanes[i].tier]] \in [1 .. Len(lanes) -> Nat]
         /\ [i \in DOMAIN lanes |-> IF lanes[i].tier = t THEN lanes[i].count ELSE 0] \in [1 .. Len(lanes) -> Nat]
<1>1. Len(lanes) \in Nat /\ DOMAIN lanes = 1 .. Len(lanes)
  OBVIOUS
<1>2. \A i \in DOMAIN lanes : lanes[i] \in FilledLanes
  OBVIOUS
<1>3. \A i \in DOMAIN lanes : lanes[i].count \in Nat /\ lanes[i].tier \in LaneTiers
  BY <1>2 DEF FilledLanes
<1>4. \A i \in DOMAIN lanes : lanes[i].count * TierCost[lanes[i].tier] \in Nat
  BY <1>3, TierCosts
<1>. QED BY <1>1, <1>3, <1>4

\* They are naturals.
LEMMA LaneSums ==
  ASSUME NEW lanes \in Seq(FilledLanes), NEW t
  PROVE  CountOf(lanes) \in Nat /\ ComputeOf(lanes) \in Nat /\ CountOfTier(lanes, t) \in Nat
  BY LaneTerms, SumType DEF CountOf, ComputeOf, CountOfTier

\* No lanes take nothing.
LEMMA NoLaneSums == \A t : CountOf(<<>>) = 0 /\ ComputeOf(<<>>) = 0 /\ CountOfTier(<<>>, t) = 0
<1>. SUFFICES ASSUME NEW t PROVE CountOf(<<>>) = 0 /\ ComputeOf(<<>>) = 0 /\ CountOfTier(<<>>, t) = 0
  OBVIOUS
<1>. DEFINE e == <<>>
<1>1. e \in Seq(FilledLanes) /\ Len(e) = 0
  OBVIOUS
<1>. HIDE DEF e
<1>2. CountOf(e) = 0 /\ ComputeOf(e) = 0 /\ CountOfTier(e, t) = 0
  BY <1>1, LaneTerms, SumType DEF CountOf, ComputeOf, CountOfTier
<1>. QED BY <1>2 DEF e

\* One lane more takes what it takes.
LEMMA OneLaneMore ==
  ASSUME NEW lanes \in Seq(FilledLanes), NEW l \in FilledLanes, NEW t
  PROVE  /\ CountOf(Append(lanes, l)) = CountOf(lanes) + l.count
         /\ ComputeOf(Append(lanes, l)) = ComputeOf(lanes) + l.count * TierCost[l.tier]
         /\ CountOfTier(Append(lanes, l), t) = CountOfTier(lanes, t) + (IF l.tier = t THEN l.count ELSE 0)
<1>. DEFINE more == Append(lanes, l)
            n == Len(lanes)
            c(x) == [i \in DOMAIN x |-> x[i].count]
            d(x) == [i \in DOMAIN x |-> x[i].count * TierCost[x[i].tier]]
            e(x) == [i \in DOMAIN x |-> IF x[i].tier = t THEN x[i].count ELSE 0]
<1>1. more \in Seq(FilledLanes) /\ Len(more) = n + 1
  OBVIOUS
<1>2. n \in Nat /\ DOMAIN lanes = 1 .. n /\ DOMAIN more = 1 .. n + 1
  BY <1>1
<1>3. more[n + 1] = l /\ \A i \in 1 .. n : more[i] = lanes[i] /\ i \in 1 .. n + 1
  BY <1>2
<1>. HIDE DEF more, n
<1>4. /\ c(lanes) \in [1 .. n -> Nat] /\ d(lanes) \in [1 .. n -> Nat] /\ e(lanes) \in [1 .. n -> Nat]
      /\ c(more) \in [1 .. n + 1 -> Nat] /\ d(more) \in [1 .. n + 1 -> Nat] /\ e(more) \in [1 .. n + 1 -> Nat]
  BY <1>1, LaneTerms DEF n
<1>5. \A i \in 1 .. n : c(more)[i] = c(lanes)[i] /\ d(more)[i] = d(lanes)[i] /\ e(more)[i] = e(lanes)[i]
  BY <1>2, <1>3
<1>6. n + 1 \in DOMAIN more
  BY <1>2
<1>7. /\ c(more)[n + 1] = l.count /\ d(more)[n + 1] = l.count * TierCost[l.tier]
      /\ e(more)[n + 1] = IF l.tier = t THEN l.count ELSE 0
  BY <1>3, <1>6
<1>8. /\ CountOf(more) = SumOf(c(more)) /\ ComputeOf(more) = SumOf(d(more)) /\ CountOfTier(more, t) = SumOf(e(more))
      /\ CountOf(lanes) = SumOf(c(lanes)) /\ ComputeOf(lanes) = SumOf(d(lanes)) /\ CountOfTier(lanes, t) = SumOf(e(lanes))
  BY DEF CountOf, ComputeOf, CountOfTier
<1>. HIDE DEF c, d, e
<1>9. /\ SumOf(c(more)) = SumOf(c(lanes)) + c(more)[n + 1]
      /\ SumOf(d(more)) = SumOf(d(lanes)) + d(more)[n + 1]
      /\ SumOf(e(more)) = SumOf(e(lanes)) + e(more)[n + 1]
  BY <1>2, <1>4, <1>5, SumExtends
<1>. QED BY <1>7, <1>8, <1>9 DEF more

-----------------------------------------------------------------------------
(* Fitting the lanes into a budget.                                        *)

\* What a round may take: at least one agent and the compute of a cheap one.
SearchBudgets == [agents : Nat \ {0}, parallel : Nat \ {0}, deep : Nat, exact : Nat, compute : {c \in Nat : c >= 100}]

\* What is fitted so far and what is left of budget b; the roles are among R.
Fitted(b, R) ==
  {acc \in [lanes : Seq(FilledLanes), agents : Nat, deep : Nat, exact : Nat, compute : Nat] :
     /\ CountOf(acc.lanes) + acc.agents = b.agents /\ 100 * ComputeOf(acc.lanes) + acc.compute = b.compute
     /\ CountOfTier(acc.lanes, "deep") + acc.deep = b.deep /\ CountOfTier(acc.lanes, "exact") + acc.exact = b.exact
     /\ \A a \in 1 .. Len(acc.lanes) : acc.lanes[a].role \in R}

\* How many of a lane fit.
FitCount(acc, l) ==
  Least(Least(l.count, acc.agents),
        Least(IF l.tier = "deep" THEN acc.deep ELSE IF l.tier = "exact" THEN acc.exact ELSE l.count,
              acc.compute \div (100 * TierCost[l.tier])))

\* They fit in what is left.
LEMMA FitCountFits ==
  ASSUME NEW acc \in [lanes : Seq(FilledLanes), agents : Nat, deep : Nat, exact : Nat, compute : Nat], NEW l \in WantedLanes
  PROVE  /\ FitCount(acc, l) \in Int /\ FitCount(acc, l) <= acc.agents
         /\ FitCount(acc, l) * 100 * TierCost[l.tier] <= acc.compute
         /\ l.tier = "deep" => FitCount(acc, l) <= acc.deep
         /\ l.tier = "exact" => FitCount(acc, l) <= acc.exact
<1>1. l.count \in Int /\ l.tier \in LaneTiers /\ acc.agents \in Nat /\ acc.deep \in Nat /\ acc.exact \in Nat /\ acc.compute \in Nat
  BY DEF WantedLanes
<1>. DEFINE k == 100 * TierCost[l.tier]
            q == acc.compute \div k
            m == IF l.tier = "deep" THEN acc.deep ELSE IF l.tier = "exact" THEN acc.exact ELSE l.count
            n == FitCount(acc, l)
<1>2. k \in {100, 200, 800, 300}
  BY <1>1, TierCosts DEF LaneTiers
<1>3. q \in Int /\ q * k <= acc.compute
  BY <1>1, <1>2
<1>4. m \in Int /\ n = Least(Least(l.count, acc.agents), Least(m, q))
  BY <1>1 DEF FitCount
<1>. HIDE DEF q, k, n
<1>5. n \in Int /\ n <= acc.agents /\ n <= m /\ n <= q
  <2>. HIDE DEF m
  <2>. QED BY <1>1, <1>3, <1>4 DEF Least
<1>6. n * k <= acc.compute
  BY <1>1, <1>2, <1>3, <1>5
<1>7. n * 100 * TierCost[l.tier] = n * k
  <2>1. TierCost[l.tier] \in Nat
    BY <1>1, TierCosts
  <2>. QED BY <2>1, <1>5 DEF k
<1>. QED BY <1>5, <1>6, <1>7 DEF n

\* Fitting a lane, in one step.
LEMMA FitLaneSteps ==
  ASSUME NEW acc, NEW l
  PROVE  LET n == FitCount(acc, l) IN
         FitLane(acc, l) =
           IF n <= 0 THEN acc
           ELSE [acc EXCEPT !.lanes = Append(@, [l EXCEPT !.count = n]), !.agents = @ - n,
                            !.compute = @ - n * 100 * TierCost[l.tier],
                            !.deep = IF l.tier = "deep" THEN @ - n ELSE @, !.exact = IF l.tier = "exact" THEN @ - n ELSE @]
  BY DEF FitLane, FitCount

\* A lane that fits takes from the budget what the fitted lanes grow by.
LEMMA FitLaneKeeps ==
  ASSUME NEW b \in SearchBudgets, NEW R, NEW acc \in Fitted(b, R), NEW l \in WantedLanes, l.role \in R
  PROVE  /\ FitLane(acc, l) \in Fitted(b, R)
         /\ \/ FitLane(acc, l).lanes = acc.lanes
            \/ \E k \in FilledLanes : k.role = l.role /\ FitLane(acc, l).lanes = Append(acc.lanes, k)
         /\ FitCount(acc, l) > 0 => \E k \in FilledLanes : k.role = l.role /\ FitLane(acc, l).lanes = Append(acc.lanes, k)
<1>. DEFINE n    == FitCount(acc, l)
            k    == [l EXCEPT !.count = n]
            next == FitLane(acc, l)
<1>0. /\ acc \in [lanes : Seq(FilledLanes), agents : Nat, deep : Nat, exact : Nat, compute : Nat]
      /\ CountOf(acc.lanes) + acc.agents = b.agents /\ 100 * ComputeOf(acc.lanes) + acc.compute = b.compute
      /\ CountOfTier(acc.lanes, "deep") + acc.deep = b.deep /\ CountOfTier(acc.lanes, "exact") + acc.exact = b.exact
      /\ \A a \in 1 .. Len(acc.lanes) : acc.lanes[a].role \in R
  BY DEF Fitted
<1>1. /\ n \in Int /\ n <= acc.agents /\ n * 100 * TierCost[l.tier] <= acc.compute
      /\ l.tier = "deep" => n <= acc.deep
      /\ l.tier = "exact" => n <= acc.exact
  BY <1>0, FitCountFits
<1>2. next = IF n <= 0 THEN acc
             ELSE [acc EXCEPT !.lanes = Append(@, k), !.agents = @ - n, !.compute = @ - n * 100 * TierCost[l.tier],
                              !.deep = IF l.tier = "deep" THEN @ - n ELSE @, !.exact = IF l.tier = "exact" THEN @ - n ELSE @]
  BY FitLaneSteps
<1>. HIDE DEF n, next
<1>3. CASE n <= 0
  BY <1>1, <1>2, <1>3 DEF n, next
<1>4. CASE n > 0
  <2>1. k \in FilledLanes /\ k.role = l.role /\ k.tier = l.tier /\ k.count = n
    BY <1>1, <1>4 DEF FilledLanes, WantedLanes
  <2>. HIDE DEF k
  <2>2. TierCost[l.tier] \in Nat /\ l.tier \in LaneTiers
    BY TierCosts DEF WantedLanes
  <2>. DEFINE spent == n * 100 * TierCost[l.tier]
  <2>3. spent \in Nat /\ spent <= acc.compute /\ spent = 100 * (n * TierCost[l.tier])
    BY <1>1, <1>4, <2>2
  <2>4. next = [acc EXCEPT !.lanes = Append(@, k), !.agents = @ - n, !.compute = @ - spent,
                           !.deep = IF l.tier = "deep" THEN @ - n ELSE @, !.exact = IF l.tier = "exact" THEN @ - n ELSE @]
    BY <1>1, <1>2, <1>4
  <2>. HIDE DEF spent
  <2>5. /\ next.lanes = Append(acc.lanes, k) /\ next.agents = acc.agents - n /\ next.compute = acc.compute - spent
        /\ next.deep = IF l.tier = "deep" THEN acc.deep - n ELSE acc.deep
        /\ next.exact = IF l.tier = "exact" THEN acc.exact - n ELSE acc.exact
    BY <1>0, <2>4
  <2>6. Append(acc.lanes, k) \in Seq(FilledLanes)
    BY <1>0, <2>1
  <2>7. next \in [lanes : Seq(FilledLanes), agents : Nat, deep : Nat, exact : Nat, compute : Nat]
    <3>1. acc.agents \in Nat /\ acc.compute \in Nat /\ acc.deep \in Nat /\ acc.exact \in Nat
      BY <1>0
    <3>2. acc.agents - n \in Nat /\ acc.compute - spent \in Nat
      BY <3>1, <1>1, <1>4, <2>3
    <3>3. next.deep \in Nat
      BY <3>1, <2>5, <1>1
    <3>4. next.exact \in Nat
      BY <3>1, <2>5, <1>1
    <3>5. next = [lanes |-> Append(acc.lanes, k), agents |-> acc.agents - n, deep |-> next.deep, exact |-> next.exact,
                  compute |-> acc.compute - spent]
      BY <1>0, <2>4, <2>5
    <3>. DEFINE x == next.deep
                y == next.exact
                z == Append(acc.lanes, k)
                u == acc.agents - n
                v == acc.compute - spent
    <3>6. x \in Nat /\ y \in Nat /\ z \in Seq(FilledLanes) /\ u \in Nat /\ v \in Nat
      BY <3>2, <3>3, <3>4, <2>6
    <3>7. next = [lanes |-> z, agents |-> u, deep |-> x, exact |-> y, compute |-> v]
      BY <3>5
    <3>. HIDE DEF x, y, z, u, v
    <3>. QED BY <3>6, <3>7
  <2>8. /\ CountOf(next.lanes) = CountOf(acc.lanes) + n
        /\ ComputeOf(next.lanes) = ComputeOf(acc.lanes) + n * TierCost[l.tier]
        /\ CountOfTier(next.lanes, "deep") = CountOfTier(acc.lanes, "deep") + (IF l.tier = "deep" THEN n ELSE 0)
        /\ CountOfTier(next.lanes, "exact") = CountOfTier(acc.lanes, "exact") + (IF l.tier = "exact" THEN n ELSE 0)
    BY <1>0, <2>1, <2>5, OneLaneMore
  <2>9. /\ CountOf(acc.lanes) \in Nat /\ ComputeOf(acc.lanes) \in Nat
        /\ CountOfTier(acc.lanes, "deep") \in Nat /\ CountOfTier(acc.lanes, "exact") \in Nat
    BY <1>0, LaneSums
  <2>10. CountOf(next.lanes) + next.agents = b.agents
    BY <1>0, <1>1, <2>5, <2>8, <2>9
  <2>11. 100 * ComputeOf(next.lanes) + next.compute = b.compute
    <3>. DEFINE x == n * TierCost[l.tier]
    <3>1. x \in Nat
      BY <1>1, <1>4, <2>2
    <3>. HIDE DEF x
    <3>2. ComputeOf(next.lanes) = ComputeOf(acc.lanes) + x /\ spent = 100 * x
      BY <2>3, <2>8 DEF x
    <3>3. acc.compute \in Nat
      BY <1>0
    <3>. QED BY <1>0, <2>5, <2>9, <3>1, <3>2, <3>3
  <2>12. CountOfTier(next.lanes, "deep") + next.deep = b.deep
    <3>1. acc.deep \in Nat /\ CountOfTier(acc.lanes, "deep") + acc.deep = b.deep
      BY <1>0
    <3>2. CASE l.tier = "deep"
      BY <3>1, <3>2, <1>1, <2>5, <2>8, <2>9
    <3>3. CASE l.tier # "deep"
      BY <3>1, <3>3, <2>5, <2>8, <2>9
    <3>. QED BY <3>2, <3>3
  <2>13. CountOfTier(next.lanes, "exact") + next.exact = b.exact
    <3>1. acc.exact \in Nat
      BY <1>0
    <3>. QED BY <1>0, <1>1, <2>5, <2>8, <2>9, <3>1
  <2>14. \A a \in 1 .. Len(next.lanes) : next.lanes[a].role \in R
    <3>1. /\ Len(acc.lanes) \in Nat /\ Len(next.lanes) = Len(acc.lanes) + 1 /\ next.lanes[Len(acc.lanes) + 1] = k
          /\ \A a \in 1 .. Len(acc.lanes) : next.lanes[a] = acc.lanes[a]
      BY <1>0, <2>1, <2>5
    <3>2. \A a \in 1 .. Len(acc.lanes) + 1 : a \in 1 .. Len(acc.lanes) \/ a = Len(acc.lanes) + 1
      BY <3>1
    <3>. QED BY <1>0, <2>1, <3>1, <3>2
  <2>15. next \in Fitted(b, R)
    BY <2>7, <2>10, <2>11, <2>12, <2>13, <2>14 DEF Fitted
  <2>. QED BY <2>1, <2>5, <2>15 DEF next
<1>. QED BY <1>1, <1>3, <1>4

\* Before any lane is fitted.
FitStart(b) == [lanes |-> <<>>, agents |-> b.agents, deep |-> b.deep, exact |-> b.exact, compute |-> b.compute]

\* That is a fit of nothing.
LEMMA FitStartFits ==
  ASSUME NEW b \in SearchBudgets, NEW R
  PROVE  FitStart(b) \in Fitted(b, R)
<1>1. b.agents \in Nat /\ b.deep \in Nat /\ b.exact \in Nat /\ b.compute \in Nat
  BY DEF SearchBudgets
<1>2. <<>> \in Seq(FilledLanes) /\ Len(<<>>) = 0
  OBVIOUS
<1>3. FitStart(b) \in [lanes : Seq(FilledLanes), agents : Nat, deep : Nat, exact : Nat, compute : Nat]
  BY <1>1, <1>2 DEF FitStart
<1>4. /\ FitStart(b).lanes = <<>> /\ FitStart(b).agents = b.agents /\ FitStart(b).deep = b.deep
      /\ FitStart(b).exact = b.exact /\ FitStart(b).compute = b.compute
  BY DEF FitStart
<1>. QED BY <1>1, <1>2, <1>3, <1>4, NoLaneSums DEF Fitted

\* Fitting lanes is fitting them one by one.
LEMMA FitUpto ==
  ASSUME NEW b \in SearchBudgets, NEW n \in Nat, NEW lanes \in [1 .. n -> WantedLanes], NEW R, \A i \in 1 .. n : lanes[i].role \in R
  PROVE  \E c : /\ \A i \in 0 .. n : c[i] \in Fitted(b, R)
                /\ c[0] = FitStart(b) /\ (\A i \in 1 .. n : c[i] = FitLane(c[i - 1], lanes[i]))
                /\ FitBudget(lanes, b) = IF c[n].lanes = <<>> THEN <<PopLane("memory", "cheap", 1)>> ELSE c[n].lanes
<1>. DEFINE S    == Fitted(b, R)
            step == [i \in 1 .. n |-> [t \in S |-> FitLane(t, lanes[i])]]
            Q(c) == c = [i \in 0 .. n |-> IF i = 0 THEN [lanes |-> <<>>, agents |-> b.agents, deep |-> b.deep, exact |-> b.exact,
                                                         compute |-> b.compute]
                                          ELSE FitLane(c[i - 1], lanes[i])]
            d    == CHOOSE c : Q(c)
<1>1. Len(lanes) = n
  <2>1. lanes \in Seq(WantedLanes)
    OBVIOUS
  <2>. QED BY <2>1
<1>0. ASSUME NEW i \in 1 .. n, NEW t \in S PROVE FitLane(t, lanes[i]) \in S
  BY FitLaneKeeps
<1>. HIDE DEF S
<1>2. step \in StepsOn(n, S)
  BY <1>0 DEF StepsOn
<1>3. \A i \in 1 .. n, t \in S : step[i][t] = FitLane(t, lanes[i])
  OBVIOUS
<1>. HIDE DEF step
<1>4. PICK g : g \in [0 .. n -> S] /\ g[0] = FitStart(b) /\ \A i \in 1 .. n : g[i] = step[i][g[i - 1]]
  <2>1. FitStart(b) \in S
    BY FitStartFits DEF S
  <2>2. PICK g : Recurs(g, n, S, FitStart(b), step)
    BY <1>2, <2>1, RecursionExists
  <2>. QED BY <2>2 DEF Recurs
<1>5. \A i \in 1 .. n : i - 1 \in 0 .. n /\ g[i - 1] \in S
  BY <1>4
<1>6. \A i \in 1 .. n : g[i] = FitLane(g[i - 1], lanes[i])
  BY <1>3, <1>4, <1>5
<1>7. \A i \in 0 .. n : g[i] = IF i = 0 THEN FitStart(b) ELSE FitLane(g[i - 1], lanes[i])
  <2>1. \A i \in 0 .. n : i # 0 => i \in 1 .. n
    OBVIOUS
  <2>. QED BY <1>4, <1>6, <2>1
<1>8. Q(g)
  BY <1>4, <1>7 DEF FitStart
<1>9. Q(d)
  BY <1>8
<1>10. FitBudget(lanes, b) = IF d[n].lanes = <<>> THEN <<PopLane("memory", "cheap", 1)>> ELSE d[n].lanes
  BY <1>1 DEF FitBudget
<1>. HIDE DEF d
<1>11. d[0] = FitStart(b) /\ \A i \in 1 .. n : d[i] = FitLane(d[i - 1], lanes[i])
  <2>1. 0 \in 0 .. n /\ \A i \in 1 .. n : i \in 0 .. n /\ i # 0
    OBVIOUS
  <2>2. \A i \in 0 .. n : d[i] = IF i = 0 THEN FitStart(b) ELSE FitLane(d[i - 1], lanes[i])
    BY <1>9 DEF FitStart
  <2>. QED BY <2>1, <2>2
<1>. HIDE DEF Q
<1>. DEFINE U == {i \in 0 .. n : d[i] \in S}
<1>12. ASSUME NEW i \in 1 .. n, i - 1 \in U PROVE i \in U
  <2>1. d[i - 1] \in S
    BY <1>12
  <2>2. d[i] \in S
    BY <2>1, <1>0, <1>11
  <2>. QED BY <2>2
<1>13. 0 \in U
  <2>1. d[0] \in S
    BY <1>11, FitStartFits DEF S
  <2>. QED BY <2>1
<1>. HIDE DEF U
<1>14. \A i \in 0 .. n : i \in U
  BY <1>12, <1>13, IntervalInduction
<1>15. \A i \in 0 .. n : d[i] \in Fitted(b, R)
  BY <1>14 DEF U, S
<1>. QED BY <1>10, <1>11, <1>15, Zenon

\* Lanes are inside a budget.
Inside(lanes, b) ==
  /\ lanes # <<>> /\ CountOf(lanes) <= b.agents /\ 100 * ComputeOf(lanes) <= b.compute
  /\ CountOfTier(lanes, "deep") <= b.deep /\ CountOfTier(lanes, "exact") <= b.exact

\* Whatever lanes are wanted, the ones _fit_budget leaves are inside the budget, and at least one is left; the roles are
\* those wanted, or memory.
THEOREM FitBudgetFits ==
  ASSUME NEW b \in SearchBudgets, NEW n \in Nat, NEW lanes \in [1 .. n -> WantedLanes], NEW R, \A i \in 1 .. n : lanes[i].role \in R
  PROVE  LET f == FitBudget(lanes, b) IN
         f \in Seq(FilledLanes) /\ Inside(f, b) /\ \A a \in 1 .. Len(f) : f[a].role \in R \cup {"memory"}
<1>. DEFINE f == FitBudget(lanes, b)
<1>1. PICK c : /\ \A i \in 0 .. n : c[i] \in Fitted(b, R)
               /\ f = IF c[n].lanes = <<>> THEN <<PopLane("memory", "cheap", 1)>> ELSE c[n].lanes
  BY FitUpto
<1>. HIDE DEF f
<1>2. /\ b.agents \in Nat \ {0} /\ b.deep \in Nat /\ b.exact \in Nat /\ b.compute \in Nat /\ b.compute >= 100
  BY DEF SearchBudgets
<1>3. CASE c[n].lanes = <<>>
  <2>. DEFINE l == PopLane("memory", "cheap", 1)
  <2>1. l \in FilledLanes /\ l.role = "memory" /\ l.tier = "cheap" /\ l.count = 1
    BY DEF PopLane, FilledLanes, LaneRoles, LaneTiers
  <2>. HIDE DEF l
  <2>2. f = <<l>>
    BY <1>1, <1>3 DEF l
  <2>3. f \in Seq(FilledLanes) /\ Len(f) = 1 /\ f[1] = l /\ f # <<>>
    BY <2>1, <2>2
  <2>4. f = Append(<<>>, l) /\ <<>> \in Seq(FilledLanes)
    BY <2>1, <2>2
  <2>5. /\ CountOf(f) = 0 + 1 /\ ComputeOf(f) = 0 + 1 * TierCost["cheap"]
        /\ CountOfTier(f, "deep") = 0 + 0 /\ CountOfTier(f, "exact") = 0 + 0
    <3>. DEFINE e == <<>>
    <3>1. e \in Seq(FilledLanes) /\ f = Append(e, l)
      BY <2>4
    <3>2. CountOf(e) = 0 /\ ComputeOf(e) = 0 /\ CountOfTier(e, "deep") = 0 /\ CountOfTier(e, "exact") = 0
      BY NoLaneSums
    <3>. HIDE DEF e
    <3>3. CountOf(f) = CountOf(e) + l.count /\ ComputeOf(f) = ComputeOf(e) + l.count * TierCost[l.tier]
      BY <2>1, <3>1, OneLaneMore
    <3>4. CountOfTier(f, "deep") = CountOfTier(e, "deep") + (IF l.tier = "deep" THEN l.count ELSE 0)
      BY <2>1, <3>1, OneLaneMore
    <3>5. CountOfTier(f, "exact") = CountOfTier(e, "exact") + (IF l.tier = "exact" THEN l.count ELSE 0)
      BY <2>1, <3>1, OneLaneMore
    <3>. QED BY <2>1, <3>2, <3>3, <3>4, <3>5
  <2>6. Inside(f, b)
    BY <1>2, <2>3, <2>5, TierCosts DEF Inside
  <2>. QED BY <2>1, <2>3, <2>6 DEF f
<1>4. CASE c[n].lanes # <<>>
  <2>1. n \in 0 .. n
    OBVIOUS
  <2>2. c[n] \in Fitted(b, R) /\ f = c[n].lanes
    BY <1>1, <1>4, <2>1
  <2>3. /\ f \in Seq(FilledLanes) /\ c[n].agents \in Nat /\ c[n].deep \in Nat /\ c[n].exact \in Nat /\ c[n].compute \in Nat
        /\ CountOf(f) + c[n].agents = b.agents /\ 100 * ComputeOf(f) + c[n].compute = b.compute
        /\ CountOfTier(f, "deep") + c[n].deep = b.deep /\ CountOfTier(f, "exact") + c[n].exact = b.exact
        /\ \A a \in 1 .. Len(f) : f[a].role \in R
    BY <2>2 DEF Fitted
  <2>4. CountOf(f) \in Nat /\ ComputeOf(f) \in Nat /\ CountOfTier(f, "deep") \in Nat /\ CountOfTier(f, "exact") \in Nat
    BY <2>3, LaneSums
  <2>5. f # <<>>
    BY <1>4, <2>2
  <2>6. CountOf(f) <= b.agents
    <3>1. CountOf(f) + c[n].agents = b.agents /\ c[n].agents \in Nat
      BY <2>3
    <3>. QED BY <3>1, <2>4, <1>2
  <2>7. 100 * ComputeOf(f) <= b.compute
    <3>1. 100 * ComputeOf(f) + c[n].compute = b.compute /\ c[n].compute \in Nat
      BY <2>3
    <3>. QED BY <3>1, <2>4, <1>2
  <2>8. CountOfTier(f, "deep") <= b.deep /\ CountOfTier(f, "exact") <= b.exact
    <3>1. CountOfTier(f, "deep") + c[n].deep = b.deep /\ c[n].deep \in Nat
      BY <2>3
    <3>2. CountOfTier(f, "exact") + c[n].exact = b.exact /\ c[n].exact \in Nat
      BY <2>3
    <3>3. CountOfTier(f, "deep") <= b.deep
      BY <3>1, <2>4, <1>2
    <3>4. CountOfTier(f, "exact") <= b.exact
      BY <3>2, <2>4, <1>2
    <3>. QED BY <3>3, <3>4
  <2>9. Inside(f, b)
    BY <2>5, <2>6, <2>7, <2>8 DEF Inside
  <2>. QED BY <2>3, <2>9 DEF f
<1>. QED BY <1>3, <1>4

\* A deep verifier that is wanted first gets in when the budget has a deep place and its compute.
LEMMA FirstVerifierFits ==
  ASSUME NEW b \in SearchBudgets, b.deep >= 1, b.compute >= 800, NEW n \in Nat \ {0}, NEW lanes \in [1 .. n -> WantedLanes],
         lanes[1].role = "verifier", lanes[1].tier = "deep", lanes[1].count >= 1
  PROVE  \E a \in DOMAIN FitBudget(lanes, b) : FitBudget(lanes, b)[a].role = "verifier"
<1>. DEFINE f == FitBudget(lanes, b)
            R == LaneRoles
            v(t) == t \in Seq(FilledLanes) /\ Len(t) > 0 /\ t[1].role = "verifier"
<1>0. \A i \in 1 .. n : lanes[i] \in WantedLanes /\ lanes[i].role \in R
  BY DEF WantedLanes
<1>1. PICK c : /\ \A i \in 0 .. n : c[i] \in Fitted(b, R)
               /\ c[0] = FitStart(b) /\ (\A i \in 1 .. n : c[i] = FitLane(c[i - 1], lanes[i]))
               /\ f = IF c[n].lanes = <<>> THEN <<PopLane("memory", "cheap", 1)>> ELSE c[n].lanes
  BY <1>0, FitUpto
<1>. HIDE DEF f, R
<1>2. \A i \in 0 .. n : c[i].lanes \in Seq(FilledLanes)
  BY <1>1 DEF Fitted
<1>3. v(c[1].lanes)
  <2>0. 1 \in 1 .. n /\ 1 - 1 = 0 /\ 0 \in 0 .. n
    OBVIOUS
  <2>. DEFINE s == FitStart(b)
              l == lanes[1]
  <2>1. s \in Fitted(b, R) /\ s.lanes = <<>> /\ s.agents = b.agents /\ s.deep = b.deep /\ s.compute = b.compute
    BY FitStartFits DEF FitStart
  <2>2. l \in WantedLanes /\ l.role \in R /\ l.role = "verifier" /\ l.tier = "deep" /\ l.count >= 1
    BY <1>0, <2>0
  <2>. HIDE DEF s, l
  <2>3. FitCount(s, l) > 0
    <3>1. b.agents \in Nat \ {0} /\ b.deep \in Nat /\ b.compute \in Nat /\ l.count \in Int
      BY <2>2 DEF SearchBudgets, WantedLanes
    <3>2. 100 * TierCost[l.tier] = 800
      BY <2>2, TierCosts
    <3>3. FitCount(s, l) = Least(Least(l.count, b.agents), Least(b.deep, b.compute \div 800))
      BY <2>1, <2>2, <3>2 DEF FitCount
    <3>4. b.compute \div 800 \in Int /\ b.compute \div 800 >= 1
      BY <3>1
    <3>. QED BY <2>2, <3>1, <3>3, <3>4 DEF Least
  <2>4. PICK k \in FilledLanes : k.role = l.role /\ FitLane(s, l).lanes = Append(s.lanes, k)
    BY <2>1, <2>2, <2>3, FitLaneKeeps
  <2>5. c[1].lanes = <<k>>
    BY <1>1, <2>0, <2>1, <2>4 DEF s, l
  <2>. QED BY <2>2, <2>4, <2>5
<1>4. ASSUME NEW i \in 2 .. n, v(c[i - 1].lanes) PROVE v(c[i].lanes)
  <2>0. i \in 1 .. n /\ i - 1 \in 0 .. n /\ i \in 0 .. n
    BY <1>4
  <2>. DEFINE t == c[i - 1].lanes
  <2>1. \/ c[i].lanes = t
        \/ \E k \in FilledLanes : c[i].lanes = Append(t, k)
    <3>. DEFINE acc == c[i - 1]
                l == lanes[i]
    <3>1. acc \in Fitted(b, R) /\ l \in WantedLanes /\ l.role \in R /\ c[i] = FitLane(acc, l)
      BY <1>0, <1>1, <2>0
    <3>. HIDE DEF acc, l
    <3>2. \/ c[i].lanes = acc.lanes
          \/ \E k \in FilledLanes : c[i].lanes = Append(acc.lanes, k)
      BY <3>1, FitLaneKeeps
    <3>. QED BY <3>2 DEF acc
  <2>2. v(t)
    BY <1>4
  <2>. HIDE DEF t
  <2>3. ASSUME NEW k \in FilledLanes PROVE v(Append(t, k))
    BY <2>2
  <2>. QED BY <2>1, <2>2, <2>3
<1>. HIDE DEF v
<1>. DEFINE U == {i \in 0 .. n : i > 0 => v(c[i].lanes)}
<1>5. 0 \in U
  OBVIOUS
<1>6. ASSUME NEW i \in 1 .. n, i - 1 \in U PROVE i \in U
  <2>1. CASE i = 1
    BY <2>1, <1>3
  <2>2. CASE i # 1
    <3>1. i \in 2 .. n /\ i - 1 > 0 /\ i \in 0 .. n
      BY <2>2
    <3>2. v(c[i - 1].lanes)
      BY <3>1, <1>6
    <3>. QED BY <3>1, <3>2, <1>4
  <2>. QED BY <2>1, <2>2
<1>. HIDE DEF U
<1>7. \A i \in 0 .. n : i \in U
  BY <1>5, <1>6, IntervalInduction
<1>8. v(c[n].lanes)
  <2>1. n \in 0 .. n /\ n > 0
    OBVIOUS
  <2>. QED BY <2>1, <1>7 DEF U
<1>9. f = c[n].lanes
  BY <1>1, <1>8 DEF v
<1>10. 1 \in DOMAIN f /\ f[1].role = "verifier"
  BY <1>8, <1>9 DEF v
<1>. QED BY <1>10 DEF f

-----------------------------------------------------------------------------
(* The lanes a mode wants.                                                 *)

\* A rounded quotient is a whole number.
LEMMA RoundedType == \A n \in Int, d \in Nat \ {0} : Rounded(n, d) \in Int
<1>. SUFFICES ASSUME NEW n \in Int, NEW d \in Nat \ {0} PROVE Rounded(n, d) \in Int
  OBVIOUS
<1>1. n \div d \in Int
  OBVIOUS
<1>. QED BY <1>1 DEF Rounded

\* Pressure narrows a budget to one inside it; without pressure it stays.
LEMMA NarrowedFits ==
  ASSUME NEW b \in SearchBudgets, NEW r \in 0 .. Whole
  PROVE  LET nb == Narrowed(b, r) IN
         /\ nb \in SearchBudgets
         /\ nb.agents <= b.agents /\ nb.deep <= b.deep /\ nb.exact <= b.exact /\ nb.compute <= b.compute
         /\ r = 0 => nb.deep >= Least(1, b.deep) /\ nb.compute = b.compute
<1>. DEFINE factor == Largest(Pc(25), Whole - (75 * r) \div 100)
            m      == Rounded(b.agents * factor, Whole)
            n      == Largest(1, m)
            q      == (b.compute * factor) \div Whole
            nb     == Narrowed(b, r)
<1>1. /\ b.agents \in Nat \ {0} /\ b.parallel \in Nat \ {0} /\ b.deep \in Nat /\ b.exact \in Nat
      /\ b.compute \in Nat /\ b.compute >= 100
  BY DEF SearchBudgets
<1>2. factor \in Nat /\ factor <= 10000 /\ (r = 0 => factor = 10000)
  BY DEF Largest, Pc, Whole
<1>3. nb = [agents |-> Least(b.agents, n), parallel |-> Least(b.parallel, n), deep |-> Least(b.deep, n),
            exact |-> Least(b.exact, n), compute |-> Largest(100, q)]
  BY DEF Narrowed
<1>. HIDE DEF factor, nb
<1>4. m \in Int
  <2>1. b.agents * factor \in Int /\ Whole \in Nat \ {0}
    BY <1>1, <1>2 DEF Whole
  <2>. QED BY <2>1, RoundedType
<1>. HIDE DEF m
<1>5. n \in Nat \ {0}
  BY <1>4 DEF Largest
<1>. HIDE DEF n
<1>6. q \in Nat /\ q <= b.compute /\ (r = 0 => q = b.compute)
  <2>. DEFINE x == b.compute * factor
  <2>1. x \in Nat /\ x <= b.compute * 10000 /\ (r = 0 => x = b.compute * 10000)
    BY <1>1, <1>2
  <2>2. q = x \div 10000
    BY DEF Whole
  <2>. HIDE DEF x, q
  <2>. QED BY <1>1, <2>1, <2>2
<1>. HIDE DEF q
<1>7. /\ Least(b.agents, n) \in Nat \ {0} /\ Least(b.agents, n) <= b.agents /\ Least(b.parallel, n) \in Nat \ {0}
      /\ Least(b.deep, n) \in Nat /\ Least(b.deep, n) <= b.deep /\ Least(b.exact, n) \in Nat /\ Least(b.exact, n) <= b.exact
      /\ Least(b.deep, n) >= Least(1, b.deep)
  BY <1>1, <1>5 DEF Least
<1>8. /\ Largest(100, q) \in {c \in Nat : c >= 100} /\ Largest(100, q) <= b.compute
      /\ r = 0 => Largest(100, q) = b.compute
  BY <1>1, <1>6 DEF Largest
<1>9. nb \in SearchBudgets
  BY <1>3, <1>7, <1>8 DEF SearchBudgets
<1>10. /\ nb.agents = Least(b.agents, n) /\ nb.deep = Least(b.deep, n) /\ nb.exact = Least(b.exact, n) /\ nb.compute = Largest(100, q)
  BY <1>3
<1>. QED BY <1>7, <1>8, <1>9, <1>10 DEF nb

\* The modes of a phase.
SearchModes == {"diverge", "coordinate", "measure", "anneal", "verify", "perturb", "drain"}

\* Lanes as they are wanted, at least one.
Wanted(lanes) == \E n \in Nat \ {0} : lanes \in [1 .. n -> WantedLanes]

\* A lane with a whole number is one that is wanted.
LEMMA PopLaneIsWanted ==
  ASSUME NEW role \in LaneRoles, NEW tier \in LaneTiers, NEW count \in Int
  PROVE  /\ PopLane(role, tier, count) \in WantedLanes /\ PopLane(role, tier, count).role = role
         /\ PopLane(role, tier, count).tier = tier /\ PopLane(role, tier, count).count = count
  BY DEF PopLane, WantedLanes

\* A few lanes are wanted lanes.
LEMMA FewLanesWanted ==
  ASSUME NEW a \in WantedLanes, NEW b \in WantedLanes, NEW c \in WantedLanes, NEW d \in WantedLanes
  PROVE  Wanted(<<a>>) /\ Wanted(<<a, b>>) /\ Wanted(<<a, b, c>>) /\ Wanted(<<a, b, c, d>>)
<1>1. <<a>> \in [1 .. 1 -> WantedLanes]
  OBVIOUS
<1>2. <<a, b>> \in [1 .. 2 -> WantedLanes]
  OBVIOUS
<1>3. <<a, b, c>> \in [1 .. 3 -> WantedLanes]
  OBVIOUS
<1>4. <<a, b, c, d>> \in [1 .. 4 -> WantedLanes]
  OBVIOUS
<1>. QED BY <1>1, <1>2, <1>3, <1>4 DEF Wanted

\* Shares are whole numbers.
LEMMA ShareType == \A x \in Int, r \in Int : Share(x, r) \in Int
  BY RoundedType, LeastLargest DEF Share

\* What a search observed of the population before it.
SwarmObservations == [independent : Int, correlation : Int, novelty : Int]

\* Diverging wants lanes.
LEMMA DivergeWants ==
  ASSUME NEW b \in SearchBudgets, NEW o \in SwarmObservations
  PROVE  Wanted(Diverge(b, o))
<1>1. b.agents \in Nat \ {0} /\ o.independent \in Int /\ o.correlation \in Int /\ o.novelty \in Int
  BY DEF SearchBudgets, SwarmObservations
<1>. DEFINE ind  == Least(Whole, o.independent \div Largest(1, b.agents))
            coll == Largest(o.correlation, Largest(Whole - o.novelty, Whole - ind))
            x    == b.agents * (Pc(45) + (35 * coll) \div 100)
            w    == CheapWidth(b, o)
            e    == Share(w, 70)
<1>2. ind \in Int
  <2>1. Largest(1, b.agents) = b.agents
    BY <1>1 DEF Largest
  <2>2. o.independent \div b.agents \in Int
    BY <1>1
  <2>. QED BY <2>1, <2>2, LeastLargest DEF Whole
<1>. HIDE DEF ind
<1>3. coll \in Int
  BY <1>1, <1>2 DEF Largest, Whole
<1>. HIDE DEF coll
<1>4. x \in Int
  <2>1. (35 * coll) \div 100 \in Int
    BY <1>3
  <2>. QED BY <2>1, <1>1 DEF Pc
<1>5. w = Least(b.agents, Largest(1, Rounded(x, Whole)))
  BY DEF CheapWidth, x, coll, ind
<1>. HIDE DEF x, w
<1>6. w \in Int
  <2>1. Rounded(x, Whole) \in Int
    BY <1>4, RoundedType DEF Whole
  <2>. QED BY <2>1, <1>1, <1>5 DEF Least, Largest
<1>7. e \in Int
  BY <1>6, ShareType
<1>. HIDE DEF e
<1>8. Largest(1, w - e) \in Int /\ Least(2, b.agents - w) \in Int
  BY <1>1, <1>6, <1>7 DEF Least, Largest
<1>9. Diverge(b, o) = <<PopLane("explorer", "cheap", e), PopLane("mutator", "cheap", Largest(1, w - e)),
                        PopLane("critic", "standard", Least(2, b.agents - w))>>
  BY DEF Diverge, e, w
<1>. DEFINE l1 == PopLane("explorer", "cheap", e)
            l2 == PopLane("mutator", "cheap", Largest(1, w - e))
            l3 == PopLane("critic", "standard", Least(2, b.agents - w))
<1>10. l1 \in WantedLanes /\ l2 \in WantedLanes /\ l3 \in WantedLanes
  BY <1>7, <1>8, PopLaneIsWanted DEF LaneRoles, LaneTiers
<1>. HIDE DEF l1, l2, l3
<1>. QED BY <1>9, <1>10, FewLanesWanted DEF l1, l2, l3

\* So does coordinating.
LEMMA CoordinateWants ==
  ASSUME NEW b \in SearchBudgets
  PROVE  Wanted(Coordinate(b))
<1>1. b.agents \in Nat \ {0}
  BY DEF SearchBudgets
<1>. DEFINE total == Least(b.agents, Largest(4, Rounded(b.agents * 65, 100)))
            e == Share(total, 40)
            s == Share(total, 20)
            v == Largest(1, total - e - s - s)
<1>2. total \in Int
  <2>1. b.agents * 65 \in Int /\ 100 \in Nat \ {0}
    BY <1>1
  <2>2. Rounded(b.agents * 65, 100) \in Int
    BY <2>1, RoundedType
  <2>. QED BY <1>1, <2>2 DEF Least, Largest
<1>4. Coordinate(b) = <<PopLane("explorer", "cheap", e), PopLane("synthesizer", "standard", s), PopLane("critic", "standard", s),
                        PopLane("verifier", "standard", v)>>
  BY DEF Coordinate
<1>. HIDE DEF total
<1>3. e \in Int /\ s \in Int
  BY <1>2, ShareType
<1>. HIDE DEF e, s
<1>5. v \in Int
  BY <1>2, <1>3, LeastLargest
<1>. HIDE DEF v
<1>. DEFINE l1 == PopLane("explorer", "cheap", e)
            l2 == PopLane("synthesizer", "standard", s)
            l3 == PopLane("critic", "standard", s)
            l4 == PopLane("verifier", "standard", v)
<1>6. l1 \in WantedLanes /\ l2 \in WantedLanes /\ l3 \in WantedLanes /\ l4 \in WantedLanes
  BY <1>3, <1>5, PopLaneIsWanted DEF LaneRoles, LaneTiers
<1>. HIDE DEF l1, l2, l3, l4
<1>. QED BY <1>4, <1>6, FewLanesWanted DEF l1, l2, l3, l4

\* With a deep place, measuring starts with a deep verifier.
LEMMA MeasureWants ==
  ASSUME NEW b \in SearchBudgets, NEW h \in {0, 1}
  PROVE  /\ Wanted(Measure(b, h))
         /\ b.deep >= 1 => /\ Measure(b, h)[1].role = "verifier" /\ Measure(b, h)[1].tier = "deep"
                           /\ Measure(b, h)[1].count >= 1
<1>1. b.agents \in Nat \ {0} /\ b.deep \in Nat /\ b.parallel \in Nat
  BY DEF SearchBudgets
<1>. DEFINE deep     == Least(b.deep, Largest(1, Least(h, b.deep)))
            standard == Least(Largest(2, b.agents - deep), Largest(2, b.parallel))
            half     == Largest(1, standard \div 2)
            third    == Largest(1, standard \div 3)
            l1 == IF deep > 0 THEN PopLane("verifier", "deep", deep) ELSE PopLane("verifier", "standard", half)
            l2 == PopLane("critic", "standard", half)
            l3 == PopLane("red_team", "standard", third)
<1>2. deep \in Int /\ (b.deep >= 1 => deep >= 1)
  BY <1>1 DEF Least, Largest
<1>3. Measure(b, h) = <<l1, l2, l3>>
  BY DEF Measure
<1>. HIDE DEF deep
<1>4. standard \in Int
  BY <1>1, <1>2 DEF Least, Largest
<1>. HIDE DEF standard
<1>5. half \in Int /\ third \in Int
  <2>1. standard \div 2 \in Int /\ standard \div 3 \in Int
    BY <1>4
  <2>. QED BY <2>1 DEF Largest
<1>. HIDE DEF half, third
<1>6. l1 \in WantedLanes /\ l2 \in WantedLanes /\ l3 \in WantedLanes
  BY <1>2, <1>5, PopLaneIsWanted DEF LaneRoles, LaneTiers
<1>7. b.deep >= 1 => l1.role = "verifier" /\ l1.tier = "deep" /\ l1.count >= 1
  BY <1>2, PopLaneIsWanted DEF LaneRoles, LaneTiers
<1>. HIDE DEF l1, l2, l3
<1>8. <<l1, l2, l3>>[1] = l1
  OBVIOUS
<1>9. Wanted(<<l1, l2, l3>>)
  BY <1>6, FewLanesWanted
<1>. QED BY <1>3, <1>7, <1>8, <1>9

\* Perturbing wants lanes.
LEMMA PerturbWants ==
  ASSUME NEW b \in SearchBudgets
  PROVE  Wanted(Perturb(b))
<1>1. b.agents \in Nat \ {0}
  BY DEF SearchBudgets
<1>. DEFINE total == Least(b.agents, Largest(3, Rounded(b.agents * 50, 100)))
            l1 == PopLane("explorer", "cheap", Largest(2, total \div 2))
            l2 == PopLane("mutator", "cheap", Largest(1, total \div 3))
            l3 == PopLane("critic", "standard", 1)
<1>2. total \in Int
  <2>1. b.agents * 50 \in Int /\ 100 \in Nat \ {0}
    BY <1>1
  <2>2. Rounded(b.agents * 50, 100) \in Int
    BY <2>1, RoundedType
  <2>. QED BY <1>1, <2>2 DEF Least, Largest
<1>3. Perturb(b) = <<l1, l2, l3>>
  BY DEF Perturb
<1>. HIDE DEF total
<1>4. Largest(2, total \div 2) \in Int /\ Largest(1, total \div 3) \in Int
  <2>1. total \div 2 \in Int /\ total \div 3 \in Int
    BY <1>2
  <2>. QED BY <2>1, LeastLargest
<1>5. l1 \in WantedLanes /\ l2 \in WantedLanes /\ l3 \in WantedLanes
  BY <1>4, PopLaneIsWanted DEF LaneRoles, LaneTiers
<1>. HIDE DEF l1, l2, l3
<1>. QED BY <1>3, <1>5, FewLanesWanted

\* Draining wants memory and verifiers only.
LEMMA DrainWants ==
  ASSUME NEW b \in SearchBudgets
  PROVE  Wanted(Drain(b)) /\ \A i \in DOMAIN Drain(b) : Drain(b)[i].role \in {"memory", "verifier"}
<1>1. b.agents \in Nat \ {0}
  BY DEF SearchBudgets
<1>. DEFINE l1 == PopLane("memory", "cheap", 1)
            l2 == PopLane("verifier", "standard", Least(2, b.agents - 1))
<1>2. Least(2, b.agents - 1) \in Int
  BY <1>1 DEF Least
<1>3. l1 \in WantedLanes /\ l2 \in WantedLanes /\ l1.role = "memory" /\ l2.role = "verifier"
  BY <1>2, PopLaneIsWanted DEF LaneRoles, LaneTiers
<1>4. Drain(b) = <<l1, l2>>
  BY DEF Drain
<1>. HIDE DEF l1, l2
<1>5. DOMAIN <<l1, l2>> = {1, 2} /\ <<l1, l2>>[1] = l1 /\ <<l1, l2>>[2] = l2
  OBVIOUS
<1>. QED BY <1>3, <1>4, <1>5, FewLanesWanted

\* Verifying wants a lane.
LEMMA VerifyWants ==
  ASSUME NEW b \in SearchBudgets
  PROVE  Wanted(Verify(b))
<1>1. Least(b.deep, 1) \in Int
  BY LeastLargest DEF SearchBudgets
<1>2. PopLane("red_team", "deep", Least(b.deep, 1)) \in WantedLanes
  BY <1>1, PopLaneIsWanted DEF LaneRoles, LaneTiers
<1>. QED BY <1>2, FewLanesWanted DEF Verify

\* What allocation wants, whatever the mode.
LEMMA AllocatedWants ==
  ASSUME NEW mode \in SearchModes, NEW b \in SearchBudgets, NEW o \in SwarmObservations, NEW h \in {0, 1}
  PROVE  LET lanes == Allocated(mode, b, o, h) IN
         /\ Wanted(lanes)
         /\ mode = "drain" => \A i \in DOMAIN lanes : lanes[i].role \in {"memory", "verifier"}
         /\ mode = "measure" /\ b.deep >= 1 =>
              lanes[1].role = "verifier" /\ lanes[1].tier = "deep" /\ lanes[1].count >= 1
<1>1. CASE mode = "diverge"
  BY <1>1, DivergeWants DEF Allocated
<1>2. CASE mode = "coordinate"
  BY <1>2, CoordinateWants DEF Allocated
<1>3. CASE mode \in {"measure", "anneal"}
  <2>1. Allocated(mode, b, o, h) = Measure(b, h)
    BY <1>3 DEF Allocated
  <2>. QED BY <1>3, <2>1, MeasureWants
<1>4. CASE mode = "verify"
  BY <1>4, VerifyWants DEF Allocated
<1>5. CASE mode = "perturb"
  BY <1>5, PerturbWants DEF Allocated
<1>6. CASE mode = "drain"
  <2>1. Allocated(mode, b, o, h) = Drain(b)
    BY <1>6 DEF Allocated
  <2>. QED BY <1>6, <2>1, DrainWants
<1>. QED BY <1>1, <1>2, <1>3, <1>4, <1>5, <1>6 DEF SearchModes

\* Caps are naturals.
CapsAreNatural(caps) == \A role \in DOMAIN caps : caps[role] \in Nat

\* Caps keep lanes of those wanted; a first deep verifier that is not capped away stays the first.
LEMMA CapsKeep ==
  ASSUME NEW lanes, Wanted(lanes), NEW caps, CapsAreNatural(caps)
  PROVE  LET kept == ApplyRoleCaps(lanes, caps) IN
         /\ Len(kept) \in Nat /\ kept \in [1 .. Len(kept) -> WantedLanes]
         /\ \A a \in 1 .. Len(kept) : \E j \in DOMAIN lanes : kept[a].role = lanes[j].role
         /\ (/\ lanes[1].role = "verifier" /\ lanes[1].tier = "deep" /\ lanes[1].count >= 1
             /\ "verifier" \in DOMAIN caps => caps["verifier"] >= 1)
            => Len(kept) > 0 /\ kept[1].role = "verifier" /\ kept[1].tier = "deep" /\ kept[1].count >= 1
<1>. DEFINE capped == [i \in DOMAIN lanes |-> IF lanes[i].role \in DOMAIN caps
                                              THEN [lanes[i] EXCEPT !.count = Least(@, caps[lanes[i].role])] ELSE lanes[i]]
            some == {l \in {capped[i] : i \in DOMAIN capped} : l.count > 0}
            kept == ApplyRoleCaps(lanes, caps)
<1>1. PICK n \in Nat \ {0} : lanes \in [1 .. n -> WantedLanes]
  BY DEF Wanted
<1>2. kept = Keep(capped, some)
  BY DEF ApplyRoleCaps
<1>3. ASSUME NEW i \in 1 .. n
      PROVE  /\ capped[i] \in WantedLanes /\ capped[i].role = lanes[i].role /\ capped[i].tier = lanes[i].tier
             /\ capped[i].count = IF lanes[i].role \in DOMAIN caps THEN Least(lanes[i].count, caps[lanes[i].role]) ELSE lanes[i].count
  <2>0. i \in DOMAIN lanes /\ lanes[i] \in WantedLanes
    BY <1>1, <1>3
  <2>. DEFINE l == lanes[i]
              m == Least(l.count, caps[l.role])
  <2>1. capped[i] = IF l.role \in DOMAIN caps THEN [l EXCEPT !.count = m] ELSE l
    BY <2>0
  <2>2. l \in WantedLanes /\ l.count \in Int
    BY <2>0 DEF WantedLanes
  <2>. HIDE DEF l, capped
  <2>3. l.role \in DOMAIN caps => m \in Int
    BY <2>2 DEF Least, CapsAreNatural
  <2>4. CASE l.role \in DOMAIN caps
    <3>1. capped[i] = [l EXCEPT !.count = m] /\ m \in Int
      BY <2>1, <2>3, <2>4
    <3>. HIDE DEF m
    <3>2. capped[i] \in WantedLanes /\ capped[i].role = l.role /\ capped[i].tier = l.tier /\ capped[i].count = m
      BY <2>2, <3>1 DEF WantedLanes
    <3>. QED BY <2>4, <3>2 DEF l, m
  <2>5. CASE l.role \notin DOMAIN caps
    BY <2>1, <2>2, <2>5 DEF l
  <2>. QED BY <2>4, <2>5
<1>4. DOMAIN capped = 1 .. n /\ DOMAIN lanes = 1 .. n
  BY <1>1
<1>5. capped \in [1 .. n -> WantedLanes]
  BY <1>3, <1>4
<1>6. \A i \in 1 .. n : capped[i].count > 0 => capped[i] \in some
  BY <1>4
<1>. HIDE DEF capped, some, kept
<1>7. kept \in Seq(WantedLanes) /\ KeptOf(kept, capped, n, some)
  BY <1>2, <1>5, KeepFacts
<1>8. Len(kept) \in Nat /\ kept \in [1 .. Len(kept) -> WantedLanes]
  BY <1>7
<1>9. ASSUME NEW a \in 1 .. Len(kept) PROVE \E j \in DOMAIN lanes : kept[a].role = lanes[j].role
  <2>1. PICK j \in 1 .. n : kept[a] = capped[j]
    BY <1>7, <1>9 DEF KeptOf
  <2>. QED BY <2>1, <1>3, <1>4
<1>10. ASSUME lanes[1].role = "verifier", lanes[1].tier = "deep", lanes[1].count >= 1,
              "verifier" \in DOMAIN caps => caps["verifier"] >= 1
       PROVE  Len(kept) > 0 /\ kept[1].role = "verifier" /\ kept[1].tier = "deep" /\ kept[1].count >= 1
  <2>1. 1 \in 1 .. n /\ n > 0
    OBVIOUS
  <2>2. capped[1].role = "verifier" /\ capped[1].tier = "deep"
    BY <1>3, <1>10, <2>1
  <2>3. lanes[1].count \in Int
    BY <1>1, <2>1 DEF WantedLanes
  <2>4. capped[1].count \in Int /\ capped[1].count >= 1
    BY <1>3, <1>10, <2>1, <2>3 DEF CapsAreNatural, Least
  <2>5. capped[1] \in some
    BY <1>6, <2>1, <2>4
  <2>6. Len(kept) > 0 /\ kept[1] = capped[1]
    BY <1>7, <2>1, <2>5 DEF KeptOf
  <2>. QED BY <2>2, <2>4, <2>6
<1>. QED BY <1>8, <1>9, <1>10 DEF kept

\* The population of a round: inside its budget, without explorers when it drains, and with a verifier when it
\* measures with a deep place, its compute, and a cap that leaves one.
LEMMA PopulationFits ==
  ASSUME NEW mode \in SearchModes, NEW b \in SearchBudgets, NEW o \in SwarmObservations, NEW h \in {0, 1},
         NEW caps, CapsAreNatural(caps)
  PROVE  LET lanes == FitBudget(ApplyRoleCaps(Allocated(mode, b, o, h), caps), b) IN
         /\ lanes \in Seq(FilledLanes) /\ Inside(lanes, b)
         /\ mode = "drain" => \A i \in DOMAIN lanes : lanes[i].role \notin {"explorer", "mutator"}
         /\ mode = "measure" /\ b.deep >= 1 /\ b.compute >= 800 /\ ("verifier" \in DOMAIN caps => caps["verifier"] >= 1)
              => \E i \in DOMAIN lanes : lanes[i].role = "verifier"
<1>. DEFINE w == Allocated(mode, b, o, h)
            k == ApplyRoleCaps(w, caps)
            lanes == FitBudget(k, b)
            R == {w[j].role : j \in DOMAIN w}
<1>1. /\ Wanted(w)
      /\ mode = "drain" => \A i \in DOMAIN w : w[i].role \in {"memory", "verifier"}
      /\ mode = "measure" /\ b.deep >= 1 => w[1].role = "verifier" /\ w[1].tier = "deep" /\ w[1].count >= 1
  BY AllocatedWants
<1>. HIDE DEF w
<1>2. /\ Len(k) \in Nat /\ k \in [1 .. Len(k) -> WantedLanes]
      /\ \A a \in 1 .. Len(k) : \E j \in DOMAIN w : k[a].role = w[j].role
      /\ (/\ w[1].role = "verifier" /\ w[1].tier = "deep" /\ w[1].count >= 1
          /\ "verifier" \in DOMAIN caps => caps["verifier"] >= 1)
         => Len(k) > 0 /\ k[1].role = "verifier" /\ k[1].tier = "deep" /\ k[1].count >= 1
  BY <1>1, CapsKeep
<1>. HIDE DEF k
<1>3. \A a \in 1 .. Len(k) : k[a].role \in R
  BY <1>2
<1>. HIDE DEF R
<1>4. lanes \in Seq(FilledLanes) /\ Inside(lanes, b) /\ \A a \in 1 .. Len(lanes) : lanes[a].role \in R \cup {"memory"}
  BY <1>2, <1>3, FitBudgetFits
<1>5. ASSUME mode = "measure", b.deep >= 1, b.compute >= 800, "verifier" \in DOMAIN caps => caps["verifier"] >= 1
      PROVE  \E i \in DOMAIN lanes : lanes[i].role = "verifier"
  <2>1. w[1].role = "verifier" /\ w[1].tier = "deep" /\ w[1].count >= 1
    BY <1>1, <1>5
  <2>2. Len(k) \in Nat \ {0} /\ k[1].role = "verifier" /\ k[1].tier = "deep" /\ k[1].count >= 1
    BY <1>2, <1>5, <2>1
  <2>. QED BY <1>2, <1>5, <2>2, FirstVerifierFits
<1>. HIDE DEF lanes
<1>6. ASSUME mode = "drain" PROVE \A i \in DOMAIN lanes : lanes[i].role \notin {"explorer", "mutator"}
  <2>1. R \subseteq {"memory", "verifier"}
    BY <1>1, <1>6 DEF R
  <2>2. DOMAIN lanes = 1 .. Len(lanes)
    BY <1>4
  <2>. QED BY <2>1, <2>2, <1>4
<1>. QED BY <1>4, <1>5, <1>6 DEF lanes, k, w

-----------------------------------------------------------------------------
(* What a report says for the next round.                                  *)

\* A rate of naturals is one.
LEMMA RateOfNaturals == \A n \in Nat, d \in Nat : Rate(n, d) \in Nat
<1>. SUFFICES ASSUME NEW n \in Nat, NEW d \in Nat PROVE Rate(n, d) \in Nat
  OBVIOUS
<1>1. CASE d = 0
  BY <1>1 DEF Rate
<1>2. CASE d # 0
  <2>1. n * 10000 \in Nat /\ (n * 10000) \div d \in Int /\ (n * 10000) \div d >= 0
    BY <1>2
  <2>. QED BY <1>2, <2>1 DEF Rate, Whole
<1>. QED BY <1>1, <1>2

\* The pairs of n things.
LEMMA PairsAreNatural == \A n \in Nat : n * (n - 1) \in Nat
<1>. SUFFICES ASSUME NEW n \in Nat PROVE n * (n - 1) \in Nat
  OBVIOUS
<1>1. n = 0 \/ n - 1 \in Nat
  OBVIOUS
<1>. QED BY <1>1

\* A sum over some of the lanes is a natural.
LEMMA SomeLanesSum ==
  ASSUME NEW lanes \in Seq(FilledLanes), NEW D
  PROVE  SumOf([i \in DOMAIN lanes |-> IF i \in D THEN lanes[i].count ELSE 0]) \in Nat
<1>. DEFINE f == [i \in DOMAIN lanes |-> IF i \in D THEN lanes[i].count ELSE 0]
<1>1. Len(lanes) \in Nat /\ DOMAIN lanes = 1 .. Len(lanes)
  OBVIOUS
<1>2. \A i \in DOMAIN lanes : lanes[i].count \in Nat
  <2>1. \A i \in DOMAIN lanes : lanes[i] \in FilledLanes
    OBVIOUS
  <2>. QED BY <2>1 DEF FilledLanes
<1>3. f \in [1 .. Len(lanes) -> Nat]
  BY <1>1, <1>2
<1>. HIDE DEF f
<1>4. SumOf(f) \in Nat
  BY <1>1, <1>3, SumType
<1>. QED BY <1>4 DEF f

\* The telemetry of a population is made of whole numbers.
LEMMA TelemetryType ==
  ASSUME NEW r, NEW lanes \in Seq(FilledLanes)
  PROVE  LET t == Telemetry(r, lanes) IN
         /\ t.answered \in Nat /\ t.correlation \in Int /\ t.independent \in Int /\ t.disagreement \in Int /\ t.verified \in Nat
<1>. DEFINE alike    == CountWhere(r, lanes, {"alike"})
            answered == CountWhere(r, lanes, {"alike", "apart"})
            outputs  == answered - alike + (IF alike > 0 THEN 1 ELSE 0)
            mean     == Rate(alike * (alike - 1), answered * (answered - 1))
            verified == SumOf([i \in DOMAIN lanes |-> IF lanes[i].role \in VerifierRoles /\ r.verify # "silent" THEN lanes[i].count ELSE 0])
            indep    == IF answered = 0 THEN 0 ELSE (answered * Whole * Whole) \div (Whole + (answered - 1) * mean)
            dis      == IF answered < 2 THEN 0 ELSE Rate(outputs - 1, answered - 1)
            t        == Telemetry(r, lanes)
<1>1. /\ t.answered = answered /\ t.correlation = mean /\ t.independent = indep /\ t.disagreement = dis /\ t.verified = verified
  BY DEF Telemetry
<1>2. alike \in Nat /\ answered \in Nat
  <2>1. ASSUME NEW as PROVE CountWhere(r, lanes, as) \in Nat
    <3>. DEFINE D == {i \in DOMAIN lanes : AnswerOf(r, lanes[i]) \in as}
    <3>1. [i \in DOMAIN lanes |-> IF AnswerOf(r, lanes[i]) \in as THEN lanes[i].count ELSE 0]
            = [i \in DOMAIN lanes |-> IF i \in D THEN lanes[i].count ELSE 0]
      OBVIOUS
    <3>. HIDE DEF D
    <3>. QED BY <3>1, SomeLanesSum DEF CountWhere
  <2>. QED BY <2>1
<1>3. verified \in Nat
  <2>. DEFINE D == {i \in DOMAIN lanes : lanes[i].role \in VerifierRoles /\ r.verify # "silent"}
  <2>1. [i \in DOMAIN lanes |-> IF lanes[i].role \in VerifierRoles /\ r.verify # "silent" THEN lanes[i].count ELSE 0]
          = [i \in DOMAIN lanes |-> IF i \in D THEN lanes[i].count ELSE 0]
    OBVIOUS
  <2>. HIDE DEF D
  <2>. QED BY <2>1, SomeLanesSum
<1>. HIDE DEF alike, answered, verified, t
<1>4. mean \in Nat
  BY <1>2, PairsAreNatural, RateOfNaturals
<1>. HIDE DEF mean
<1>5. indep \in Int
  <2>1. CASE answered = 0
    BY <2>1
  <2>2. CASE answered # 0
    <3>. DEFINE x == answered * Whole * Whole
                y == (answered - 1) * mean
    <3>1. answered - 1 \in Nat
      BY <1>2, <2>2
    <3>2. x \in Int /\ y \in Nat
      BY <1>2, <1>4, <3>1 DEF Whole
    <3>. HIDE DEF x, y
    <3>3. Whole + y \in Nat \ {0}
      BY <3>2 DEF Whole
    <3>4. x \div (Whole + y) \in Int
      BY <3>2, <3>3
    <3>. QED BY <2>2, <3>4 DEF x, y
  <2>. QED BY <2>1, <2>2
<1>6. dis \in Int
  <2>1. CASE answered < 2
    BY <2>1
  <2>2. CASE ~(answered < 2)
    <3>1. outputs - 1 \in Int /\ answered - 1 \in Nat
      BY <1>2, <2>2
    <3>. HIDE DEF outputs
    <3>2. Rate(outputs - 1, answered - 1) \in Int
      BY <3>1, RateType
    <3>. QED BY <2>2, <3>2
  <2>. QED BY <2>1, <2>2
<1>. HIDE DEF indep, dis
<1>7. t.answered \in Nat /\ t.correlation \in Int /\ t.independent \in Int /\ t.disagreement \in Int /\ t.verified \in Nat
  BY <1>1, <1>2, <1>3, <1>4, <1>5, <1>6
<1>. QED BY <1>7 DEF t

\* The information of a lane, in whole numbers.
LEMMA LaneValueType ==
  ASSUME NEW r, NEW t, t.disagreement \in Int, t.correlation \in Int, NEW l \in FilledLanes
  PROVE  LaneValue(r, t, l).value \in Int /\ LaneValue(r, t, l).correlation \in Int
<1>. DEFINE a           == AnswerOf(r, l)
            answered    == a # "silent"
            correlation == IF a = "alike" /\ l.count > 1 THEN Whole ELSE 0
            novelty     == IF a = "apart" THEN Whole ELSE IF a = "alike" THEN Rate(1, l.count) ELSE 0
            evidence    == IF a = "apart" THEN Whole ELSE 0
            pressure    == IF l.role \in VerifierRoles THEN t.disagreement ELSE Whole - t.correlation
            said        == IF answered THEN 20 * Whole ELSE 0
            sum         == 30 * novelty + 20 * evidence + said + 20 * pressure + 10 * (Whole - evidence)
            expected    == Clamp(sum \div 100)
            v           == LaneValue(r, t, l)
<1>1. v.correlation = correlation /\ v.value = ((Whole - correlation) * expected) \div (Whole * TierCost[l.tier])
  BY DEF LaneValue
<1>2. l.count \in Nat /\ TierCost[l.tier] \in Nat \ {0}
  BY TierCosts DEF FilledLanes
<1>3. correlation \in Int /\ evidence \in Int /\ pressure \in Int /\ said \in Int
  BY DEF Whole
<1>4. novelty \in Int
  <2>1. Rate(1, l.count) \in Int
    BY <1>2, RateType
  <2>. QED BY <2>1 DEF Whole
<1>. HIDE DEF correlation, evidence, pressure, said, novelty, a, v
<1>5. sum \in Int
  BY <1>3, <1>4 DEF Whole
<1>. HIDE DEF sum
<1>6. expected \in Int
  <2>1. sum \div 100 \in Int
    BY <1>5
  <2>. QED BY <2>1 DEF Clamp, Least, Largest, Whole
<1>. HIDE DEF expected
<1>7. v.value \in Int
  <2>. DEFINE x == (Whole - correlation) * expected
              y == Whole * TierCost[l.tier]
  <2>1. x \in Int /\ y \in Nat \ {0}
    BY <1>2, <1>3, <1>6 DEF Whole
  <2>. HIDE DEF x, y
  <2>2. x \div y \in Int
    BY <2>1
  <2>. QED BY <2>2, <1>1 DEF x, y
<1>. QED BY <1>1, <1>3, <1>7 DEF v

\* The count recommended for a lane is a natural.
LEMMA RecommendedType ==
  ASSUME NEW r, NEW t, t.disagreement \in Int, t.correlation \in Int, NEW l \in FilledLanes
  PROVE  Recommended(r, t, l) \in Nat
<1>. DEFINE v      == LaneValue(r, t, l)
            scaled == CeilDiv(l.count * Largest(Pc(25), Least(Whole, (v.value * Whole) \div (4 * MinValue))), Whole)
            kept   == IF v.value < MinValue THEN 0 ELSE Largest(1, Least(l.count, scaled))
            capped == IF v.correlation >= Pc(85) /\ l.count > 1 THEN Least(kept, 1) ELSE kept
<1>1. v.value \in Int /\ v.correlation \in Int
  BY LaneValueType
<1>2. l.count \in Nat
  BY DEF FilledLanes
<1>3. Recommended(r, t, l) = IF l.role \in VerifierRoles /\ t.disagreement >= Pc(55) THEN Largest(capped, 1) ELSE capped
  BY DEF Recommended
<1>. HIDE DEF v
<1>4. scaled \in Int
  <2>. DEFINE q == (v.value * Whole) \div (4 * MinValue)
              g == Largest(Pc(25), Least(Whole, q))
  <2>1. q \in Int
    BY <1>1 DEF MinValue, Pc, Whole
  <2>. HIDE DEF q
  <2>2. g \in Int
    BY <2>1 DEF Largest, Least, Pc, Whole
  <2>. HIDE DEF g
  <2>3. l.count * g + Whole - 1 \in Int
    BY <2>2, <1>2 DEF Whole
  <2>4. CeilDiv(l.count * g, Whole) \in Int
    BY <2>3 DEF CeilDiv, Whole
  <2>. QED BY <2>4 DEF g, q
<1>. HIDE DEF scaled
<1>5. kept \in Nat
  BY <1>2, <1>4 DEF Largest, Least
<1>. HIDE DEF kept
<1>6. capped \in Nat
  BY <1>5 DEF Least
<1>. HIDE DEF capped
<1>. QED BY <1>3, <1>6 DEF Largest

\* The operator's envelope.
LEMMA BaseBudgetType == BaseBudget \in SearchBudgets /\ BaseBudget.deep >= 1 /\ BaseBudget.compute >= 1600
<1>1. MaxCandidates \in Nat \ {0} /\ MaxAtOnce \in Nat \ {0}
  BY SearchAssumption
<1>. DEFINE agents == Largest(1, 4 * MaxCandidates)
            p == Largest(1, Least(MaxAtOnce, agents))
            d == Largest(1, Least(MaxAtOnce, 4))
            e == Least(2, Largest(1, MaxAtOnce))
            c == 100 * Largest(16, 12 * MaxCandidates)
<1>2. agents \in Nat \ {0}
  BY <1>1 DEF Largest
<1>3. BaseBudget = [agents |-> agents, parallel |-> p, deep |-> d, exact |-> e, compute |-> c]
  BY DEF BaseBudget
<1>. HIDE DEF agents
<1>4. p \in Nat \ {0} /\ d \in Nat /\ d >= 1 /\ e \in Nat
  BY <1>1, <1>2 DEF Largest, Least
<1>5. c \in Nat /\ c >= 1600
  BY <1>1 DEF Largest
<1>. HIDE DEF p, d, e, c
<1>. QED BY <1>2, <1>3, <1>4, <1>5 DEF SearchBudgets

\* The envelope of a drain.
LEMMA DrainBudgetType == DrainBudget \in SearchBudgets
  BY DEF DrainBudget, SearchBudgets

\* What a decision says for the next round.  An unproven disagreement asks for a measurement and leaves a deep
\* place, the compute of a deep verifier, and a cap that lets one in.
SoundDecision(d) ==
  /\ CapsAreNatural(d.caps) /\ d.mode \in SearchModes \cup {"none"} /\ d.budget \in SearchBudgets
  /\ d.unproven => /\ d.mode = "measure" /\ d.budget.deep >= 1 /\ d.budget.compute >= 800
                   /\ "verifier" \in DOMAIN d.caps => d.caps["verifier"] >= 1

\* The decision after a population that ran.
LEMMA DecisionIsSound ==
  ASSUME NEW r, NEW lanes \in Seq(FilledLanes), NEW base \in SearchBudgets, base.deep >= 1, base.compute >= 1600
  PROVE  SoundDecision(Decision(r, lanes, base))
<1>. DEFINE t         == Telemetry(r, lanes)
            counts    == [i \in DOMAIN lanes |-> Recommended(r, t, lanes[i])]
            below     == \A i \in DOMAIN lanes : LaneValue(r, t, lanes[i]).value < MinValue
            settled   == t.answered > 0 /\ t.disagreement <= Pc(15) /\ below
            unproven  == t.disagreement >= Pc(55) /\ t.verified < 1
            collapsed == t.correlation >= Pc(85) /\ t.independent <= Largest(Whole, Largest(1, t.answered) * Pc(35))
            reserve   == IF ~settled /\ unproven /\ base.deep > 0 THEN 1 ELSE 0
            roles     == {lanes[i].role : i \in DOMAIN lanes} \cup (IF reserve = 1 THEN {"verifier"} ELSE {})
            of(role)  == SumOf([i \in DOMAIN lanes |-> IF lanes[i].role = role THEN counts[i] ELSE 0])
            caps      == [role \in roles |-> Largest(IF role = "verifier" THEN reserve ELSE 0, of(role))]
            kept      == Largest(1, Least(base.agents, SumOf(counts)))
            tier(x)   == SumOf([i \in DOMAIN lanes |-> IF lanes[i].tier = x THEN counts[i] ELSE 0])
            raw       == SumOf([i \in DOMAIN lanes |-> counts[i] * TierCost[lanes[i].tier]])
            compute   == ReservedCompute(100 * raw, reserve, base)
            narrow    == [agents |-> kept, parallel |-> Least(base.parallel, kept),
                          deep |-> Least(Least(base.deep, Largest(tier("deep"), reserve)), kept),
                          exact |-> Least(Least(base.exact, tier("exact")), kept),
                          compute |-> Least(base.compute, Largest(100, compute))]
            d         == Decision(r, lanes, base)
<1>0. d = [stop |-> settled, caps |-> caps, unproven |-> unproven /\ ~settled,
           mode |-> IF settled THEN "drain" ELSE IF unproven THEN "measure" ELSE IF collapsed THEN "perturb" ELSE "none",
           budget |-> IF settled THEN DrainBudget ELSE narrow]
  BY DEF Decision
<1>1. /\ d.caps = caps /\ (d.unproven => unproven /\ ~settled)
      /\ d.mode = IF settled THEN "drain" ELSE IF unproven THEN "measure" ELSE IF collapsed THEN "perturb" ELSE "none"
      /\ d.budget = IF settled THEN DrainBudget ELSE narrow
  <2>. HIDE DEF d, settled, unproven, collapsed, caps, narrow
  <2>1. d.caps = caps
    BY <1>0
  <2>. DEFINE u == unproven /\ ~settled
  <2>2. d.unproven = u
    <3>. HIDE DEF u
    <3>1. d = [stop |-> settled, caps |-> caps, unproven |-> u,
               mode |-> IF settled THEN "drain" ELSE IF unproven THEN "measure" ELSE IF collapsed THEN "perturb" ELSE "none",
               budget |-> IF settled THEN DrainBudget ELSE narrow]
      BY <1>0 DEF u
    <3>. QED BY <3>1
  <2>3. d.mode = IF settled THEN "drain" ELSE IF unproven THEN "measure" ELSE IF collapsed THEN "perturb" ELSE "none"
    BY <1>0
  <2>4. d.budget = IF settled THEN DrainBudget ELSE narrow
    BY <1>0
  <2>5. d.unproven => unproven /\ ~settled
    <3>1. ASSUME ~u PROVE ~d.unproven
      <4>1. u = FALSE
        BY <3>1
      <4>. HIDE DEF u
      <4>2. d.unproven = FALSE
        BY <4>1, <2>2
      <4>. QED BY <4>2
    <3>. QED BY <3>1 DEF u
  <2>. QED BY <2>1, <2>3, <2>4, <2>5
<1>2. /\ base.agents \in Nat \ {0} /\ base.parallel \in Nat \ {0} /\ base.deep \in Nat /\ base.exact \in Nat
      /\ base.compute \in Nat
  BY DEF SearchBudgets
<1>3. reserve \in {0, 1} /\ (unproven /\ ~settled => reserve = 1)
  BY <1>2
<1>4. t.disagreement \in Int /\ t.correlation \in Int
  BY TelemetryType
<1>. HIDE DEF t, settled, unproven, collapsed, d
<1>5. Len(lanes) \in Nat /\ DOMAIN lanes = 1 .. Len(lanes) /\ \A i \in DOMAIN lanes : lanes[i] \in FilledLanes
  OBVIOUS
<1>6. \A i \in DOMAIN lanes : counts[i] \in Nat /\ TierCost[lanes[i].tier] \in Nat
  BY <1>4, <1>5, RecommendedType, TierCosts DEF FilledLanes
<1>7. counts \in [1 .. Len(lanes) -> Nat]
  BY <1>5, <1>6
<1>. HIDE DEF counts
<1>8. SumOf(counts) \in Nat
  BY <1>5, <1>7, SumType
<1>9. ASSUME NEW role PROVE of(role) \in Nat
  <2>. DEFINE f == [i \in DOMAIN lanes |-> IF lanes[i].role = role THEN counts[i] ELSE 0]
  <2>1. f \in [1 .. Len(lanes) -> Nat]
    BY <1>5, <1>6
  <2>. HIDE DEF f
  <2>2. SumOf(f) \in Nat
    BY <1>5, <2>1, SumType
  <2>. QED BY <2>2 DEF f
<1>10. ASSUME NEW x PROVE tier(x) \in Nat
  <2>. DEFINE f == [i \in DOMAIN lanes |-> IF lanes[i].tier = x THEN counts[i] ELSE 0]
  <2>1. f \in [1 .. Len(lanes) -> Nat]
    BY <1>5, <1>6
  <2>. HIDE DEF f
  <2>2. SumOf(f) \in Nat
    BY <1>5, <2>1, SumType
  <2>. QED BY <2>2 DEF f
<1>11. raw \in Nat
  <2>. DEFINE f == [i \in DOMAIN lanes |-> counts[i] * TierCost[lanes[i].tier]]
  <2>1. f \in [1 .. Len(lanes) -> Nat]
    BY <1>5, <1>6
  <2>. HIDE DEF f
  <2>2. SumOf(f) \in Nat
    BY <1>5, <2>1, SumType
  <2>. QED BY <2>2 DEF f
<1>. HIDE DEF of, tier, raw, reserve, roles
<1>12. CapsAreNatural(caps) /\ (reserve = 1 /\ "verifier" \in DOMAIN caps => caps["verifier"] >= 1)
  BY <1>3, <1>9 DEF CapsAreNatural, Largest
<1>13. kept \in Nat \ {0}
  BY <1>2, <1>8 DEF Largest, Least
<1>14. compute \in Nat /\ (reserve = 1 => compute >= 800)
  BY <1>2, <1>3, <1>11 DEF ReservedCompute, Largest, Least
<1>. HIDE DEF kept, compute, caps
<1>. DEFINE deep  == Least(Least(base.deep, Largest(tier("deep"), reserve)), kept)
            exact == Least(Least(base.exact, tier("exact")), kept)
            par   == Least(base.parallel, kept)
            comp  == Least(base.compute, Largest(100, compute))
<1>15. deep \in Nat /\ (reserve = 1 => deep >= 1)
  <2>1. tier("deep") \in Nat
    BY <1>10
  <2>. QED BY <2>1, <1>2, <1>3, <1>13 DEF Largest, Least
<1>16. exact \in Nat
  <2>1. tier("exact") \in Nat
    BY <1>10
  <2>. QED BY <2>1, <1>2, <1>13 DEF Least
<1>17. par \in Nat \ {0}
  BY <1>2, <1>13 DEF Least
<1>18. comp \in {c \in Nat : c >= 100} /\ (reserve = 1 => comp >= 800)
  BY <1>2, <1>14 DEF Least, Largest
<1>19. narrow = [agents |-> kept, parallel |-> par, deep |-> deep, exact |-> exact, compute |-> comp]
  OBVIOUS
<1>. HIDE DEF deep, exact, par, comp, narrow
<1>20. narrow \in SearchBudgets /\ (reserve = 1 => narrow.deep >= 1 /\ narrow.compute >= 800)
  <2>1. narrow \in SearchBudgets
    BY <1>13, <1>15, <1>16, <1>17, <1>18, <1>19 DEF SearchBudgets
  <2>2. narrow.deep = deep /\ narrow.compute = comp
    BY <1>19
  <2>. QED BY <2>1, <2>2, <1>15, <1>18
<1>21. d.budget \in SearchBudgets
  BY <1>1, <1>20, DrainBudgetType
<1>22. d.mode \in SearchModes \cup {"none"}
  BY <1>1 DEF SearchModes
<1>23. ASSUME d.unproven
       PROVE  /\ d.mode = "measure" /\ d.budget.deep >= 1 /\ d.budget.compute >= 800
              /\ "verifier" \in DOMAIN d.caps => d.caps["verifier"] >= 1
  <2>1. unproven /\ ~settled /\ reserve = 1
    BY <1>1, <1>3, <1>23
  <2>. QED BY <2>1, <1>1, <1>12, <1>20
<1>. QED BY <1>1, <1>12, <1>21, <1>22, <1>23 DEF SoundDecision, d

\* What a report says for the next round, whatever it says.
SoundLearned(l) == l.due = FALSE /\ l.independent \in Int /\ l.correlation \in Int /\ SoundDecision(l.decision)

\* So it is for every report on lanes that were filled.
LEMMA LearnedIsSound ==
  ASSUME NEW r \in Reports, NEW lanes \in Seq(FilledLanes)
  PROVE  SoundLearned(Learned(r, lanes))
<1>. DEFINE t == Telemetry(r, lanes)
            l == Learned(r, lanes)
<1>1. t.independent \in Int /\ t.correlation \in Int
  BY TelemetryType
<1>. HIDE DEF t
<1>2. /\ l.due = FALSE /\ l.independent = t.independent /\ l.correlation = t.correlation /\ l.decision = RoundBudget(r, lanes)
  BY DEF Learned, t
<1>. HIDE DEF l
<1>3. r.kind \in {"none", "cancelled", "run"}
  BY DEF Reports, NoPopulation
<1>4. CapsAreNatural(NoCaps)
  BY DEF CapsAreNatural, NoCaps
<1>5. CASE r.kind = "none"
  <2>1. RoundBudget(r, lanes) = [stop |-> FALSE, caps |-> NoCaps, unproven |-> FALSE, mode |-> "none", budget |-> BaseBudget]
    BY <1>5 DEF RoundBudget
  <2>. QED BY <1>1, <1>2, <1>4, <2>1, BaseBudgetType DEF SoundDecision, SoundLearned, l
<1>6. CASE r.kind = "cancelled"
  <2>1. RoundBudget(r, lanes) = [stop |-> TRUE, caps |-> NoCaps, unproven |-> FALSE, mode |-> "drain", budget |-> DrainBudget]
    BY <1>6 DEF RoundBudget
  <2>. QED BY <1>1, <1>2, <1>4, <2>1, DrainBudgetType DEF SoundDecision, SoundLearned, SearchModes, l
<1>7. CASE r.kind = "run"
  <2>1. RoundBudget(r, lanes) = Decision(r, lanes, BaseBudget)
    BY <1>7 DEF RoundBudget
  <2>2. SoundDecision(Decision(r, lanes, BaseBudget))
    BY BaseBudgetType, DecisionIsSound
  <2>. QED BY <1>1, <1>2, <2>1, <2>2 DEF SoundLearned, l
<1>. QED BY <1>3, <1>5, <1>6, <1>7

-----------------------------------------------------------------------------
(* The invariant.                                                          *)

\* A plan has its fields, asks strategies, and its lanes are filled.
PlanType ==
  /\ DOMAIN rplan = DOMAIN NoPlan
  /\ rplan.round \in Nat /\ rplan.strategies \in Seq(Strategies) /\ rplan.lanes \in Seq(FilledLanes)

\* Signals name strategies, what was learned is sound while a report is not due, and a plan that is due one
\* is that of the last round.
SearchInv ==
  /\ signals \in Seq(Signals) /\ PlanType
  /\ learned.due = TRUE \/ SoundLearned(learned)
  /\ learned.due = TRUE => rplan.round = Len(signals)
  /\ PlansAreSound

\* Without a plan nothing is promised of one.
LEMMA NothingPlanned == ~learned.due => PlansAreSound
  BY DEF PlansAreSound, PlanIsAdmissible, DisagreementGetsAVerifier, Planned

\* Before any plan.
LEMMA NoPlanFields == /\ NoPlan.round = 0 /\ NoPlan.strategies = <<>> /\ NoPlan.lanes = <<>>
                      /\ {"round", "strategies", "lanes", "phase"} \subseteq DOMAIN NoPlan
  BY DEF NoPlan

\* The invariant holds at first.
LEMMA SearchStarts == SearchInit => SearchInv
<1>. SUFFICES ASSUME SearchInit PROVE SearchInv
  OBVIOUS
<1>1. signals = <<>> /\ learned = Learned(NoPopulation, <<>>) /\ rplan = NoPlan
  BY DEF SearchInit
<1>2. SoundLearned(learned)
  <2>1. NoPopulation \in Reports /\ <<>> \in Seq(FilledLanes)
    BY DEF Reports
  <2>. QED BY <1>1, <2>1, LearnedIsSound
<1>3. ~learned.due /\ learned.due # TRUE
  BY <1>2 DEF SoundLearned
<1>4. PlanType
  BY <1>1, NoPlanFields DEF PlanType
<1>5. signals \in Seq(Signals)
  BY <1>1
<1>. QED BY <1>2, <1>3, <1>4, <1>5, NothingPlanned DEF SearchInv

\* The report of a population keeps it.
LEMMA PopulationRanKeeps ==
  ASSUME SearchInv, NEW r \in Reports, PopulationRan(r)
  PROVE  SearchInv'
<1>1. PlanType /\ signals \in Seq(Signals)
  BY DEF SearchInv
<1>2. learned' = Learned(r, rplan.lanes) /\ signals' = signals
      /\ rplan' = [NoPlan EXCEPT !.round = rplan.round, !.strategies = rplan.strategies, !.phase = rplan.phase]
  BY DEF PopulationRan
<1>3. SoundLearned(learned')
  BY <1>1, <1>2, LearnedIsSound DEF PlanType
<1>4. ~learned'.due /\ learned'.due # TRUE
  BY <1>3 DEF SoundLearned
<1>5. DOMAIN rplan' = DOMAIN NoPlan /\ rplan'.round = rplan.round /\ rplan'.strategies = rplan.strategies /\ rplan'.lanes = <<>>
  BY <1>2, NoPlanFields
<1>6. PlanType'
  BY <1>1, <1>5 DEF PlanType
<1>7. PlansAreSound'
  BY <1>4 DEF PlansAreSound, PlanIsAdmissible, DisagreementGetsAVerifier, Planned
<1>. QED BY <1>1, <1>2, <1>3, <1>4, <1>6, <1>7 DEF SearchInv

\* A campaign keeps it.
LEMMA CampaignKeeps ==
  ASSUME SearchInv, Campaign
  PROVE  SearchInv'
<1>1. PlanType /\ signals \in Seq(Signals)
  BY DEF SearchInv
<1>. DEFINE asked == IF signals = <<>> THEN Strategies ELSE {rplan.strategies[i] : i \in DOMAIN rplan.strategies}
<1>2. /\ ~learned.due /\ learned' = learned /\ rplan' = [rplan EXCEPT !.strategies = <<>>]
      /\ \E rows \in [asked -> Rows] : \E winner \in {0} \cup {k \in DOMAIN rows : rows[k].answered} :
           signals' = Append(signals, [rows |-> rows, winner |-> winner])
  BY DEF Campaign
<1>3. asked \in SUBSET Strategies
  <2>1. \A i \in DOMAIN rplan.strategies : rplan.strategies[i] \in Strategies
    BY <1>1 DEF PlanType
  <2>. QED BY <2>1
<1>. HIDE DEF asked
<1>4. PICK rows \in [asked -> Rows] : \E winner \in {0} \cup {k \in DOMAIN rows : rows[k].answered} :
        signals' = Append(signals, [rows |-> rows, winner |-> winner])
  BY <1>2
<1>4a. PICK winner \in {0} \cup {k \in DOMAIN rows : rows[k].answered} :
         signals' = Append(signals, [rows |-> rows, winner |-> winner])
  BY <1>4
<1>5. [rows |-> rows, winner |-> winner] \in Signals
  <2>1. winner \in {0} \cup Strategies
    BY <1>3, <1>4a
  <2>2. rows \in UNION {[D -> Rows] : D \in SUBSET Strategies}
    BY <1>3, <1>4
  <2>. QED BY <2>1, <2>2 DEF Signals
<1>6. signals' \in Seq(Signals)
  BY <1>1, <1>5, <1>4a
<1>7. SoundLearned(learned') /\ ~learned'.due /\ learned'.due # TRUE
  <2>1. learned.due # TRUE /\ SoundLearned(learned)
    BY <1>2 DEF SearchInv
  <2>. QED BY <1>2, <2>1
<1>8. DOMAIN rplan' = DOMAIN NoPlan /\ rplan'.round = rplan.round /\ rplan'.strategies = <<>> /\ rplan'.lanes = rplan.lanes
  BY <1>1, <1>2, NoPlanFields DEF PlanType
<1>9. PlanType'
  BY <1>1, <1>8 DEF PlanType
<1>10. PlansAreSound'
  BY <1>7 DEF PlansAreSound, PlanIsAdmissible, DisagreementGetsAVerifier, Planned
<1>. QED BY <1>6, <1>7, <1>9, <1>10 DEF SearchInv

\* The mode of a phase.
LEMMA ModeType == \A phase, o : Mode(phase, o) \in SearchModes
  BY DEF Mode, SearchModes

\* The laws about a round name its posture.
LEMMA LawsFollow ==
  ASSUME LastSignal \in Signals
  PROVE  \A l \in Laws : l.of = {} => l.kind = Posture(LastSignal)
<1>1. ASSUME NEW l \in PreferLaws PROVE l.of # {}
  BY DEF PreferLaws
<1>2. ASSUME NEW x \in RoundLaw(LastSignal), NEW l, l = [kind |-> x, of |-> {}] PROVE l.kind = Posture(LastSignal)
  BY <1>2, LawIsPosture
<1>. QED BY <1>1, <1>2 DEF Laws

\* A round's plan keeps it: the population is inside the budget that was learned, and answers the disagreement.
LEMMA PlanRoundKeeps ==
  ASSUME SearchInv, NEW p \in Pressures, NEW remembers \in BOOLEAN, PlanRound(p, remembers)
  PROVE  SearchInv'
<1>. DEFINE info  == learned.decision
            s     == LastSignal
            o     == Observation(p)
            phase == Phase(IF remembers THEN rplan.phase ELSE "none", o)
            mode  == IF info.mode = "none" THEN Mode(phase, o) ELSE info.mode
            so    == [independent |-> IF learned.ran THEN learned.independent ELSE Whole * Largest(1, Cardinality(OutputsIn(s))),
                      correlation |-> IF learned.ran THEN learned.correlation ELSE Whole - Novelty(s), novelty |-> Novelty(s)]
            b     == Narrowed(info.budget, p.resource)
            h     == IF Disagreement(s) > 0 THEN 1 ELSE 0
            lanes == FitBudget(ApplyRoleCaps(Allocated(mode, b, so, h), info.caps), b)
            next  == NextStrategies
            asks  == IF info.stop THEN <<>> ELSE IF learned.ran THEN Prefix(next, Largest(1, info.budget.agents)) ELSE next
            par   == IF info.stop THEN 1 ELSE Least(NextParallel(next), Least(Largest(1, CountOf(lanes)), Len(asks)))
            post  == IF info.stop THEN "stop" ELSE Posture(s)
<1>1. /\ Len(signals) > rplan.round /\ learned' = NotYet /\ signals' = signals
      /\ rplan' = [round |-> Len(signals), posture |-> post, strategies |-> asks, parallel |-> par,
                   phase |-> phase, mode |-> mode, lanes |-> lanes, stop |-> mode = "drain", laws |-> Laws,
                   asked |-> info.unproven, calm |-> p.resource = 0, budget |-> info.budget]
  BY DEF PlanRound
<1>2. signals \in Seq(Signals) /\ PlanType /\ Len(signals) \in Nat
  BY DEF SearchInv
<1>3. SoundLearned(learned) /\ Len(signals) > 0
  BY <1>1, <1>2 DEF SearchInv, PlanType
<1>4. /\ learned.independent \in Int /\ learned.correlation \in Int /\ CapsAreNatural(info.caps)
      /\ info.mode \in SearchModes \cup {"none"} /\ info.budget \in SearchBudgets
      /\ info.unproven => /\ info.mode = "measure" /\ info.budget.deep >= 1 /\ info.budget.compute >= 800
                          /\ "verifier" \in DOMAIN info.caps => info.caps["verifier"] >= 1
  BY <1>3 DEF SoundLearned, SoundDecision
<1>5. s \in Signals
  BY <1>2, <1>3 DEF LastSignal
<1>6. mode \in SearchModes /\ (info.mode # "none" => mode = info.mode)
  BY <1>4, ModeType
<1>7. so \in SwarmObservations
  <2>1. Cardinality(OutputsIn(s)) \in Nat /\ Novelty(s) \in Int
    BY <1>5, SignalCounts
  <2>2. Whole * Largest(1, Cardinality(OutputsIn(s))) \in Int /\ Whole - Novelty(s) \in Int
    BY <2>1 DEF Whole, Largest
  <2>. HIDE DEF s
  <2>. QED BY <1>4, <2>1, <2>2 DEF SwarmObservations
<1>8. p.resource \in 0 .. Whole
  BY SearchAssumption
<1>9. /\ b \in SearchBudgets /\ b.agents <= info.budget.agents /\ b.deep <= info.budget.deep
      /\ b.exact <= info.budget.exact /\ b.compute <= info.budget.compute
      /\ p.resource = 0 => b.deep >= Least(1, info.budget.deep) /\ b.compute = info.budget.compute
  BY <1>4, <1>8, NarrowedFits
<1>10. h \in {0, 1}
  OBVIOUS
<1>. HIDE DEF mode, so, b, h
<1>11. /\ lanes \in Seq(FilledLanes) /\ Inside(lanes, b)
       /\ mode = "drain" => \A i \in DOMAIN lanes : lanes[i].role \notin {"explorer", "mutator"}
       /\ mode = "measure" /\ b.deep >= 1 /\ b.compute >= 800 /\ ("verifier" \in DOMAIN info.caps => info.caps["verifier"] >= 1)
            => \E i \in DOMAIN lanes : lanes[i].role = "verifier"
  <2>. DEFINE caps == info.caps
  <2>1. CapsAreNatural(caps) /\ lanes = FitBudget(ApplyRoleCaps(Allocated(mode, b, so, h), caps), b)
    BY <1>4
  <2>. HIDE DEF caps, lanes, info
  <2>2. /\ lanes \in Seq(FilledLanes) /\ Inside(lanes, b)
        /\ mode = "drain" => \A i \in DOMAIN lanes : lanes[i].role \notin {"explorer", "mutator"}
        /\ mode = "measure" /\ b.deep >= 1 /\ b.compute >= 800 /\ ("verifier" \in DOMAIN caps => caps["verifier"] >= 1)
             => \E i \in DOMAIN lanes : lanes[i].role = "verifier"
    BY <1>6, <1>7, <1>9, <1>10, <2>1, PopulationFits
  <2>. QED BY <2>2 DEF caps
<1>12. Listing(next) /\ NextParallel(next) \in Nat \ {0}
  BY <1>2, <1>3, NextStrategiesList
<1>13. \A l \in Laws : l.of = {} => l.kind = Posture(s)
  BY <1>5, LawsFollow
<1>. HIDE DEF info, s, lanes, next, phase
<1>14. /\ info.budget.agents \in Nat \ {0} /\ info.budget.deep \in Nat /\ info.budget.exact \in Nat /\ info.budget.compute \in Nat
       /\ b.agents \in Nat /\ b.deep \in Nat /\ b.exact \in Nat /\ b.compute \in Nat
  BY <1>4, <1>9 DEF SearchBudgets
<1>15. ~info.stop => Listing(asks)
  <2>1. Largest(1, info.budget.agents) \in Nat \ {0}
    BY <1>14 DEF Largest
  <2>2. Listing(Prefix(next, Largest(1, info.budget.agents)))
    BY <1>12, <2>1, PrefixLists
  <2>. QED BY <1>12, <2>2
<1>16. /\ asks \in Seq(Strategies) /\ (~info.stop => asks # <<>> /\ Len(asks) \in Nat \ {0})
       /\ \A i, j \in DOMAIN asks : asks[i] = asks[j] => i = j
  <2>1. CASE info.stop
    BY <2>1
  <2>2. CASE ~info.stop
    <3>. HIDE DEF asks
    <3>1. asks \in Seq(Strategies) /\ asks # <<>> /\ Len(asks) \in Nat \ {0} /\ \A i, j \in 1 .. Len(asks) : asks[i] = asks[j] => i = j
      BY <1>15, <2>2, ListingIsSeq
    <3>2. DOMAIN asks = 1 .. Len(asks)
      BY <3>1
    <3>. QED BY <3>1, <3>2
  <2>. QED BY <2>1, <2>2
<1>. HIDE DEF asks
<1>17. CountOf(lanes) \in Nat /\ ComputeOf(lanes) \in Nat /\ CountOfTier(lanes, "deep") \in Nat /\ CountOfTier(lanes, "exact") \in Nat
  BY <1>11, LaneSums
<1>18. par >= 1
  <2>1. CASE info.stop
    BY <2>1
  <2>2. CASE ~info.stop
    <3>1. Largest(1, CountOf(lanes)) \in Nat \ {0}
      BY <1>17 DEF Largest
    <3>2. Least(NextParallel(next), Least(Largest(1, CountOf(lanes)), Len(asks))) >= 1
      BY <1>12, <1>16, <2>2, <3>1 DEF Least
    <3>. QED BY <2>2, <3>2
  <2>. QED BY <2>1, <2>2
<1>. HIDE DEF par, post
<1>19. /\ rplan'.round = Len(signals) /\ rplan'.posture = post /\ rplan'.strategies = asks /\ rplan'.parallel = par
       /\ rplan'.lanes = lanes /\ rplan'.laws = Laws /\ rplan'.budget = info.budget
  BY <1>1
<1>20. (rplan'.stop <=> mode = "drain") /\ (rplan'.calm <=> p.resource = 0)
  <2>1. rplan'.stop = (mode = "drain") /\ rplan'.calm = (p.resource = 0)
    BY <1>1
  <2>. QED BY <2>1, Zenon
<1>21. rplan'.asked = info.unproven
  BY <1>1
<1>22. DOMAIN rplan' = DOMAIN NoPlan
  BY <1>1 DEF NoPlan
<1>23. PlanType'
  BY <1>2, <1>11, <1>16, <1>19, <1>22 DEF PlanType
<1>24. learned'.due = TRUE
  BY <1>1 DEF NotYet
<1>25. /\ lanes # <<>> /\ CountOf(lanes) <= info.budget.agents /\ 100 * ComputeOf(lanes) <= info.budget.compute
       /\ CountOfTier(lanes, "deep") <= info.budget.deep /\ CountOfTier(lanes, "exact") <= info.budget.exact
  <2>1. /\ lanes # <<>> /\ CountOf(lanes) <= b.agents /\ 100 * ComputeOf(lanes) <= b.compute
        /\ CountOfTier(lanes, "deep") <= b.deep /\ CountOfTier(lanes, "exact") <= b.exact
    BY <1>11 DEF Inside
  <2>2. CountOf(lanes) <= info.budget.agents
    BY <2>1, <1>9, <1>14, <1>17
  <2>3. 100 * ComputeOf(lanes) <= info.budget.compute
    BY <2>1, <1>9, <1>14, <1>17
  <2>4. CountOfTier(lanes, "deep") <= info.budget.deep
    BY <2>1, <1>9, <1>14, <1>17
  <2>5. CountOfTier(lanes, "exact") <= info.budget.exact
    BY <2>1, <1>9, <1>14, <1>17
  <2>. QED BY <2>1, <2>2, <2>3, <2>4, <2>5
<1>26. post # "stop" => ~info.stop /\ post = Posture(s)
  BY DEF post
<1>27. PlanIsAdmissible'
  BY <1>11, <1>13, <1>16, <1>18, <1>19, <1>20, <1>25, <1>26 DEF PlanIsAdmissible
<1>28. DisagreementGetsAVerifier'
  <2>1. SUFFICES ASSUME rplan'.asked, rplan'.calm PROVE \E i \in DOMAIN rplan'.lanes : rplan'.lanes[i].role = "verifier"
    BY DEF DisagreementGetsAVerifier
  <2>2. info.unproven
    BY <1>21, <2>1
  <2>3. p.resource = 0
    BY <1>20, <2>1
  <2>4. mode = "measure" /\ ("verifier" \in DOMAIN info.caps => info.caps["verifier"] >= 1)
    BY <1>4, <1>6, <2>2
  <2>5. b.deep >= 1 /\ b.compute >= 800
    BY <1>4, <1>9, <1>14, <2>2, <2>3 DEF Least
  <2>. QED BY <1>11, <1>19, <2>4, <2>5
<1>29. PlansAreSound'
  BY <1>27, <1>28 DEF PlansAreSound
<1>. QED BY <1>1, <1>2, <1>19, <1>23, <1>24, <1>29 DEF SearchInv

\* Every round's plan is admissible, and answers a disagreement that nobody verified with a verifier, for every
\* set of strategies, width, concurrency, price and set of pressures (plan_adaptive_round, allocate_population
\* and evaluate_information_budget).
THEOREM PlansSound == SearchSpec => []PlansAreSound
<1>1. SearchInit => SearchInv
  BY SearchStarts
<1>2. SearchInv /\ [SearchNext]_searchVars => SearchInv'
  <2>. SUFFICES ASSUME SearchInv, [SearchNext]_searchVars PROVE SearchInv'
    OBVIOUS
  <2>1. CASE Campaign
    BY <2>1, CampaignKeeps
  <2>2. ASSUME NEW r \in Reports, PopulationRan(r) PROVE SearchInv'
    BY <2>2, PopulationRanKeeps
  <2>3. ASSUME NEW p \in Pressures, NEW m \in BOOLEAN, PlanRound(p, m) PROVE SearchInv'
    BY <2>3, PlanRoundKeeps
  <2>4. CASE UNCHANGED searchVars
    <3>1. signals' = signals /\ learned' = learned /\ rplan' = rplan
      BY <2>4 DEF searchVars
    <3>2. PlansAreSound'
      BY <3>1 DEF SearchInv, PlansAreSound, PlanIsAdmissible, DisagreementGetsAVerifier, Planned
    <3>. QED BY <3>1, <3>2 DEF SearchInv, PlanType
  <2>. QED BY <2>1, <2>2, <2>3, <2>4 DEF SearchNext
<1>3. SearchInv => PlansAreSound
  BY DEF SearchInv
<1>. QED BY <1>1, <1>2, <1>3, PTL DEF SearchSpec

------------------------------------------------------------------------------
\* Paid population search.

\* The rows of the paid calls.
CallRows == [state : {"none", "running", "paid", "committed", "in_doubt"}, cost : Nat, verdict : {"none", "answered", "failed"}]

\* What a report on given rows adds up: the cost of every member's call, but for made-up receipts.
CostIn(s, rows) == [m \in Members |-> rows[<<s, m>>].cost]
Costs(d, rows)  == Count(CostIn(d.pin, rows), Members \ d.broken)

DirFields    == {"pin", "budget", "report", "broken", "decision"}
WorkerFields == {"step", "search", "asked", "got", "broken"}

\* The types of the search directory, its rows and its worker.
PopulationTypeOK ==
    /\ control \in Searches
    /\ DOMAIN dir = DirFields /\ dir.pin \in Searches \cup {Unset} /\ dir.broken \subseteq Members
    /\ DOMAIN row = {"state", "settled"}
    /\ callRow \in [SearchCalls -> CallRows]
    /\ charged \in [SearchCalls -> Nat]
    /\ DOMAIN worker = WorkerFields /\ worker.got \subseteq Members /\ worker.broken \subseteq worker.got
    /\ worker.step # "off" => worker.search = dir.pin /\ dir.pin \in Searches

\* Every call of the search committed, but for those whose receipt was made up.
AllCommitted(d, rows) == d.pin \in Searches /\ \A m \in Members \ d.broken : rows[<<d.pin, m>>].state = "committed"

\* A call is charged once, when it is answered, and only for the pinned search.
CallSound(c, r, paid, pin) ==
    /\ r.state \in {"none", "running"} => paid = 0 /\ r.cost = 0
    /\ r.state \in {"paid", "committed"} => paid = r.cost
    /\ c[1] # pin => r.state = "none"

\* Every call row agrees with what its provider charged.
CallsSound == \A c \in SearchCalls : CallSound(c, callRow[c], charged[c], dir.pin)

\* A receipt the worker holds is committed; from the report on all of them are.
GotCommitted ==
    /\ worker.step = "calls" => \A m \in worker.got \ worker.broken : callRow[<<dir.pin, m>>].state = "committed"
    /\ worker.step \in {"budget", "reserved", "search"} => worker.got = {} /\ worker.broken = {}

\* The places of the worker after the report is written.
Reported == {"settle", "decide", "guidance", "done"}
\* A report, and a settled row, sum the costs of calls that are all committed.
ReportSound ==
    /\ worker.step \in Reported => dir.report # -1
    /\ dir.report # -1 =>
          AllCommitted(dir, callRow) /\ dir.report = Costs(dir, callRow)
    /\ worker.step = "calls" => dir.report = -1
    /\ row.state = "settled" => dir.report # -1 /\ AllCommitted(dir, callRow) /\ row.settled = Costs(dir, callRow)

\* The inductive invariant of a population search.
PopulationInv == PopulationTypeOK /\ CallsSound /\ GotCommitted /\ ReportSound

\* The sum over the members is a count of units of cost.
LEMMA SummaryIsCount ==
  ASSUME PopulationTypeOK, NEW s \in Searches, NEW broken \in SUBSET Members
  PROVE  SummaryCost(s, broken) = Count(CostIn(s, callRow), Members \ broken) /\ SummaryCost(s, broken) \in Nat
  <1> DEFINE T == Members \ broken
             paid == CostIn(s, callRow)
             Folds(g) == g = [t \in SUBSET T |->
                                IF t = {} THEN 0 ELSE callRow[<<s, FirstOf(t)>>].cost + g[t \ {FirstOf(t)}]]
             h == CHOOSE g : Folds(g)
  <1>1. \A m \in Members : paid[m] = callRow[<<s, m>>].cost /\ paid[m] \in Nat
    BY DEF PopulationTypeOK, CallRows, SearchCalls, CostIn
  <1>2. SummaryCost(s, broken) = h[T]
    BY DEF SummaryCost, MapThenSumSet, MapThenFoldSet, FirstOf
  <1>3. T \subseteq Members /\ IsFiniteSet(T)
    BY PopulationAssumption, FS_Subset
  <1> HIDE DEF paid, T
  <1>4. \A t \in SUBSET T : t # {} => paid[FirstOf(t)] = callRow[<<s, FirstOf(t)>>].cost
    BY <1>1, <1>3, FirstIn
  <1>5. ASSUME NEW g PROVE IsFold(g, paid, T) <=> Folds(g)
    BY <1>4 DEF IsFold
  <1>6. \E g : Folds(g)
    BY <1>1, <1>3, <1>5, CountIsFold
  <1>7. Folds(h)
    BY <1>6
  <1> HIDE DEF h, Folds
  <1>8. IsFold(h, paid, T) /\ T \in SUBSET T
    BY <1>5, <1>7
  <1>9. \A x \in T : paid[x] \in Nat
    BY <1>1, <1>3
  <1>10. \A t \in SUBSET T : h[t] = Count(paid, t)
    BY <1>3, <1>8, <1>9, FoldIsCount
  <1>11. Count(paid, T) \in Nat
    BY <1>3, <1>9, UnitsFinite
  <1> QED BY <1>2, <1>8, <1>10, <1>11 DEF paid, T

\* What the report says depends on the pin, the broken members and the receipts only.
LEMMA SameReport ==
  ASSUME dir'.pin = dir.pin, dir'.broken = dir.broken, callRow' = callRow
  PROVE  (AllCommitted(dir', callRow') <=> AllCommitted(dir, callRow)) /\ Costs(dir', callRow') = Costs(dir, callRow)
  BY DEF AllCommitted, Costs

\* A search starts with no call and no charge.
LEMMA PopulationStart == PopulationInit => PopulationInv
  <1> SUFFICES ASSUME PopulationInit PROVE PopulationInv
    OBVIOUS
  <1> DEFINE r0 == [state |-> "none", cost |-> 0, verdict |-> "none"]
  <1>1. /\ control \in Searches
        /\ dir = [pin |-> Unset, budget |-> FALSE, report |-> -1, broken |-> {}, decision |-> -1]
        /\ row = [state |-> "none", settled |-> 0] /\ callRow = [c \in SearchCalls |-> r0]
        /\ charged = [c \in SearchCalls |-> 0] /\ worker = NoSearchWorker
    BY DEF PopulationInit
  <1>2. r0 \in CallRows /\ r0.state = "none" /\ r0.cost = 0
    BY DEF CallRows
  <1> HIDE DEF r0
  <1>3. worker.step = "off" /\ worker.got = {} /\ worker.broken = {} /\ DOMAIN worker = WorkerFields
    BY <1>1 DEF NoSearchWorker, WorkerFields
  <1>4. /\ DOMAIN dir = DirFields /\ dir.pin = Unset /\ dir.report = -1 /\ dir.broken = {}
        /\ DOMAIN row = {"state", "settled"} /\ row.state = "none"
    BY <1>1 DEF DirFields
  <1>5. PopulationTypeOK
    BY <1>1, <1>2, <1>3, <1>4 DEF PopulationTypeOK
  <1>6. CallsSound
    BY <1>1, <1>2 DEF CallsSound, CallSound
  <1> QED BY <1>3, <1>4, <1>5, <1>6 DEF PopulationInv, GotCommitted, ReportSound, Reported

\* A step of the worker that only moves it on.
LEMMA WorkerMoves ==
  ASSUME PopulationInv, UNCHANGED <<control, dir, row, callRow, charged>>, NEW s, GoTo(s), worker.step # "off", s \notin {"off", "budget"},
         s \in {"calls", "reserved", "search"} => worker.got = {} /\ worker.broken = {},
         s = "calls" => dir.report = -1,
         s \in Reported => dir.report # -1 /\ AllCommitted(dir, callRow) /\ dir.report = Costs(dir, callRow)
  PROVE  PopulationInv'
  <1>1. worker'.step = s /\ worker'.search = worker.search /\ worker'.got = worker.got /\ worker'.broken = worker.broken
        /\ DOMAIN worker' = WorkerFields
    BY DEF GoTo, PopulationInv, PopulationTypeOK, WorkerFields
  <1>2. PopulationTypeOK'
    BY <1>1 DEF PopulationInv, PopulationTypeOK
  <1>3. GotCommitted'
    BY <1>1 DEF PopulationInv, GotCommitted
  <1>4. ReportSound'
    BY <1>1 DEF PopulationInv, ReportSound
  <1> QED BY <1>2, <1>3, <1>4 DEF PopulationInv, CallsSound

\* A worker that ends, dead or done, keeps the invariant.
LEMMA WorkerEnds ==
  ASSUME PopulationInv, UNCHANGED <<control, dir, callRow, charged>>, worker' = NoSearchWorker,
         DOMAIN row' = {"state", "settled"},
         row'.state = "settled" => dir.report # -1 /\ AllCommitted(dir, callRow) /\ row'.settled = Costs(dir, callRow)
  PROVE  PopulationInv'
  <1>1. worker'.step = "off" /\ worker'.got = {} /\ worker'.broken = {} /\ DOMAIN worker' = WorkerFields
    BY DEF NoSearchWorker, WorkerFields
  <1>2. PopulationTypeOK'
    BY <1>1 DEF PopulationInv, PopulationTypeOK
  <1> QED BY <1>1, <1>2 DEF PopulationInv, GotCommitted, ReportSound, CallsSound, Reported

\* A row of the journal moves on, short of what a committed one says.
LEMMA CallMoves ==
  ASSUME PopulationInv, UNCHANGED <<control, dir, row>>, NEW c \in SearchCalls, NEW r \in CallRows, NEW paid \in Nat,
         callRow' = [callRow EXCEPT ![c] = r], charged' = [charged EXCEPT ![c] = paid],
         callRow[c].state # "committed", c[1] = dir.pin, CallSound(c, r, paid, dir.pin),
         worker'.step = worker.step, worker'.search = worker.search, worker'.got = worker.got, worker'.broken = worker.broken, DOMAIN worker' = DOMAIN worker
  PROVE  PopulationInv'
  <1>1. PopulationTypeOK'
    BY DEF PopulationInv, PopulationTypeOK
  <1>2. CallsSound'
    BY DEF PopulationInv, PopulationTypeOK, CallsSound
  <1>3. c = <<dir.pin, c[2]>> /\ c[2] \in Members /\ dir.pin \in Searches
    BY DEF SearchCalls
  <1>4. ASSUME AllCommitted(dir, callRow) PROVE AllCommitted(dir', callRow') /\ Costs(dir', callRow') = Costs(dir, callRow)
    <2>1. c[2] \in dir.broken
      BY <1>3, <1>4 DEF AllCommitted
    <2>2. ASSUME NEW m \in Members \ dir.broken PROVE <<dir.pin, m>> \in SearchCalls /\ callRow'[<<dir.pin, m>>] = callRow[<<dir.pin, m>>]
      BY <1>3, <2>1 DEF SearchCalls, PopulationInv, PopulationTypeOK
    <2>3. AllCommitted(dir', callRow')
      BY <1>4, <2>2 DEF AllCommitted
    <2>4. \A m \in Members \ dir.broken : CostIn(dir.pin, callRow')[m] = CostIn(dir.pin, callRow)[m]
      BY <2>2 DEF CostIn
    <2>5. Count(CostIn(dir.pin, callRow'), Members \ dir.broken) = Count(CostIn(dir.pin, callRow), Members \ dir.broken)
      BY <2>4, CountExtensional
    <2> QED BY <2>3, <2>5 DEF Costs
  <1>5. ASSUME worker.step = "calls", NEW m \in worker.got \ worker.broken PROVE callRow'[<<dir.pin, m>>].state = "committed"
    <2>1. <<dir.pin, m>> \in SearchCalls /\ callRow[<<dir.pin, m>>].state = "committed"
      BY <1>3, <1>5 DEF PopulationInv, PopulationTypeOK, GotCommitted, SearchCalls
    <2>2. <<dir.pin, m>> # c
      BY <2>1
    <2> QED BY <2>1, <2>2 DEF PopulationInv, PopulationTypeOK
  <1> QED BY <1>1, <1>2, <1>4, <1>5 DEF PopulationInv, GotCommitted, ReportSound

\* Every step of the search keeps its invariant.
LEMMA PopulationStep == PopulationInv /\ [PopulationNext]_popvars => PopulationInv'
  <1> SUFFICES ASSUME PopulationInv, [PopulationNext]_popvars PROVE PopulationInv'
    OBVIOUS
  <1>1. PopulationTypeOK /\ CallsSound /\ GotCommitted /\ ReportSound
    BY DEF PopulationInv
  <1>2. Unset \notin Searches
    BY PopulationAssumption DEF Unset
  <1>3. CASE UNCHANGED popvars
    BY <1>1, <1>3 DEF popvars, PopulationInv, PopulationTypeOK, CallsSound, GotCommitted, ReportSound
  <1>4. CASE LoadSearch
    <2>1. worker.step = "off" /\ UNCHANGED <<control, row, callRow, charged>>
      BY <1>4 DEF LoadSearch
    <2>2. CASE UNCHANGED <<dir, worker>>
      BY <1>1, <2>1, <2>2 DEF PopulationInv, PopulationTypeOK, CallsSound, GotCommitted, ReportSound
    <2>3. CASE /\ PinMatches(control) /\ dir' = [dir EXCEPT !.pin = IF dir.pin = Unset THEN control ELSE dir.pin]
               /\ worker' = [NoSearchWorker EXCEPT !.step = "budget", !.search = control]
      <3>1. worker'.step = "budget" /\ worker'.search = control /\ worker'.got = {} /\ worker'.broken = {} /\ DOMAIN worker' = WorkerFields
        BY <2>3 DEF NoSearchWorker, WorkerFields
      <3>2. dir'.pin = control /\ dir'.report = dir.report /\ dir'.broken = dir.broken /\ DOMAIN dir' = DirFields
            /\ (dir.pin = control \/ dir.pin = Unset)
        BY <1>1, <2>3 DEF PinMatches, PopulationTypeOK, DirFields
      <3>3. PopulationTypeOK'
        BY <1>1, <2>1, <3>1, <3>2 DEF PopulationTypeOK
      <3>4. dir.pin = Unset => \A c \in SearchCalls : callRow[c].state = "none"
        BY <1>1, <1>2 DEF CallsSound, CallSound, SearchCalls
      <3>5. CallsSound'
        BY <1>1, <2>1, <3>2, <3>4 DEF CallsSound, CallSound
      <3>6. dir.pin = Unset => ~AllCommitted(dir, callRow)
        BY <1>2 DEF AllCommitted
      <3>7. ReportSound'
        <4>1. CASE dir.pin = Unset
          BY <1>1, <2>1, <3>1, <3>2, <3>6, <4>1 DEF ReportSound, Reported
        <4>2. CASE dir.pin = control
          BY <1>1, <2>1, <3>1, <3>2, <4>2, SameReport DEF ReportSound, Reported
        <4> QED BY <3>2, <4>1, <4>2
      <3> QED BY <3>1, <3>3, <3>5, <3>7 DEF PopulationInv, GotCommitted
    <2> QED BY <1>4, <2>2, <2>3 DEF LoadSearch
  <1>5. CASE UseReservation
    BY <1>1, <1>5, WorkerMoves DEF UseReservation, Reported, GotCommitted
  <1>6. CASE ReserveSearch
    <2>1. worker.step = "budget" /\ UNCHANGED <<control, dir, row, callRow, charged>> /\ (GoTo("reserved") \/ worker' = NoSearchWorker)
      BY <1>6 DEF ReserveSearch
    <2> QED BY <1>1, <2>1, WorkerMoves, WorkerEnds DEF Reported, ReportSound, PopulationTypeOK, GotCommitted
  <1>7. CASE WriteBudget
    <2>1. worker.step = "reserved" /\ dir' = [dir EXCEPT !.budget = TRUE] /\ row' = [row EXCEPT !.state = "reserved"]
          /\ worker' = [worker EXCEPT !.step = "search"] /\ UNCHANGED <<control, callRow, charged>>
      BY <1>7 DEF WriteBudget, GoTo
    <2>2. dir'.pin = dir.pin /\ dir'.report = dir.report /\ dir'.broken = dir.broken /\ DOMAIN dir' = DOMAIN dir /\ DOMAIN row' = DOMAIN row /\ row'.state = "reserved"
      BY <1>1, <2>1 DEF PopulationTypeOK, WorkerFields, DirFields
    <2>3. worker'.step = "search" /\ worker'.search = worker.search /\ worker'.got = worker.got /\ worker'.broken = worker.broken /\ DOMAIN worker' = DOMAIN worker
      BY <1>1, <2>1 DEF PopulationTypeOK, WorkerFields, DirFields
    <2>4. PopulationTypeOK'
      BY <1>1, <2>1, <2>2, <2>3 DEF PopulationTypeOK
    <2>5. ReportSound'
      BY <1>1, <2>1, <2>2, <2>3, SameReport DEF ReportSound, Reported
    <2> QED BY <1>1, <2>1, <2>2, <2>3, <2>4, <2>5 DEF PopulationInv, CallsSound, GotCommitted
  <1>8. CASE ReplayReport
    <2>1. worker.step = "search" /\ dir.report # -1 /\ GoTo("settle") /\ UNCHANGED <<control, dir, row, callRow, charged>>
      BY <1>8 DEF ReplayReport
    <2> QED BY <1>1, <2>1, WorkerMoves DEF Reported, ReportSound
  <1>9. CASE BeginSearch
    <2>1. worker.step = "search" /\ dir.report = -1 /\ UNCHANGED <<control, dir, row, callRow, charged>> /\ (GoTo("calls") \/ GoTo("abort"))
      BY <1>9 DEF BeginSearch
    <2>2. worker.got = {} /\ worker.broken = {}
      BY <1>1, <2>1 DEF GotCommitted
    <2> QED BY <1>1, <2>1, <2>2, WorkerMoves DEF Reported, ReportSound
  <1>10. CASE AbortSearch
    <2>1. worker' = NoSearchWorker /\ UNCHANGED <<control, dir, callRow, charged>>
          /\ row' = IF row.state = "settled" THEN row ELSE [row EXCEPT !.state = "unknown"]
      BY <1>10 DEF AbortSearch
    <2>2. DOMAIN row' = {"state", "settled"} /\ (row'.state = "settled" => row' = row)
      BY <1>1, <2>1 DEF PopulationTypeOK
    <2> QED BY <1>1, <2>1, <2>2, WorkerEnds DEF ReportSound
  <1>11. CASE WriteReport
    <2>1. worker.step = "calls" /\ worker.got = Members /\ dir' = [dir EXCEPT !.report = SummaryCost(worker.search, worker.broken), !.broken = worker.broken]
          /\ worker' = [worker EXCEPT !.step = "settle"] /\ UNCHANGED <<control, row, callRow, charged>>
      BY <1>11 DEF WriteReport, GoTo
    <2>2. worker.search = dir.pin /\ dir.pin \in Searches
      BY <1>1, <2>1 DEF PopulationTypeOK
    <2>3. dir'.pin = dir.pin /\ dir'.broken = worker.broken /\ dir'.report = Costs(dir', callRow) /\ dir'.report # -1 /\ DOMAIN dir' = DOMAIN dir
      <3>1. dir'.pin = dir.pin /\ dir'.broken = worker.broken /\ dir'.report = SummaryCost(dir.pin, worker.broken) /\ DOMAIN dir' = DOMAIN dir
        BY <1>1, <2>1, <2>2 DEF PopulationTypeOK, DirFields
      <3>2. worker.broken \in SUBSET Members
        BY <1>1 DEF PopulationTypeOK
      <3>3. SummaryCost(dir.pin, worker.broken) = Count(CostIn(dir.pin, callRow), Members \ worker.broken)
            /\ SummaryCost(dir.pin, worker.broken) \in Nat
        BY <1>1, <2>2, <3>2, SummaryIsCount
      <3> QED BY <3>1, <3>3 DEF Costs
    <2>4. AllCommitted(dir', callRow)
      BY <1>1, <2>1, <2>2, <2>3 DEF AllCommitted, GotCommitted
    <2>5. worker'.step = "settle" /\ worker'.search = worker.search /\ worker'.got = worker.got /\ worker'.broken = worker.broken /\ DOMAIN worker' = DOMAIN worker
      BY <1>1, <2>1 DEF PopulationTypeOK, WorkerFields, DirFields
    <2>6. PopulationTypeOK'
      BY <1>1, <2>1, <2>2, <2>3, <2>5 DEF PopulationTypeOK
    <2>7. row.state # "settled"
      BY <1>1, <2>1 DEF ReportSound
    <2>8. ReportSound'
      BY <1>1, <2>1, <2>3, <2>4, <2>5, <2>7 DEF ReportSound
    <2> QED BY <1>1, <2>1, <2>3, <2>5, <2>6, <2>8 DEF PopulationInv, CallsSound, GotCommitted
  <1>12. CASE SettleSearch
    <2>1. worker.step = "settle" /\ UNCHANGED <<control, dir, callRow, charged>>
          /\ row' = (IF row.state = "settled" THEN row ELSE [state |-> "settled", settled |-> dir.report])
          /\ (worker' = NoSearchWorker \/ worker' = [worker EXCEPT !.step = "decide"])
      BY <1>12 DEF SettleSearch, GoTo
    <2>2. dir.report # -1 /\ AllCommitted(dir, callRow) /\ dir.report = Costs(dir, callRow)
      BY <1>1, <2>1 DEF ReportSound, Reported
    <2>3. row'.state = "settled" /\ row'.settled = Costs(dir, callRow) /\ DOMAIN row' = {"state", "settled"}
      BY <1>1, <2>1, <2>2 DEF ReportSound, PopulationTypeOK
    <2>4. CASE worker' = NoSearchWorker
      BY <2>1, <2>2, <2>3, <2>4, WorkerEnds
    <2>5. CASE worker' = [worker EXCEPT !.step = "decide"]
      <3>1. worker'.step = "decide" /\ worker'.search = worker.search /\ worker'.got = worker.got /\ worker'.broken = worker.broken /\ DOMAIN worker' = DOMAIN worker
        BY <1>1, <2>5 DEF PopulationTypeOK, WorkerFields, DirFields
      <3>2. PopulationTypeOK'
        BY <1>1, <2>1, <2>3, <3>1 DEF PopulationTypeOK
      <3> QED BY <1>1, <2>1, <2>2, <2>3, <3>1, <3>2 DEF PopulationInv, CallsSound, GotCommitted, ReportSound
    <2> QED BY <2>1, <2>4, <2>5
  <1>13. CASE RetainDecision
    <2>1. worker.step = "decide" /\ dir' = [dir EXCEPT !.decision = dir.report]
          /\ worker' = [worker EXCEPT !.step = "guidance"] /\ UNCHANGED <<control, row, callRow, charged>>
      BY <1>13 DEF RetainDecision, GoTo
    <2>2. dir.report # -1 /\ AllCommitted(dir, callRow) /\ dir.report = Costs(dir, callRow)
      BY <1>1, <2>1 DEF ReportSound, Reported
    <2>3. dir'.pin = dir.pin /\ dir'.report = dir.report /\ dir'.broken = dir.broken /\ DOMAIN dir' = DOMAIN dir
      BY <1>1, <2>1 DEF PopulationTypeOK, WorkerFields, DirFields
    <2>4. worker'.step = "guidance" /\ worker'.search = worker.search /\ worker'.got = worker.got /\ worker'.broken = worker.broken /\ DOMAIN worker' = DOMAIN worker
      BY <1>1, <2>1 DEF PopulationTypeOK, WorkerFields, DirFields
    <2>5. PopulationTypeOK'
      BY <1>1, <2>1, <2>3, <2>4 DEF PopulationTypeOK
    <2>6. ReportSound'
      BY <1>1, <2>1, <2>2, <2>3, <2>4, SameReport DEF ReportSound
    <2> QED BY <1>1, <2>1, <2>3, <2>4, <2>5, <2>6 DEF PopulationInv, CallsSound, GotCommitted
  <1>14. CASE ReadExcerpts
    <2>1. worker.step = "guidance" /\ UNCHANGED <<control, dir, row, callRow, charged>> /\ (GoTo("done") \/ worker' = NoSearchWorker)
      BY <1>14 DEF ReadExcerpts
    <2>2. dir.report # -1 /\ AllCommitted(dir, callRow) /\ dir.report = Costs(dir, callRow)
      BY <1>1, <2>1 DEF ReportSound, Reported
    <2> QED BY <1>1, <2>1, <2>2, WorkerMoves, WorkerEnds DEF ReportSound, PopulationTypeOK
  <1>15. ASSUME NEW m \in Members, AskProvider(m) PROVE PopulationInv'
    <2>1. worker.step = "calls" /\ UNCHANGED <<control, dir, row, charged>>
      BY <1>15 DEF AskProvider
    <2>2. worker.search = dir.pin /\ dir.pin \in Searches /\ Call(m) = <<dir.pin, m>> /\ Call(m) \in SearchCalls /\ Call(m)[1] = dir.pin
      BY <1>1, <2>1 DEF PopulationTypeOK, Call, SearchCalls
    <2>3. CASE GoTo("abort") /\ UNCHANGED callRow
      BY <2>1, <2>3, WorkerMoves DEF Reported
    <2>4. CASE /\ callRow[Call(m)].state = "committed" /\ UNCHANGED callRow
               /\ worker' = [worker EXCEPT !.asked = @ \cup {m}, !.got = worker.got \cup {m}]
      <3>1. worker'.step = worker.step /\ worker'.search = worker.search /\ worker'.got = worker.got \cup {m} /\ worker'.broken = worker.broken /\ DOMAIN worker' = DOMAIN worker
        BY <1>1, <2>4 DEF PopulationTypeOK, WorkerFields, DirFields
      <3>2. PopulationTypeOK'
        BY <1>1, <2>1, <2>4, <3>1 DEF PopulationTypeOK
      <3> QED BY <1>1, <2>1, <2>2, <2>4, <3>1, <3>2 DEF PopulationInv, CallsSound, GotCommitted, ReportSound
    <2>5. CASE /\ MayStart(Call(m)) /\ callRow' = [callRow EXCEPT ![Call(m)].state = "running"]
               /\ worker' = [worker EXCEPT !.asked = @ \cup {m}]
      <3> DEFINE c == Call(m)
                 r == [callRow[c] EXCEPT !.state = "running"]
      <3>1. callRow[c] \in CallRows /\ callRow[c].state = "none" /\ charged[c] \in Nat
        BY <1>1, <2>2, <2>5 DEF PopulationTypeOK, MayStart
      <3>2. callRow' = [callRow EXCEPT ![c] = r] /\ charged' = [charged EXCEPT ![c] = charged[c]]
        BY <1>1, <2>1, <2>2, <2>5 DEF PopulationTypeOK
      <3>3. r \in CallRows /\ r.state = "running" /\ r.cost = callRow[c].cost
        BY <3>1 DEF CallRows
      <3>4. worker'.step = worker.step /\ worker'.search = worker.search /\ worker'.got = worker.got /\ worker'.broken = worker.broken /\ DOMAIN worker' = DOMAIN worker
        BY <1>1, <2>5 DEF PopulationTypeOK, WorkerFields, DirFields
      <3>5. CallSound(c, r, charged[c], dir.pin)
        <4>1. CallSound(c, callRow[c], charged[c], dir.pin)
          BY <1>1, <2>2 DEF CallsSound
        <4> QED BY <2>2, <3>1, <3>3, <4>1 DEF CallSound
      <3> HIDE DEF r
      <3> QED BY <2>1, <2>2, <3>1, <3>2, <3>3, <3>4, <3>5, CallMoves
    <2> QED BY <1>15, <2>3, <2>4, <2>5 DEF AskProvider
  <1>16. ASSUME NEW m \in Members, ReceiveReceipt(m) PROVE PopulationInv'
    <2>1. worker.step = "calls" /\ callRow[Call(m)].state = "committed" /\ UNCHANGED <<control, dir, row, callRow, charged>>
          /\ worker' = [worker EXCEPT !.got = worker.got \cup {m}]
      BY <1>16 DEF ReceiveReceipt
    <2>2. worker.search = dir.pin /\ Call(m) = <<dir.pin, m>>
      BY <1>1, <2>1 DEF PopulationTypeOK, Call
    <2>3. worker'.step = worker.step /\ worker'.search = worker.search /\ worker'.got = worker.got \cup {m} /\ worker'.broken = worker.broken /\ DOMAIN worker' = DOMAIN worker
      BY <1>1, <2>1 DEF PopulationTypeOK, WorkerFields, DirFields
    <2>4. PopulationTypeOK'
      BY <1>1, <2>1, <2>3 DEF PopulationTypeOK
    <2> QED BY <1>1, <2>1, <2>2, <2>3, <2>4 DEF PopulationInv, CallsSound, GotCommitted, ReportSound
  <1>17. ASSUME NEW m \in Members, AnswerFails(m) PROVE PopulationInv'
    BY <1>17, WorkerMoves DEF AnswerFails, Reported
  <1>25. ASSUME NEW m \in Members, RunnerRaises(m) PROVE PopulationInv'
    <2>1. worker.step = "calls" /\ UNCHANGED <<control, dir, row, callRow, charged>>
          /\ worker' = [worker EXCEPT !.got = worker.got \cup {m}, !.broken = worker.broken \cup {m}]
      BY <1>25 DEF RunnerRaises
    <2>2. worker'.step = worker.step /\ worker'.search = worker.search /\ worker'.got = worker.got \cup {m}
          /\ worker'.broken = worker.broken \cup {m} /\ DOMAIN worker' = DOMAIN worker
      BY <1>1, <2>1 DEF PopulationTypeOK, WorkerFields
    <2>3. PopulationTypeOK'
      BY <1>1, <2>1, <2>2 DEF PopulationTypeOK
    <2> QED BY <1>1, <2>1, <2>2, <2>3 DEF PopulationInv, CallsSound, GotCommitted, ReportSound
  <1>18. ASSUME NEW c \in SearchCalls, callRow[c].state \in {"running", "paid"}
         PROVE  c[1] = dir.pin /\ callRow[c] \in CallRows /\ charged[c] \in Nat
                /\ CallSound(c, callRow[c], charged[c], dir.pin)
    <2>1. CallSound(c, callRow[c], charged[c], dir.pin)
      BY <1>1 DEF CallsSound
    <2> QED BY <1>1, <1>18, <2>1 DEF PopulationTypeOK, CallSound
  <1>19. ASSUME NEW c \in SearchCalls, CommitCall(c) PROVE PopulationInv'
    <2> DEFINE r == [callRow[c] EXCEPT !.state = "committed"]
    <2>1. callRow[c].state = "paid" /\ UNCHANGED <<control, dir, row, charged, worker>>
      BY <1>19 DEF CommitCall
    <2>2. callRow' = [callRow EXCEPT ![c] = r] /\ charged' = [charged EXCEPT ![c] = charged[c]]
      BY <1>1, <1>19, <2>1 DEF CommitCall, PopulationTypeOK
    <2>3. r \in CallRows /\ r.state = "committed" /\ r.cost = callRow[c].cost
      BY <1>18, <2>1 DEF CallRows
    <2>4. CallSound(c, r, charged[c], dir.pin)
      BY <1>18, <2>1, <2>3 DEF CallSound
    <2> HIDE DEF r
    <2> QED BY <1>18, <2>1, <2>2, <2>3, <2>4, CallMoves
  <1>20. ASSUME NEW c \in SearchCalls, NEW p \in 0 .. MaxPrice, CallInDoubt(c, p) PROVE PopulationInv'
    <2> DEFINE r == [callRow[c] EXCEPT !.state = "in_doubt"]
               paid == IF callRow[c].state = "running" THEN charged[c] + p ELSE charged[c]
    <2>1. callRow[c].state \in {"running", "paid"} /\ UNCHANGED <<control, dir, row, worker>>
      BY <1>20 DEF CallInDoubt
    <2>2. callRow' = [callRow EXCEPT ![c] = r] /\ charged' = [charged EXCEPT ![c] = paid]
      BY <1>1, <1>20, <2>1 DEF CallInDoubt, PopulationTypeOK
    <2>3. r \in CallRows /\ r.state = "in_doubt"
      BY <1>18, <2>1 DEF CallRows
    <2>4. paid \in Nat
      BY <1>18, <2>1, PopulationAssumption
    <2>5. CallSound(c, r, paid, dir.pin)
      BY <1>18, <2>1, <2>3 DEF CallSound
    <2> HIDE DEF r, paid
    <2> QED BY <1>18, <2>1, <2>2, <2>3, <2>4, <2>5, CallMoves
  <1>21. ASSUME NEW c \in SearchCalls, NEW p \in 0 .. MaxPrice, NEW v \in {"answered", "failed"}, ProviderAnswers(c, p, v)
         PROVE PopulationInv'
    <2> DEFINE r == [state |-> "paid", cost |-> p, verdict |-> v]
    <2>1. callRow[c].state = "running" /\ UNCHANGED <<control, dir, row, worker>>
          /\ callRow' = [callRow EXCEPT ![c] = r] /\ charged' = [charged EXCEPT ![c] = charged[c] + p]
      BY <1>21 DEF ProviderAnswers
    <2>2. r \in CallRows /\ r.state = "paid" /\ r.cost = p
      BY PopulationAssumption DEF CallRows
    <2>3. charged[c] + p = p /\ p \in Nat
      BY <1>18, <2>1, PopulationAssumption DEF CallSound
    <2>4. CallSound(c, r, p, dir.pin)
      BY <1>18, <2>1, <2>2 DEF CallSound
    <2> HIDE DEF r
    <2> QED BY <1>18, <2>1, <2>2, <2>3, <2>4, CallMoves
  <1>22. CASE EditControl
    BY <1>1, <1>22 DEF EditControl, PopulationInv, PopulationTypeOK, CallsSound, GotCommitted, ReportSound
  <1>23. CASE RearmCell
    BY <1>1, <1>23 DEF RearmCell, PopulationInv, PopulationTypeOK, CallsSound, GotCommitted, ReportSound
  <1>24. CASE KillSearch
    BY <1>1, <1>24, WorkerEnds DEF KillSearch, ReportSound, PopulationTypeOK
  <1> QED BY <1>3, <1>4, <1>5, <1>6, <1>7, <1>8, <1>9, <1>10, <1>11, <1>12, <1>13, <1>14, <1>15, <1>16, <1>17,
             <1>19, <1>20, <1>21, <1>22, <1>23, <1>24, <1>25 DEF PopulationNext

\* Of a settled row: it names the pinned search, and only calls of that search were charged.
LEMMA SettledFacts ==
  ASSUME PopulationInv, row.state = "settled"
  PROVE  /\ dir.pin \in Searches /\ row.settled = Costs(dir, callRow)
         /\ \A c \in SearchCalls \ Excused : charged[c] = IF c[1] = dir.pin THEN callRow[c].cost ELSE 0
  <1>1. AllCommitted(dir, callRow) /\ row.settled = Costs(dir, callRow)
    BY DEF PopulationInv, ReportSound
  <1>2. ASSUME NEW c \in SearchCalls \ Excused PROVE charged[c] = IF c[1] = dir.pin THEN callRow[c].cost ELSE 0
    <2>1. CallSound(c, callRow[c], charged[c], dir.pin)
      BY DEF PopulationInv, CallsSound
    <2>2. CASE c[1] = dir.pin
      <3>1. c = <<dir.pin, c[2]>> /\ c[2] \in Members \ dir.broken
        BY <2>2 DEF SearchCalls, Excused
      <3> QED BY <1>1, <2>1, <2>2, <3>1 DEF AllCommitted, CallSound
    <2>3. CASE c[1] # dir.pin
      BY <2>1, <2>3 DEF CallSound
    <2> QED BY <2>2, <2>3
  <1> QED BY <1>1, <1>2 DEF AllCommitted

\* Once the row is settled, everything that was charged was charged to the pinned search.
LEMMA ChargedOfPinned ==
  ASSUME PopulationInv, row.state = "settled"
  PROVE  KnownCharges = Costs(dir, callRow)
  <1> DEFINE p == dir.pin
             T == Members \ dir.broken
             All == SearchCalls \ Excused
             Own == {p} \X T
             b == [m \in T |-> <<p, m>>]
             paid == CostIn(p, callRow)
  <1>1. /\ p \in Searches
        /\ \A c \in All : charged[c] = IF c[1] = p THEN callRow[c].cost ELSE 0
    BY SettledFacts
  <1>2. PopulationTypeOK /\ charged \in [SearchCalls -> Nat]
    BY DEF PopulationInv, PopulationTypeOK
  <1>3. IsFiniteSet(SearchCalls) /\ IsFiniteSet(All) /\ All \subseteq SearchCalls /\ IsFiniteSet(T)
    BY FS_Product, FS_Subset, PopulationAssumption DEF SearchCalls
  <1>4. KnownCharges = Count(charged, All)
    BY <1>2, <1>3, SumIsCount DEF KnownCharges
  <1>5. Own \in SUBSET All /\ \A c \in All \ Own : charged[c] = 0
    <2>1. \A c \in All : c[1] = p => c \in Own
      BY DEF SearchCalls, Excused
    <2>2. Own \subseteq SearchCalls /\ Own \cap Excused = {}
      BY <1>1 DEF SearchCalls, Excused
    <2> QED BY <1>1, <2>1, <2>2
  <1>6. Count(charged, All) = Count(charged, Own)
    BY <1>5, CountOfSupport
  <1>7. b \in Bijection(T, Own)
    BY DEF Bijection, Injection, Surjection, IsInjective
  <1>8. ASSUME NEW m \in T PROVE charged[b[m]] = paid[m] /\ paid[m] \in Nat
    <2>1. b[m] = <<p, m>> /\ b[m] \in Own /\ b[m] \in SearchCalls /\ b[m] \in All
      BY <1>1, <1>5 DEF SearchCalls
    <2>2. charged[b[m]] = callRow[<<p, m>>].cost
      BY <1>1, <2>1
    <2>3. paid[m] = callRow[<<p, m>>].cost
      BY DEF CostIn
    <2>4. charged[b[m]] \in Nat
      BY <1>2, <2>1
    <2> QED BY <2>2, <2>3, <2>4
  <1> HIDE DEF b, Own, p, paid, T, All
  <1>9. Count(paid, T) = Count(charged, Own)
    BY <1>3, <1>7, <1>8, CountOfImage
  <1> QED BY <1>4, <1>6, <1>9 DEF p, paid, T, Costs

\* SettledIsCharged for every set of searches and members and every price: the run settles exactly what the
\* providers charged it.
THEOREM PopulationSettles == PopulationSpec => []SettledIsCharged
  <1>1. PopulationInv => SettledIsCharged
    BY SettledFacts, ChargedOfPinned DEF SettledIsCharged
  <1> QED BY <1>1, PopulationStart, PopulationStep, PTL DEF PopulationSpec

------------------------------------------------------------------------------
\* Fusion of replicas.

PlannedFiles == PlanFiles \ FusionProtected

\* A row that has a verdict was answered for planned files, and passes only for a passing tree.
FusionRows ==
    {entry \in [state : {"none", "in-flight", "answered", "failed"}, base : SUBSET PlannedFiles, head : SUBSET TreeFiles,
              verdict : {"none", "pass", "fail"}, cost : 0 .. 1, unknown : BOOLEAN] :
        /\ entry.verdict # "none" => entry.state = "answered" /\ entry.head \subseteq PlannedFiles
        /\ entry.verdict = "pass" => ChecksPass(entry.head)}

SearchSteps == {"round", "roles", "evidence", "manifest", "compose", "composed", "synthesis", "pick"}
AdoptSteps == {"settle", "adopt", "apply", "commit", "record", "compare"}

\* The types of the checkout, the journal and the stage.
FusionTypeOK ==
    /\ fused \in [fixed : SUBSET TreeFiles, dirty : BOOLEAN, recorded : SUBSET TreeFiles]
    /\ progress \in [rows : [Identities -> FusionRows], phase : {"search", "adopting", "complete"},
                     winner : FusionRows, tested : Nat]
    /\ stage \in [step : {"off"} \cup SearchSteps \cup AdoptSteps, round : 0 .. FusionRounds, base : SUBSET PlannedFiles]
    /\ stage.step # "off" => stage.round \in 1 .. FusionRounds

\* The winner is chosen once, out of the rows that passed, and only it is adopted.
WinnerJournalled ==
    /\ progress.winner # NoRow => /\ progress.winner.verdict = "pass"
                                  /\ \E i \in Identities : progress.rows[i] = progress.winner
    /\ stage.step \in SearchSteps => progress.winner = NoRow
    /\ stage.step \in AdoptSteps => progress.winner # NoRow
    /\ fused.fixed # {} => progress.winner # NoRow /\ fused.fixed = progress.winner.head

\* The inductive invariant of a fusion.
FusionInv == FusionTypeOK /\ WinnerJournalled

\* The row of an attempt not made yet is a row.
LEMMA NoRowSound == NoRow \in FusionRows /\ NoRow.verdict = "none"
  <1>1. FALSE \in BOOLEAN /\ {} \in SUBSET PlannedFiles /\ {} \in SUBSET TreeFiles /\ 0 \in 0 .. 1
    OBVIOUS
  <1> QED BY <1>1 DEF NoRow, FusionRows

\* A fusion starts with an empty journal and an untouched checkout.
LEMMA FusionStart == FusionInit => FusionInv
  <1> SUFFICES ASSUME FusionInit PROVE FusionInv
    OBVIOUS
  <1>1. fused = [fixed |-> {}, dirty |-> FALSE, recorded |-> {}] /\ stage = NoStage
        /\ progress = [rows |-> [i \in Identities |-> NoRow], phase |-> "search", winner |-> NoRow, tested |-> 0]
    BY DEF FusionInit
  <1>2. fused \in [fixed : SUBSET TreeFiles, dirty : BOOLEAN, recorded : SUBSET TreeFiles]
    BY <1>1
  <1>3. progress \in [rows : [Identities -> FusionRows], phase : {"search", "adopting", "complete"},
                     winner : FusionRows, tested : Nat]
    BY <1>1, NoRowSound
  <1>4. stage \in [step : {"off"} \cup SearchSteps \cup AdoptSteps, round : 0 .. FusionRounds, base : SUBSET PlannedFiles]
        /\ stage.step = "off"
    BY <1>1, FusionAssumption DEF NoStage
  <1> QED BY <1>1, <1>2, <1>3, <1>4 DEF FusionInv, FusionTypeOK, WinnerJournalled, SearchSteps, AdoptSteps

\* A step that leaves the stage keeps everything journalled.
LEMMA StageLeft ==
  ASSUME FusionInv, UNCHANGED <<fused, progress>>, stage' = NoStage
  PROVE  FusionInv'
  <1>1. stage' \in [step : {"off"} \cup SearchSteps \cup AdoptSteps, round : 0 .. FusionRounds, base : SUBSET PlannedFiles]
        /\ stage'.step = "off"
    BY FusionAssumption DEF NoStage
  <1>2. "off" \notin SearchSteps /\ "off" \notin AdoptSteps
    BY DEF SearchSteps, AdoptSteps
  <1> QED BY <1>1, <1>2 DEF FusionInv, FusionTypeOK, WinnerJournalled

\* A step that only moves the stage on within its half of the work.
LEMMA StageMoves ==
  ASSUME FusionInv, UNCHANGED <<fused, progress>>, NEW s,
         stage' = [stage EXCEPT !.step = s],
         \/ stage.step \in SearchSteps /\ s \in SearchSteps
         \/ stage.step \in AdoptSteps /\ s \in AdoptSteps
  PROVE  FusionInv'
  <1>0. stage \in [step : {"off"} \cup SearchSteps \cup AdoptSteps, round : 0 .. FusionRounds, base : SUBSET PlannedFiles]
        /\ (stage.step # "off" => stage.round \in 1 .. FusionRounds)
    BY DEF FusionInv, FusionTypeOK
  <1>1. stage' \in [step : {"off"} \cup SearchSteps \cup AdoptSteps, round : 0 .. FusionRounds, base : SUBSET PlannedFiles]
        /\ stage'.step = s /\ stage'.round = stage.round
    BY <1>0
  <1>2. "off" \notin SearchSteps /\ "off" \notin AdoptSteps /\ (s \in SearchSteps => s \notin AdoptSteps)
    BY DEF SearchSteps, AdoptSteps
  <1>3. stage.step \in AdoptSteps => stage.step \notin SearchSteps
    BY DEF SearchSteps, AdoptSteps
  <1> QED BY <1>0, <1>1, <1>2, <1>3 DEF FusionInv, FusionTypeOK, WinnerJournalled

\* The journal's rows change only while the search runs, before there is a winner.
LEMMA RowJournalled ==
  ASSUME FusionInv, UNCHANGED fused, NEW i \in Identities, NEW entry \in FusionRows, NEW n \in Nat,
         stage.step \in SearchSteps, stage'.step \in SearchSteps,
         stage' \in [step : {"off"} \cup SearchSteps \cup AdoptSteps, round : 0 .. FusionRounds, base : SUBSET PlannedFiles],
         stage'.round = stage.round,
         progress' = [progress EXCEPT !.rows = [progress.rows EXCEPT ![i] = entry], !.tested = n]
  PROVE  FusionInv'
  <1>1. progress' \in [rows : [Identities -> FusionRows], phase : {"search", "adopting", "complete"},
                     winner : FusionRows, tested : Nat] /\ progress'.winner = progress.winner
    BY DEF FusionInv, FusionTypeOK
  <1>2. progress.winner = NoRow
    BY DEF FusionInv, WinnerJournalled
  <1>3. "off" \notin SearchSteps /\ (stage'.step \in SearchSteps => stage'.step \notin AdoptSteps)
    BY DEF SearchSteps, AdoptSteps
  <1> QED BY <1>1, <1>2, <1>3 DEF FusionInv, FusionTypeOK, WinnerJournalled

\* What an attempt in flight becomes is a row again.
LEMMA RowUpdates ==
  ASSUME NEW entry \in FusionRows, entry.state = "in-flight"
  PROVE  /\ \A f \in SUBSET TreeFiles : [entry EXCEPT !.head = f, !.cost = 1] \in FusionRows
         /\ [entry EXCEPT !.state = "failed", !.cost = 1, !.unknown = TRUE] \in FusionRows
         /\ [entry EXCEPT !.state = "failed"] \in FusionRows
         /\ \A s \in {"failed", "answered"} : [entry EXCEPT !.state = s, !.head = {}] \in FusionRows
         /\ \A h \in SUBSET PlannedFiles : h \in SUBSET TreeFiles =>
               /\ [entry EXCEPT !.state = "answered", !.head = h, !.verdict = IF ChecksPass(h) THEN "pass" ELSE "fail"] \in FusionRows
  <1> DEFINE RowSet == [state : {"none", "in-flight", "answered", "failed"}, base : SUBSET PlannedFiles, head : SUBSET TreeFiles,
              verdict : {"none", "pass", "fail"}, cost : 0 .. 1, unknown : BOOLEAN]
  <1>1. entry \in RowSet /\ entry.verdict = "none"
    BY DEF FusionRows
  <1>0. 1 \in 0 .. 1 /\ TRUE \in BOOLEAN
    OBVIOUS
  <1>2. ASSUME NEW f \in SUBSET TreeFiles PROVE [entry EXCEPT !.head = f, !.cost = 1] \in FusionRows
    <2>1. [entry EXCEPT !.head = f, !.cost = 1] \in RowSet /\ [entry EXCEPT !.head = f, !.cost = 1].verdict = "none"
      BY <1>0, <1>1
    <2> QED BY <2>1 DEF FusionRows
  <1>3. [entry EXCEPT !.state = "failed", !.cost = 1, !.unknown = TRUE] \in FusionRows
    <2>1. /\ [entry EXCEPT !.state = "failed", !.cost = 1, !.unknown = TRUE] \in RowSet
          /\ [entry EXCEPT !.state = "failed", !.cost = 1, !.unknown = TRUE].verdict = "none"
      BY <1>0, <1>1
    <2> QED BY <2>1 DEF FusionRows
  <1>4. [entry EXCEPT !.state = "failed"] \in FusionRows
    BY <1>1 DEF FusionRows
  <1>5. ASSUME NEW s \in {"failed", "answered"} PROVE [entry EXCEPT !.state = s, !.head = {}] \in FusionRows
    BY <1>1 DEF FusionRows
  <1>6. ASSUME NEW h \in SUBSET PlannedFiles, h \in SUBSET TreeFiles
        PROVE [entry EXCEPT !.state = "answered", !.head = h, !.verdict = IF ChecksPass(h) THEN "pass" ELSE "fail"] \in FusionRows
    <2> DEFINE v == IF ChecksPass(h) THEN "pass" ELSE "fail"
    <2>1. v \in {"none", "pass", "fail"} /\ (v = "pass" => ChecksPass(h))
      OBVIOUS
    <2> HIDE DEF v
    <2> DEFINE new == [entry EXCEPT !.state = "answered", !.head = h, !.verdict = v]
    <2>2. new \in RowSet /\ new.state = "answered" /\ new.head = h /\ new.verdict = v
      BY <1>1, <1>6, <2>1
    <2> HIDE DEF new
    <2>3. new \in FusionRows
      BY <1>6, <2>1, <2>2 DEF FusionRows
    <2> QED BY <2>3 DEF new, v
  <1> QED BY <1>2, <1>3, <1>4, <1>5, <1>6

\* Every step of the fusion keeps its invariant.
LEMMA FusionStep == FusionInv /\ [FusionNext]_fusionvars => FusionInv'
  <1> SUFFICES ASSUME FusionInv, [FusionNext]_fusionvars PROVE FusionInv'
    OBVIOUS
  <1> DEFINE StageSet == [step : {"off"} \cup SearchSteps \cup AdoptSteps, round : 0 .. FusionRounds, base : SUBSET PlannedFiles]
             ProgressSet == [rows : [Identities -> FusionRows], phase : {"search", "adopting", "complete"},
                     winner : FusionRows, tested : Nat]
  <1>1. /\ fused \in [fixed : SUBSET TreeFiles, dirty : BOOLEAN, recorded : SUBSET TreeFiles]
        /\ progress \in ProgressSet
        /\ stage \in StageSet
        /\ stage.step # "off" => stage.round \in 1 .. FusionRounds
    BY DEF FusionInv, FusionTypeOK
  <1>2. WinnerJournalled
    BY DEF FusionInv
  <1>3. \A r \in Roles \cup {"composition", "synthesis"} : stage.round \in 1 .. FusionRounds => <<stage.round, r>> \in Identities
    BY DEF Identities
  <1>4. ASSUME NEW r \in Roles \cup {"composition", "synthesis"}, stage.step # "off"
        PROVE <<stage.round, r>> \in Identities /\ Row(r) \in FusionRows /\ Row(r) = progress.rows[<<stage.round, r>>]
    BY <1>1, <1>3, <1>4 DEF Row
  <1>5. FALSE \in BOOLEAN /\ TRUE \in BOOLEAN
    OBVIOUS
  <1>6. CASE UNCHANGED fusionvars
    BY <1>6 DEF fusionvars, FusionInv, FusionTypeOK, WinnerJournalled
  <1>7. CASE EnterFusion
    <2>1. stage.step = "off" /\ UNCHANGED <<fused, progress>>
      BY <1>7 DEF EnterFusion
    <2>2. CASE UNCHANGED stage
      BY <2>1, <2>2 DEF FusionInv, FusionTypeOK, WinnerJournalled
    <2>3. CASE stage' = [NoStage EXCEPT !.step = IF progress.winner # NoRow THEN "settle" ELSE "round", !.round = 1]
      <3> DEFINE s == IF progress.winner # NoRow THEN "settle" ELSE "round"
      <3>a. s \in SearchSteps \cup AdoptSteps /\ 1 \in 0 .. FusionRounds /\ 1 \in 1 .. FusionRounds /\ {} \in SUBSET PlannedFiles
        BY FusionAssumption DEF SearchSteps, AdoptSteps
      <3>b. stage' = [step |-> s, round |-> 1, base |-> {}]
        BY <2>3 DEF NoStage
      <3>1. stage' \in StageSet /\ stage'.round \in 1 .. FusionRounds
            /\ stage'.step = IF progress.winner # NoRow THEN "settle" ELSE "round"
        <4> HIDE DEF s
        <4>1. stage' \in StageSet /\ stage'.round = 1 /\ stage'.step = s
          BY <3>a, <3>b
        <4> QED BY <4>1, <3>a DEF s
      <3>2. "round" \in SearchSteps /\ "round" \notin AdoptSteps /\ "settle" \in AdoptSteps /\ "settle" \notin SearchSteps
        BY DEF SearchSteps, AdoptSteps
      <3> QED BY <1>1, <1>2, <2>1, <3>1, <3>2 DEF FusionInv, FusionTypeOK, WinnerJournalled
    <2> QED BY <1>7, <2>2, <2>3 DEF EnterFusion
  <1>8. CASE BeginRound
    <2>1. stage.step = "round" /\ UNCHANGED <<fused, progress>>
          /\ (stage' = NoStage \/ stage' = [stage EXCEPT !.step = "roles"])
      BY <1>8 DEF BeginRound, Fail
    <2>2. {"round", "roles"} \subseteq SearchSteps
      BY DEF SearchSteps
    <2> QED BY <2>1, <2>2, StageLeft, StageMoves
  <1>9. CASE JoinRoles
    <2>1. stage.step = "roles" /\ UNCHANGED <<fused, progress>>
          /\ (stage' = NoStage \/ stage' = [stage EXCEPT !.step = IF Cardinality(Repairs) = 2 THEN "evidence" ELSE "composed"])
      BY <1>9 DEF JoinRoles, Fail
    <2>2. {"roles", "evidence", "composed"} \subseteq SearchSteps
      BY DEF SearchSteps
    <2> QED BY <2>1, <2>2, StageLeft, StageMoves
  <1>10. CASE WriteBundles
    <2>1. stage.step = "evidence" /\ UNCHANGED <<fused, progress>> /\ stage' = [stage EXCEPT !.step = "manifest"]
      BY <1>10 DEF WriteBundles
    <2>2. {"manifest", "evidence"} \subseteq SearchSteps
      BY DEF SearchSteps
    <2> QED BY <2>1, <2>2, StageMoves
  <1>11. CASE SealBundles
    <2>1. stage.step = "manifest" /\ UNCHANGED <<fused, progress>> /\ stage' = [stage EXCEPT !.step = "evidence"]
      BY <1>11 DEF SealBundles
    <2>2. {"manifest", "evidence"} \subseteq SearchSteps
      BY DEF SearchSteps
    <2> QED BY <2>1, <2>2, StageMoves
  <1>12. CASE Compose
    <2>1. stage.step = "evidence" /\ UNCHANGED fused
      BY <1>12 DEF Compose
    <2>2. {"compose", "evidence", "composed"} \subseteq SearchSteps
      BY DEF SearchSteps
    <2>3. CASE UNCHANGED progress /\ stage' = NoStage
      BY <2>1, <2>3, StageLeft
    <2>4. CASE UNCHANGED progress /\ stage' = [stage EXCEPT !.step = "composed"]
      BY <2>1, <2>2, <2>4, StageMoves
    <2>5. CASE SetRow("composition", [NoRow EXCEPT !.state = "in-flight", !.base = stage.base])
               /\ stage' = [stage EXCEPT !.step = "compose"]
      <3> DEFINE entry == [NoRow EXCEPT !.state = "in-flight", !.base = stage.base]
                 i == <<stage.round, "composition">>
      <3>1. entry \in FusionRows /\ i \in Identities
        BY <1>1, <1>4, <2>1, NoRowSound DEF FusionRows, NoRow
      <3>2. progress' = [progress EXCEPT !.rows = [progress.rows EXCEPT ![i] = entry], !.tested = progress.tested]
        BY <1>1, <2>5 DEF SetRow
      <3>3. stage' \in StageSet /\ stage'.step = "compose" /\ stage'.round = stage.round
        BY <1>1, <2>2, <2>5
      <3> HIDE DEF entry, i
      <3> QED BY <1>1, <2>1, <2>2, <3>1, <3>2, <3>3, RowJournalled
    <2> QED BY <1>12, <2>3, <2>4, <2>5 DEF Compose, Fail
  <1>13. CASE Mechanical
    <2> DEFINE head == Row("repair-a").head \cup Row("repair-b").head
               i == <<stage.round, "composition">>
               entry == [Row("composition") EXCEPT !.state = "answered", !.head = head,
                                    !.verdict = IF ChecksPass(head) THEN "pass" ELSE "fail"]
    <2>1. stage.step = "compose" /\ UNCHANGED fused
      BY <1>13 DEF Mechanical
    <2>2. {"compose", "composed"} \subseteq SearchSteps
      BY DEF SearchSteps
    <2>3. CASE UNCHANGED progress /\ stage' = NoStage
      BY <2>1, <2>3, StageLeft
    <2>4. CASE /\ InScope(stage.base, head)
               /\ progress' = [progress EXCEPT !.rows[i] = entry, !.tested = @ + 1]
               /\ stage' = [stage EXCEPT !.step = "composed"]
      <3>1. i \in Identities /\ Row("composition") \in FusionRows /\ Row("repair-a") \in FusionRows /\ Row("repair-b") \in FusionRows
        BY <1>4, <2>1 DEF Roles
      <3>2. head \in SUBSET TreeFiles /\ head \in SUBSET PlannedFiles
        BY <1>1, <2>4, <3>1 DEF InScope, PlannedFiles, FusionRows
      <3>3. entry \in FusionRows
        <4> HIDE DEF head
        <4> DEFINE v == IF ChecksPass(head) THEN "pass" ELSE "fail"
        <4>1. v \in {"none", "pass", "fail"} /\ (v = "pass" => ChecksPass(head))
          OBVIOUS
        <4> HIDE DEF v
        <4>2. [Row("composition") EXCEPT !.state = "answered", !.head = head, !.verdict = v] \in FusionRows
          BY <3>1, <3>2, <4>1 DEF FusionRows
        <4> QED BY <4>2 DEF v
      <3> HIDE DEF entry, i
      <3>4. progress' = [progress EXCEPT !.rows = [progress.rows EXCEPT ![i] = entry], !.tested = progress.tested + 1]
        BY <1>1, <2>4
      <3>5. stage' \in StageSet /\ stage'.step = "composed" /\ stage'.round = stage.round
        BY <1>1, <2>2, <2>4
      <3>6. progress.tested + 1 \in Nat
        BY <1>1
      <3> QED BY <2>1, <2>2, <3>1, <3>3, <3>4, <3>5, <3>6, RowJournalled
    <2> QED BY <1>1, <1>4, <1>13, <2>1, <2>3, <2>4 DEF Mechanical, Fail
  <1>14. CASE Composed
    <2>1. stage.step = "composed" /\ UNCHANGED <<fused, progress>>
          /\ (stage' = NoStage \/ \E s \in {"pick", "synthesis"} : stage' = [stage EXCEPT !.step = s])
      BY <1>14 DEF Composed, Fail
    <2>2. {"composed", "pick", "synthesis"} \subseteq SearchSteps
      BY DEF SearchSteps
    <2> QED BY <2>1, <2>2, StageLeft, StageMoves
  <1>15. CASE SynthesisDone
    <2>1. stage.step = "synthesis" /\ UNCHANGED <<fused, progress>>
          /\ (stage' = NoStage \/ stage' = [stage EXCEPT !.step = "pick"])
      BY <1>15 DEF SynthesisDone, Fail
    <2>2. {"pick", "synthesis"} \subseteq SearchSteps
      BY DEF SearchSteps
    <2> QED BY <2>1, <2>2, StageLeft, StageMoves
  <1>16. CASE Pick
    <2>1. stage.step = "pick" /\ UNCHANGED fused
      BY <1>16 DEF Pick
    <2>2. "pick" \in SearchSteps /\ "settle" \in AdoptSteps /\ "settle" \notin SearchSteps
          /\ "round" \in SearchSteps /\ "round" \notin AdoptSteps
      BY DEF SearchSteps, AdoptSteps
    <2>3. progress.winner = NoRow /\ fused.fixed = {}
      BY <1>2, <2>1, <2>2 DEF WinnerJournalled
    <2>a. Writers \cup {"composition"} \subseteq Roles \cup {"composition", "synthesis"}
      BY DEF Writers, Roles
    <2>4. CASE stage' = NoStage /\ UNCHANGED progress
      BY <2>1, <2>4, StageLeft
    <2>5. ASSUME NEW r \in Winners, progress' = [progress EXCEPT !.winner = Row(r)], stage' = [stage EXCEPT !.step = "settle"]
          PROVE  FusionInv'
      <3>1. Row(r) \in FusionRows /\ Row(r).verdict = "pass" /\ <<stage.round, r>> \in Identities
            /\ Row(r) = progress.rows[<<stage.round, r>>]
        BY <1>4, <2>1, <2>a DEF Winners
      <3>2. progress' \in ProgressSet /\ progress'.winner = Row(r) /\ progress'.rows = progress.rows
        BY <1>1, <2>5, <3>1
      <3>3. stage' \in StageSet /\ stage'.step = "settle" /\ stage'.round = stage.round
        BY <1>1, <2>2, <2>5
      <3>4. Row(r) # NoRow
        BY <3>1, NoRowSound
      <3> QED BY <1>1, <2>1, <2>2, <2>3, <3>1, <3>2, <3>3, <3>4 DEF FusionInv, FusionTypeOK, WinnerJournalled
    <2>6. ASSUME NEW r \in Writers \cup {"composition"}, Row(r).verdict # "none", stage.round < FusionRounds,
                 stage' = [step |-> "round", round |-> stage.round + 1, base |-> Row(r).head], UNCHANGED progress
          PROVE  FusionInv'
      <3>1. Row(r).head \in SUBSET PlannedFiles
        BY <1>4, <2>1, <2>6, <2>a DEF FusionRows
      <3>2. stage' \in StageSet /\ stage'.step = "round" /\ stage'.round \in 1 .. FusionRounds
        BY <1>1, <2>1, <2>2, <2>6, <3>1, FusionAssumption
      <3> QED BY <1>1, <2>1, <2>2, <2>3, <2>6, <3>2 DEF FusionInv, FusionTypeOK, WinnerJournalled
    <2> QED BY <1>16, <2>4, <2>5, <2>6 DEF Pick, Fail
  <1>17. CASE SettleFusion
    <2>1. stage.step = "settle" /\ UNCHANGED <<fused, progress>>
          /\ (stage' = NoStage \/ stage' = [stage EXCEPT !.step = "adopt"])
      BY <1>17 DEF SettleFusion, Fail
    <2>2. {"settle", "adopt"} \subseteq AdoptSteps
      BY DEF AdoptSteps
    <2> QED BY <2>1, <2>2, StageLeft, StageMoves
  <1>18. CASE BeginAdopt
    <2>1. stage.step = "adopt" /\ UNCHANGED fused
      BY <1>18 DEF BeginAdopt
    <2>2. CASE stage' = NoStage /\ UNCHANGED progress
      BY <2>1, <2>2, StageLeft
    <2>3. CASE /\ progress' = [progress EXCEPT !.phase = "adopting"]
               /\ stage' = [stage EXCEPT !.step = IF fused.fixed = {} THEN "apply" ELSE "compare"]
      <3>1. progress' \in ProgressSet /\ progress'.winner = progress.winner /\ progress'.rows = progress.rows
        BY <1>1, <2>3
      <3>2. stage.step \in AdoptSteps /\ stage.step # "off" /\ stage' \in StageSet /\ stage'.step \in AdoptSteps
            /\ stage'.step \notin SearchSteps /\ stage'.round = stage.round
        BY <1>1, <2>1, <2>3 DEF AdoptSteps, SearchSteps
      <3> QED BY <1>1, <1>2, <2>1, <3>1, <3>2 DEF FusionInv, FusionTypeOK, WinnerJournalled
    <2> QED BY <1>18, <2>2, <2>3 DEF BeginAdopt, Fail
  <1>19. CASE ApplyPatch \/ CommitPatch \/ RecordAdopted
    <2>1. UNCHANGED progress /\ stage.step \in {"apply", "commit", "record"}
          /\ \E s \in {"commit", "record", "compare"} : stage' = [stage EXCEPT !.step = s]
      BY <1>19 DEF ApplyPatch, CommitPatch, RecordAdopted
    <2>2. stage.step \in AdoptSteps /\ stage.step # "off" /\ stage' \in StageSet /\ stage'.step \in AdoptSteps
            /\ stage'.step \notin SearchSteps /\ stage'.round = stage.round
      BY <1>1, <2>1 DEF AdoptSteps, SearchSteps
    <2>3. progress.winner # NoRow /\ progress.winner.head \in SUBSET TreeFiles
      BY <1>1, <1>2, <2>2 DEF WinnerJournalled, FusionRows
    <2>4. /\ fused' \in [fixed : SUBSET TreeFiles, dirty : BOOLEAN, recorded : SUBSET TreeFiles]
          /\ fused'.fixed \in {fused.fixed, progress.winner.head}
      BY <1>1, <1>5, <1>19, <2>3 DEF ApplyPatch, CommitPatch, RecordAdopted
    <2> QED BY <1>1, <1>2, <2>1, <2>2, <2>3, <2>4 DEF FusionInv, FusionTypeOK, WinnerJournalled
  <1>20. CASE Adopted
    <2>1. stage.step = "compare" /\ UNCHANGED fused /\ stage' = NoStage
      BY <1>20 DEF Adopted, Fail
    <2>2. CASE UNCHANGED progress
      BY <2>1, <2>2, StageLeft
    <2>3. CASE progress' = [progress EXCEPT !.tested = @ + 1, !.phase = IF ChecksPass(fused.fixed) THEN "complete" ELSE @]
      <3> DEFINE ph == IF ChecksPass(fused.fixed) THEN "complete" ELSE progress.phase
      <3>a. ph \in {"search", "adopting", "complete"} /\ progress.tested + 1 \in Nat
        BY <1>1
      <3>b. progress' = [progress EXCEPT !.tested = progress.tested + 1, !.phase = ph]
        BY <2>3
      <3> HIDE DEF ph
      <3>1. progress' \in ProgressSet /\ progress'.winner = progress.winner /\ progress'.rows = progress.rows
        BY <1>1, <3>a, <3>b
      <3>2. stage' \in StageSet /\ stage'.step = "off" /\ "off" \notin AdoptSteps /\ "off" \notin SearchSteps
        BY <2>1, FusionAssumption DEF NoStage, AdoptSteps, SearchSteps
      <3> QED BY <1>1, <1>2, <2>1, <3>1, <3>2 DEF FusionInv, FusionTypeOK, WinnerJournalled
    <2> QED BY <1>20, <2>2, <2>3 DEF Adopted
  <1>21. CASE TerminateFusion
    BY <1>21, StageLeft DEF TerminateFusion, Fail
  <1>22. CASE KillFusion
    <2> DEFINE rows == [i \in Identities |-> IF progress.rows[i].state = "in-flight" THEN [NoRow EXCEPT !.state = "in-flight"]
                                              ELSE progress.rows[i]]
    <2>1. stage' = NoStage /\ UNCHANGED fused /\ progress' = [progress EXCEPT !.rows = rows]
      BY <1>22 DEF KillFusion
    <2>2. [NoRow EXCEPT !.state = "in-flight"] \in FusionRows
      BY NoRowSound DEF NoRow, FusionRows
    <2>3. rows \in [Identities -> FusionRows]
      BY <1>1, <2>2
    <2>4. progress' \in ProgressSet /\ progress'.winner = progress.winner /\ progress'.rows = rows
      BY <1>1, <2>1, <2>3
    <2>5. ASSUME progress.winner # NoRow PROVE \E i \in Identities : rows[i] = progress.winner
      <3>1. PICK i \in Identities : progress.rows[i] = progress.winner /\ progress.winner.verdict = "pass"
        BY <1>2, <2>5 DEF WinnerJournalled
      <3>2. progress.rows[i].state # "in-flight"
        BY <1>1, <3>1 DEF FusionRows
      <3> QED BY <3>1, <3>2
    <2>6. stage' \in StageSet /\ stage'.step = "off" /\ "off" \notin AdoptSteps /\ "off" \notin SearchSteps
      BY <2>1, FusionAssumption DEF NoStage, AdoptSteps, SearchSteps
    <2> HIDE DEF rows
    <2> QED BY <1>1, <1>2, <2>1, <2>4, <2>5, <2>6 DEF FusionInv, FusionTypeOK, WinnerJournalled
  <1>23. CASE CancelFusion
    BY <1>23 DEF CancelFusion, FusionInv, FusionTypeOK, WinnerJournalled
  <1>24. ASSUME stage.step \in {"roles", "synthesis"}, NEW r \in Roles \cup {"synthesis"},
                \/ StartAttempt(r) \/ FinishAttempt(r) \/ RefuseAttempt(r) \/ AgentLost(r)
                \/ \E files \in Edits : AgentFixes(r, files)
         PROVE  FusionInv'
    <2> DEFINE i == <<stage.round, r>>
    <2>1. stage.step \in SearchSteps /\ stage.step # "off" /\ i \in Identities /\ Row(r) \in FusionRows
      BY <1>4, <1>24 DEF SearchSteps
    <2>2. UNCHANGED <<fused, stage>>
      BY <1>24 DEF StartAttempt, FinishAttempt, RefuseAttempt, AgentLost, AgentFixes
    <2>3. \E entry \in FusionRows, n \in Nat :
             progress' = [progress EXCEPT !.rows = [progress.rows EXCEPT ![i] = entry], !.tested = n]
      <3>1. ASSUME NEW entry \in FusionRows, SetRow(r, entry)
            PROVE  progress' = [progress EXCEPT !.rows = [progress.rows EXCEPT ![i] = entry], !.tested = progress.tested]
        BY <1>1, <3>1 DEF SetRow
      <3>2. CASE StartAttempt(r)
        <4>1. [NoRow EXCEPT !.state = "in-flight", !.base = stage.base] \in FusionRows
          BY <1>1, NoRowSound DEF FusionRows, NoRow
        <4> QED BY <1>1, <3>1, <3>2, <4>1 DEF StartAttempt
      <3>3. CASE AgentLost(r)
        <4>1. SetRow(r, [Row(r) EXCEPT !.state = "failed", !.cost = 1, !.unknown = TRUE]) /\ Row(r).state = "in-flight"
          BY <3>3 DEF AgentLost
        <4>2. [Row(r) EXCEPT !.state = "failed", !.cost = 1, !.unknown = TRUE] \in FusionRows
          BY <2>1, <4>1, RowUpdates
        <4> QED BY <1>1, <3>1, <4>1, <4>2
      <3>4. CASE RefuseAttempt(r)
        <4>1. SetRow(r, [Row(r) EXCEPT !.state = "failed"]) /\ Row(r).state = "in-flight"
          BY <3>4 DEF RefuseAttempt
        <4>2. [Row(r) EXCEPT !.state = "failed"] \in FusionRows
          BY <2>1, <4>1, RowUpdates
        <4> QED BY <1>1, <3>1, <4>1, <4>2
      <3>5. ASSUME NEW files \in Edits, AgentFixes(r, files) PROVE <2>3
        <4> DEFINE h == Row(r).base \cup (IF r \in Writers THEN files ELSE {})
        <4>1. h \in SUBSET TreeFiles
          BY <2>1, FusionAssumption DEF FusionRows, PlannedFiles
        <4>2. Row(r).state = "in-flight" /\ SetRow(r, [Row(r) EXCEPT !.head = h, !.cost = 1])
          BY <3>5 DEF AgentFixes
        <4> HIDE DEF h
        <4>3. [Row(r) EXCEPT !.head = h, !.cost = 1] \in FusionRows
          BY <2>1, <4>1, <4>2, RowUpdates
        <4>4. progress.tested \in Nat
          BY <1>1
        <4> HIDE DEF i
        <4> QED BY <3>1, <4>2, <4>3, <4>4
      <3>6. CASE FinishAttempt(r)
        <4> DEFINE judged == r \in Writers /\ InScope(Row(r).base, Row(r).head) /\ Owned /\ VerifierLeft
                   passed == [Row(r) EXCEPT !.state = "answered", !.verdict = IF ChecksPass(Row(r).head) THEN "pass" ELSE "fail"]
                   miss == [Row(r) EXCEPT !.state = IF r \in Writers THEN "failed" ELSE "answered", !.head = {}]
                   entry == IF judged THEN passed ELSE miss
                   n == IF judged THEN progress.tested + 1 ELSE progress.tested
        <4>1. Row(r).state = "in-flight" /\ progress' = [progress EXCEPT !.rows[i] = entry, !.tested = n]
          BY <3>6 DEF FinishAttempt
        <4>2. ASSUME judged PROVE passed \in FusionRows
          <5>1. Row(r).head \in SUBSET PlannedFiles /\ Row(r).head \in SUBSET TreeFiles
            BY <2>1, <4>2 DEF InScope, FusionRows, PlannedFiles
          <5>2. [Row(r) EXCEPT !.state = "answered", !.head = Row(r).head,
                               !.verdict = IF ChecksPass(Row(r).head) THEN "pass" ELSE "fail"] \in FusionRows
            BY <2>1, <4>1, <5>1, RowUpdates
          <5>3. passed = [Row(r) EXCEPT !.state = "answered", !.head = Row(r).head,
                               !.verdict = IF ChecksPass(Row(r).head) THEN "pass" ELSE "fail"]
            BY <2>1 DEF FusionRows
          <5> QED BY <5>2, <5>3
        <4>3. miss \in FusionRows
          BY <2>1, <4>1, RowUpdates
        <4>4. entry \in FusionRows /\ n \in Nat
          BY <1>1, <4>2, <4>3
        <4> HIDE DEF entry, n
        <4>5. progress' = [progress EXCEPT !.rows = [progress.rows EXCEPT ![i] = entry], !.tested = n]
          BY <1>1, <4>1
        <4> QED BY <4>4, <4>5
      <3> QED BY <1>24, <3>2, <3>3, <3>4, <3>5, <3>6
    <2> HIDE DEF i
    <2>4. PICK entry \in FusionRows, n \in Nat :
             progress' = [progress EXCEPT !.rows = [progress.rows EXCEPT ![i] = entry], !.tested = n]
      BY <2>3
    <2>5. stage' \in StageSet /\ stage'.step \in SearchSteps /\ stage'.round = stage.round
      BY <1>1, <2>1, <2>2
    <2> QED BY <2>1, <2>2, <2>4, <2>5, RowJournalled
  <1> QED BY <1>6, <1>7, <1>8, <1>9, <1>10, <1>11, <1>12, <1>13, <1>14, <1>15, <1>16, <1>17, <1>18, <1>19, <1>20,
             <1>21, <1>22, <1>23, <1>24 DEF FusionNext

\* AdoptedWasVerified for every set of files and attempts and every number of rounds: what is adopted passed
\* verification as those bytes and changes only planned, unprotected files.
THEOREM FusionAdopts == FusionSpec => []AdoptedWasVerified
  <1>1. FusionInv => AdoptedWasVerified
    BY DEF FusionInv, FusionTypeOK, WinnerJournalled, AdoptedWasVerified, FusionRows, PlannedFiles
  <1> QED BY <1>1, FusionStart, FusionStep, PTL DEF FusionSpec

------------------------------------------------------------------------------
\* Candidates explored from the command line.

\* What a command has read and where it stands.
Leases == [expires : Nat, pinned : BOOLEAN]
\* What a shell is doing, by command, and the diffs it may hold.
Diffs == {Absent} \cup Commits \X Commits
CreateJob == [at : {"reserve", "add", "check", "receipt", "head"}, cand : Candidates, input : Commits]
FreezeJob == [at : {"ref", "update", "frozen"}, cand : Candidates, input : Commits, output : Commits]
RemoveJob == [at : {"remove"}, cand : Candidates, force : BOOLEAN]
BuildJob == [at : {"diff", "hash"}, rv : Revisions] \cup [at : {"manifest"}, rv : Revisions, diff : Diffs]
RetainJob == [at : {"store", "readlease"}, from : Candidates, digest : Revisions, now : Nat]
LeaseJob == [at : {"writelease"}, digest : Revisions, lease : Leases]
SweepJob == [at : {"tear", "rmdir", "unlink"}, digest : Revisions]
Jobs == {Idle} \cup CreateJob \cup FreezeJob \cup RemoveJob \cup BuildJob \cup RetainJob \cup LeaseJob \cup SweepJob

\* A bundle: its diff and its manifest.
Bundles == [diff : Diffs, manifest : {Absent} \cup [rv : Revisions, diff : Diffs]]

\* The types of the files, refs, worktrees and processes.
CandidateTypeOK ==
    /\ ref \in [Candidates -> Commits \cup {Absent}]
    /\ tree \in [Candidates -> {Absent} \cup [head : Commits, dirty : BOOLEAN]]
    /\ receipts \subseteq [cand : Candidates, input : Commits]
    /\ desk \in [Candidates -> Bundles]
    /\ objects \in [Revisions -> {Absent} \cup Bundles]
    /\ lease \in [Revisions -> {Absent} \cup Leases]
    /\ clock \in [now : Nat, started : Nat, killed : Nat]

\* Ref r names the revision's output, an advance on its input.
IsFrozen(r, rv) ==
    rv \in Revisions /\ r[rv.cand] = rv.output /\ rv.input # rv.output /\ IsAncestor(rv.input, rv.output)

\* What a process has read bears out the receipt or the manifest it is about to write.
JobSound(r, j) ==
    /\ j \in Jobs
    /\ j.at \in {"ref", "update", "frozen"} => j.input # j.output /\ IsAncestor(j.input, j.output)
    /\ j.at = "frozen" => r[j.cand] = j.output
    /\ j.at \in {"diff", "hash", "manifest"} => IsFrozen(r, j.rv)
\* Every shell may rely on what its command has read.
JobsSound == shell \in [Shells -> Jobs] /\ \A p \in Shells : JobSound(ref, shell[p])

\* A bundle with a manifest names a frozen revision.
BundleSound(r, b) == b.manifest # Absent => IsFrozen(r, b.manifest.rv)

\* Every receipt of a freeze and every bundle names a frozen revision.
FilesSound ==
    /\ \A rv \in frozen : IsFrozen(ref, rv)
    /\ \A c \in Candidates : BundleSound(ref, desk[c])
    /\ \A d \in Revisions : objects[d] # Absent => BundleSound(ref, objects[d])

\* The inductive invariant of the candidates' files.
CandidateInv == CandidateTypeOK /\ JobsSound /\ FilesSound

\* A ref that is written is never written again (update-ref with the old value zero).
RefGrows == \A c \in Candidates : ref[c] # Absent => ref'[c] = ref[c]

\* A frozen revision stays frozen while refs only grow.
LEMMA FrozenStays ==
  ASSUME RefGrows, NEW rv, IsFrozen(ref, rv)
  PROVE  IsFrozen(ref', rv)
  <1>1. rv \in Revisions /\ rv.cand \in Candidates /\ rv.output \in Commits /\ ref[rv.cand] = rv.output
    BY DEF IsFrozen, Revisions
  <1>2. ref[rv.cand] # Absent
    BY <1>1, CandidateAssumption
  <1> QED BY <1>1, <1>2 DEF IsFrozen, RefGrows

\* So does what every process has read ...
LEMMA JobStays ==
  ASSUME RefGrows, NEW j, JobSound(ref, j)
  PROVE  JobSound(ref', j)
  <1>1. j.at = "frozen" => j.cand \in Candidates /\ j.output \in Commits
    BY DEF JobSound, Jobs, Idle, CreateJob, FreezeJob, RemoveJob, BuildJob, RetainJob, LeaseJob, SweepJob
  <1>2. j.at = "frozen" => ref'[j.cand] = j.output
    BY <1>1, CandidateAssumption DEF JobSound, RefGrows
  <1>3. j.at \in {"diff", "hash", "manifest"} => IsFrozen(ref', j.rv)
    BY FrozenStays DEF JobSound
  <1> QED BY <1>2, <1>3 DEF JobSound

\* ... and so do the files that are left alone.
LEMMA FilesStay ==
  ASSUME FilesSound, RefGrows, UNCHANGED <<frozen, desk, objects>>
  PROVE  FilesSound'
  BY FrozenStays DEF FilesSound, BundleSound

\* A process that goes on to a sound job leaves every job sound.
LEMMA JobsGoOn ==
  ASSUME JobsSound, RefGrows, NEW p \in Shells, NEW j, JobSound(ref', j), shell' = [shell EXCEPT ![p] = j]
  PROVE  JobsSound'
  <1>1. j \in Jobs
    BY DEF JobSound
  <1>2. \A q \in Shells : JobSound(ref', shell[q])
    BY JobStays DEF JobsSound
  <1>3. shell' \in [Shells -> Jobs] /\ \A q \in Shells : shell'[q] = IF q = p THEN j ELSE shell[q]
    BY <1>1 DEF JobsSound
  <1>4. ASSUME NEW q \in Shells PROVE JobSound(ref', shell'[q])
    BY <1>2, <1>3
  <1> QED BY <1>3, <1>4 DEF JobsSound

\* A command that ends, or is killed, leaves every job sound.
LEMMA EndSound ==
  ASSUME JobsSound, RefGrows, NEW p \in Shells, End(p)
  PROVE  JobsSound'
  <1>1. JobSound(ref', Idle)
    BY DEF JobSound, Jobs, Idle
  <1> QED BY <1>1, JobsGoOn DEF End

\* A command at a step has read what that step's job holds.
LEMMA JobAt ==
  ASSUME JobsSound, NEW p \in Shells
  PROVE  /\ shell[p].at \in {"reserve", "add", "check", "receipt", "head"} => shell[p] \in CreateJob
         /\ shell[p].at \in {"ref", "update", "frozen"} =>
              /\ shell[p] \in FreezeJob /\ shell[p].input # shell[p].output
              /\ IsAncestor(shell[p].input, shell[p].output)
         /\ shell[p].at = "frozen" => ref[shell[p].cand] = shell[p].output
         /\ shell[p].at = "remove" => shell[p] \in RemoveJob
         /\ shell[p].at \in {"diff", "hash"} => shell[p] \in [at : {"diff", "hash"}, rv : Revisions] /\ IsFrozen(ref, shell[p].rv)
         /\ shell[p].at = "manifest" => /\ shell[p] \in [at : {"manifest"}, rv : Revisions, diff : Diffs]
                                        /\ IsFrozen(ref, shell[p].rv)
         /\ shell[p].at \in {"store", "readlease"} => shell[p] \in RetainJob
         /\ shell[p].at = "writelease" => shell[p] \in LeaseJob
         /\ shell[p].at \in {"tear", "rmdir", "unlink"} => shell[p] \in SweepJob
  <1>1. JobSound(ref, shell[p])
    BY DEF JobsSound
  <1>2. shell[p] \in Jobs
    BY <1>1 DEF JobSound
  <1> DEFINE j == shell[p]
  <1>3. /\ j.at \in {"reserve", "add", "check", "receipt", "head"} => j \in CreateJob
        /\ j.at \in {"ref", "update", "frozen"} => j \in FreezeJob
        /\ j.at = "remove" => j \in RemoveJob
        /\ j.at \in {"diff", "hash"} => j \in [at : {"diff", "hash"}, rv : Revisions]
        /\ j.at = "manifest" => j \in [at : {"manifest"}, rv : Revisions, diff : Diffs]
        /\ j.at \in {"store", "readlease"} => j \in RetainJob
        /\ j.at = "writelease" => j \in LeaseJob
        /\ j.at \in {"tear", "rmdir", "unlink"} => j \in SweepJob
    BY <1>2 DEF Jobs, Idle, CreateJob, FreezeJob, RemoveJob, BuildJob, RetainJob, LeaseJob, SweepJob
  <1> QED BY <1>1, <1>3 DEF JobSound

\* Nothing is written before the first command.
LEMMA CandidateStart == CandidateInit => CandidateInv
  <1> SUFFICES ASSUME CandidateInit PROVE CandidateInv
    OBVIOUS
  <1>1. CandidateTypeOK
    BY DEF CandidateInit, CandidateTypeOK, EmptyDesk, Bundles, Diffs
  <1>2. JobsSound
    BY DEF CandidateInit, JobsSound, JobSound, Jobs, Idle
  <1>3. FilesSound
    BY DEF CandidateInit, FilesSound, BundleSound, EmptyDesk
  <1> QED BY <1>1, <1>2, <1>3 DEF CandidateInv

\* A command that starts with a sound job.
LEMMA StartSound ==
  ASSUME JobsSound, clock \in [now : Nat, started : Nat, killed : Nat], NEW p \in Shells, NEW j,
         JobSound(ref, j), Start(p, j), UNCHANGED ref
  PROVE  JobsSound' /\ clock' \in [now : Nat, started : Nat, killed : Nat]
  <1>1. RefGrows
    BY DEF RefGrows
  <1>2. JobsSound'
    BY <1>1, JobsGoOn DEF Start
  <1> QED BY <1>2 DEF Start

\* A step that writes no ref, no receipt of a freeze and no bundle: what is left to show.
LEMMA Quiet ==
  ASSUME CandidateInv, UNCHANGED <<ref, frozen, desk, objects>>, JobsSound',
         tree' \in [Candidates -> {Absent} \cup [head : Commits, dirty : BOOLEAN]],
         receipts' \subseteq [cand : Candidates, input : Commits],
         lease' \in [Revisions -> {Absent} \cup Leases],
         clock' \in [now : Nat, started : Nat, killed : Nat]
  PROVE  CandidateInv'
  <1>1. RefGrows
    BY DEF RefGrows
  <1>2. FilesSound'
    BY <1>1, FilesStay DEF CandidateInv
  <1>3. CandidateTypeOK'
    BY DEF CandidateInv, CandidateTypeOK
  <1> QED BY <1>2, <1>3 DEF CandidateInv

\* The steps that leave refs and evidence alone.
LEMMA QuietSteps ==
  ASSUME CandidateInv, NEW p \in Shells
  PROVE  /\ \A c \in Candidates, i \in Commits : Create(p, c, i) => CandidateInv'
         /\ \A r \in receipts : Freeze(p, r) => CandidateInv'
         /\ \A r \in receipts, force \in BOOLEAN : RemoveCandidate(p, r, force) => CandidateInv'
         /\ Reserve(p) \/ AddWorktree(p) \/ CheckWorktree(p) \/ WriteReceipt(p) => CandidateInv'
         /\ ReadHead(p) \/ RemoveWorktree(p) \/ HashDiff(p) => CandidateInv'
  <1> USE DEF CandidateInv
  <1>1. /\ tree \in [Candidates -> {Absent} \cup [head : Commits, dirty : BOOLEAN]]
        /\ receipts \subseteq [cand : Candidates, input : Commits]
        /\ lease \in [Revisions -> {Absent} \cup Leases]
        /\ clock \in [now : Nat, started : Nat, killed : Nat]
        /\ desk \in [Candidates -> Bundles]
        /\ JobsSound
    BY DEF CandidateTypeOK
  <1>2. ASSUME NEW c \in Candidates, NEW i \in Commits, Create(p, c, i) PROVE CandidateInv'
    <2> DEFINE j == [at |-> "reserve", cand |-> c, input |-> i]
    <2>1. JobSound(ref, j)
      BY DEF JobSound, Jobs, CreateJob
    <2>2. Start(p, j) /\ UNCHANGED <<ref, tree, reserved, receipts, frozen, desk, objects, lease>>
      BY <1>2 DEF Create
    <2> HIDE DEF j
    <2>3. JobsSound' /\ clock' \in [now : Nat, started : Nat, killed : Nat]
      BY <1>1, <2>1, <2>2, StartSound
    <2> QED BY <1>1, <2>2, <2>3, Quiet
  <1>3. ASSUME NEW r \in receipts, Freeze(p, r) PROVE CandidateInv'
    <2> DEFINE j == [at |-> "head", cand |-> r.cand, input |-> r.input]
    <2>1. JobSound(ref, j)
      BY <1>1 DEF JobSound, Jobs, CreateJob
    <2>2. Start(p, j) /\ UNCHANGED <<ref, tree, reserved, receipts, frozen, desk, objects, lease>>
      BY <1>3 DEF Freeze
    <2> HIDE DEF j
    <2>3. JobsSound' /\ clock' \in [now : Nat, started : Nat, killed : Nat]
      BY <1>1, <2>1, <2>2, StartSound
    <2> QED BY <1>1, <2>2, <2>3, Quiet
  <1>4. ASSUME NEW r \in receipts, NEW force \in BOOLEAN, RemoveCandidate(p, r, force) PROVE CandidateInv'
    <2> DEFINE j == [at |-> "remove", cand |-> r.cand, force |-> force]
    <2>1. JobSound(ref, j)
      BY <1>1 DEF JobSound, Jobs, RemoveJob
    <2>2. Start(p, j) /\ UNCHANGED <<ref, tree, reserved, receipts, frozen, desk, objects, lease>>
      BY <1>4 DEF RemoveCandidate
    <2> HIDE DEF j
    <2>3. JobsSound' /\ clock' \in [now : Nat, started : Nat, killed : Nat]
      BY <1>1, <2>1, <2>2, StartSound
    <2> QED BY <1>1, <2>2, <2>3, Quiet
  <1>5. ASSUME UNCHANGED ref PROVE RefGrows
    BY <1>5 DEF RefGrows
  <1>6. ASSUME UNCHANGED ref, End(p) PROVE JobsSound'
    BY <1>1, <1>5, <1>6, EndSound
  <1>7. ASSUME UNCHANGED ref, shell[p] \in CreateJob, NEW at \in {"add", "check", "receipt"}, Goto(p, at)
        PROVE  JobsSound'
    <2> DEFINE j == [shell[p] EXCEPT !.at = at]
    <2>1. JobSound(ref', j)
      BY <1>7 DEF JobSound, Jobs, CreateJob
    <2>2. shell' = [shell EXCEPT ![p] = j]
      BY <1>7 DEF Goto
    <2> HIDE DEF j
    <2> QED BY <1>1, <1>5, <1>7, <2>1, <2>2, JobsGoOn
  <1>8. CASE Reserve(p)
    <2>1. UNCHANGED <<ref, tree, receipts, frozen, desk, objects, lease, clock>> /\ shell[p].at = "reserve" /\ (End(p) \/ Goto(p, "add"))
      BY <1>8 DEF Reserve, At
    <2>2. JobsSound'
      BY <1>1, <1>6, <1>7, <2>1, JobAt
    <2> QED BY <1>1, <2>1, <2>2, Quiet
  <1>9. CASE AddWorktree(p)
    <2>1. /\ UNCHANGED <<ref, receipts, frozen, desk, objects, lease, clock>> /\ shell[p].at = "add"
          /\ \/ End(p) /\ UNCHANGED tree
             \/ Goto(p, "check") /\ tree' = [tree EXCEPT ![shell[p].cand] = [head |-> shell[p].input, dirty |-> FALSE]]
      BY <1>9 DEF AddWorktree, At
    <2>2. shell[p] \in CreateJob
      BY <1>1, <2>1, JobAt
    <2>3. JobsSound'
      BY <1>1, <1>6, <1>7, <2>1, <2>2
    <2> DEFINE new == [head |-> shell[p].input, dirty |-> FALSE]
    <2>4. new \in [head : Commits, dirty : BOOLEAN] /\ shell[p].cand \in Candidates
      BY <2>2 DEF CreateJob
    <2>5. tree' = tree \/ tree' = [tree EXCEPT ![shell[p].cand] = new]
      BY <2>1
    <2> HIDE DEF new
    <2>6. tree' \in [Candidates -> {Absent} \cup [head : Commits, dirty : BOOLEAN]]
      BY <1>1, <2>4, <2>5
    <2> QED BY <1>1, <2>1, <2>3, <2>6, Quiet
  <1>10. CASE CheckWorktree(p)
    <2>1. /\ UNCHANGED <<ref, receipts, frozen, desk, objects, lease, clock>> /\ shell[p].at = "check"
          /\ \/ Goto(p, "receipt") /\ UNCHANGED tree
             \/ End(p) /\ tree' = [tree EXCEPT ![shell[p].cand] = Absent]
      BY <1>10 DEF CheckWorktree, At
    <2>2. shell[p] \in CreateJob
      BY <1>1, <2>1, JobAt
    <2>3. JobsSound'
      BY <1>1, <1>6, <1>7, <2>1, <2>2
    <2>4. tree' \in [Candidates -> {Absent} \cup [head : Commits, dirty : BOOLEAN]]
      BY <1>1, <2>1, <2>2 DEF CreateJob
    <2> QED BY <1>1, <2>1, <2>3, <2>4, Quiet
  <1>11. CASE WriteReceipt(p)
    <2>1. /\ UNCHANGED <<ref, tree, frozen, desk, objects, lease, clock>> /\ shell[p].at = "receipt" /\ End(p)
          /\ receipts' = receipts \cup {[cand |-> shell[p].cand, input |-> shell[p].input]}
      BY <1>11 DEF WriteReceipt, At
    <2>2. shell[p] \in CreateJob
      BY <1>1, <2>1, JobAt
    <2>3. receipts' \subseteq [cand : Candidates, input : Commits]
      BY <1>1, <2>1, <2>2 DEF CreateJob
    <2> QED BY <1>1, <1>6, <2>1, <2>3, Quiet
  <1>12. CASE ReadHead(p)
    <2> DEFINE c == shell[p].cand
               j == [at |-> "ref", cand |-> c, input |-> shell[p].input, output |-> tree[c].head]
    <2>1. /\ UNCHANGED <<ref, tree, receipts, frozen, desk, objects, lease, clock>> /\ shell[p].at = "head"
          /\ \/ End(p)
             \/ /\ tree[c] # Absent /\ tree[c].head # shell[p].input /\ IsAncestor(shell[p].input, tree[c].head)
                /\ shell' = [shell EXCEPT ![p] = j]
      BY <1>12 DEF ReadHead, At
    <2>2. c \in Candidates /\ shell[p].input \in Commits
      BY <1>1, <2>1, JobAt DEF CreateJob
    <2>3. CASE End(p)
      BY <1>1, <1>6, <2>1, <2>3, Quiet
    <2>4. CASE /\ tree[c] # Absent /\ tree[c].head # shell[p].input /\ IsAncestor(shell[p].input, tree[c].head)
               /\ shell' = [shell EXCEPT ![p] = j]
      <3>1. tree[c].head \in Commits
        BY <1>1, <2>2, <2>4
      <3>2. JobSound(ref', j)
        BY <2>2, <2>4, <3>1 DEF JobSound, Jobs, FreezeJob
      <3>3. shell' = [shell EXCEPT ![p] = j]
        BY <2>4
      <3> HIDE DEF j
      <3>4. JobsSound'
        BY <1>1, <1>5, <2>1, <3>2, <3>3, JobsGoOn
      <3> QED BY <1>1, <2>1, <3>4, Quiet
    <2> QED BY <2>1, <2>3, <2>4
  <1>13. CASE RemoveWorktree(p)
    <2>1. /\ UNCHANGED <<ref, receipts, frozen, desk, objects, lease, clock>> /\ shell[p].at = "remove" /\ End(p)
          /\ tree' = [tree EXCEPT ![shell[p].cand] = IF @ # Absent /\ @.dirty /\ ~shell[p].force THEN @ ELSE Absent]
      BY <1>13 DEF RemoveWorktree, At
    <2>2. shell[p] \in RemoveJob
      BY <1>1, <2>1, JobAt
    <2>3. tree' \in [Candidates -> {Absent} \cup [head : Commits, dirty : BOOLEAN]]
      BY <1>1, <2>1, <2>2 DEF RemoveJob
    <2> QED BY <1>1, <1>6, <2>1, <2>3, Quiet
  <1>14. CASE HashDiff(p)
    <2> DEFINE j == [at |-> "manifest", rv |-> shell[p].rv, diff |-> desk[shell[p].rv.cand].diff]
    <2>1. /\ UNCHANGED <<ref, tree, receipts, frozen, desk, objects, lease, clock>> /\ shell[p].at = "hash"
          /\ shell' = [shell EXCEPT ![p] = j]
      BY <1>14 DEF HashDiff, At
    <2>2. shell[p].rv \in Revisions /\ IsFrozen(ref, shell[p].rv)
      BY <1>1, <2>1, JobAt
    <2>3. desk[shell[p].rv.cand].diff \in Diffs
      BY <1>1, <2>2 DEF Revisions, Bundles
    <2>4. JobSound(ref', j)
      BY <2>1, <2>2, <2>3 DEF JobSound, Jobs, BuildJob
    <2> HIDE DEF j
    <2>5. JobsSound'
      BY <1>1, <1>5, <2>1, <2>4, JobsGoOn
    <2> QED BY <1>1, <2>1, <2>5, Quiet
  <1> QED BY <1>2, <1>3, <1>4, <1>8, <1>9, <1>10, <1>11, <1>12, <1>13, <1>14

\* The steps of a freeze: the ref is written once, and the receipt names what it holds.
LEMMA FreezeSteps ==
  ASSUME CandidateInv, NEW p \in Shells, ReadRef(p) \/ UpdateRef(p) \/ WriteFrozen(p)
  PROVE  CandidateInv'
  <1> USE DEF CandidateInv
  <1>1. /\ CandidateTypeOK /\ JobsSound /\ FilesSound
        /\ ref \in [Candidates -> Commits \cup {Absent}]
    BY DEF CandidateTypeOK
  <1>2. /\ shell[p].at \in {"ref", "update", "frozen"}
        /\ UNCHANGED <<tree, reserved, receipts, desk, objects, lease, clock>>
    BY DEF ReadRef, UpdateRef, WriteFrozen, At
  <1>3. /\ shell[p] \in FreezeJob /\ shell[p].input # shell[p].output
        /\ IsAncestor(shell[p].input, shell[p].output)
    BY <1>1, <1>2, JobAt
  <1>4. shell[p].cand \in Candidates /\ shell[p].output \in Commits /\ shell[p].input \in Commits
    BY <1>3 DEF FreezeJob
  <1>5. ASSUME NEW at \in {"update", "frozen"}, Goto(p, at), at = "frozen" => ref'[shell[p].cand] = shell[p].output, RefGrows
        PROVE  JobsSound'
    <2> DEFINE j == [shell[p] EXCEPT !.at = at]
    <2>1. JobSound(ref', j)
      BY <1>3, <1>5 DEF JobSound, Jobs, FreezeJob
    <2>2. shell' = [shell EXCEPT ![p] = j]
      BY <1>5 DEF Goto
    <2> HIDE DEF j
    <2> QED BY <1>1, <1>5, <2>1, <2>2, JobsGoOn
  <1>6. CASE ReadRef(p)
    <2>1. /\ UNCHANGED <<ref, frozen>>
          /\ \/ Goto(p, "update")
             \/ Goto(p, "frozen") /\ ref[shell[p].cand] = shell[p].output
             \/ End(p)
      BY <1>6 DEF ReadRef
    <2>2. RefGrows
      BY <2>1 DEF RefGrows
    <2>3. JobsSound'
      BY <1>1, <1>5, <2>1, <2>2, EndSound
    <2> QED BY <1>1, <1>2, <2>1, <2>2, <2>3, FilesStay DEF CandidateTypeOK
  <1>7. CASE UpdateRef(p)
    <2> DEFINE c == shell[p].cand
    <2>1. /\ UNCHANGED frozen
          /\ ref' = [ref EXCEPT ![c] = IF @ = Absent THEN shell[p].output ELSE @]
          /\ \/ Goto(p, "frozen") /\ ref[c] \in {Absent, shell[p].output}
             \/ End(p)
      BY <1>7 DEF UpdateRef
    <2>2. RefGrows /\ ref' \in [Candidates -> Commits \cup {Absent}]
      BY <1>1, <1>4, <2>1 DEF RefGrows
    <2>3. ref[c] \in {Absent, shell[p].output} => ref'[c] = shell[p].output
      BY <1>1, <1>4, <2>1
    <2>4. JobsSound'
      BY <1>1, <1>5, <2>1, <2>2, <2>3, EndSound
    <2> QED BY <1>1, <1>2, <2>1, <2>2, <2>4, FilesStay DEF CandidateTypeOK
  <1>8. CASE WriteFrozen(p)
    <2> DEFINE rv == [cand |-> shell[p].cand, input |-> shell[p].input, output |-> shell[p].output]
    <2>1. UNCHANGED ref /\ End(p) /\ shell[p].at = "frozen" /\ frozen' = frozen \cup {rv}
      BY <1>8 DEF WriteFrozen, At
    <2>2. ref[shell[p].cand] = shell[p].output
      BY <1>1, <2>1, JobAt
    <2>3. IsFrozen(ref, rv)
      BY <1>3, <1>4, <2>2 DEF IsFrozen, Revisions
    <2>4. RefGrows
      BY <2>1 DEF RefGrows
    <2>5. JobsSound'
      BY <1>1, <2>1, <2>4, EndSound
    <2> HIDE DEF rv
    <2>6. FilesSound'
      BY <1>1, <1>2, <2>1, <2>3 DEF FilesSound
    <2> QED BY <1>1, <1>2, <2>1, <2>5, <2>6 DEF CandidateTypeOK
  <1> QED BY <1>6, <1>7, <1>8

\* The evidence that is written bears a manifest of the frozen revision the command read.
LEMMA EvidenceSteps ==
  ASSUME CandidateInv, NEW p \in Shells,
         \/ \E rv \in frozen : Build(p, rv)
         \/ WriteDiff(p) \/ WriteManifest(p)
  PROVE  CandidateInv'
  <1> USE DEF CandidateInv
  <1>1. /\ CandidateTypeOK /\ JobsSound /\ FilesSound
        /\ desk \in [Candidates -> Bundles]
        /\ clock \in [now : Nat, started : Nat, killed : Nat]
    BY DEF CandidateTypeOK
  <1>2. UNCHANGED <<ref, tree, reserved, receipts, frozen, objects, lease>>
    BY DEF Build, WriteDiff, WriteManifest
  <1>3. RefGrows
    BY <1>2 DEF RefGrows
  <1>4. ASSUME NEW rv \in frozen, Build(p, rv) PROVE CandidateInv'
    <2> DEFINE j == [at |-> "diff", rv |-> rv]
    <2>1. IsFrozen(ref, rv) /\ rv \in Revisions
      BY <1>1 DEF FilesSound, IsFrozen
    <2>2. JobSound(ref, j)
      BY <2>1 DEF JobSound, Jobs, BuildJob
    <2>3. Start(p, j) /\ UNCHANGED desk
      BY <1>4 DEF Build
    <2> HIDE DEF j
    <2>4. JobsSound' /\ clock' \in [now : Nat, started : Nat, killed : Nat]
      BY <1>1, <1>2, <2>2, <2>3, StartSound
    <2> QED BY <1>1, <1>2, <1>3, <2>3, <2>4, FilesStay DEF CandidateTypeOK
  <1>5. ASSUME NEW c \in Candidates, NEW b \in Bundles, desk' = [desk EXCEPT ![c] = b], BundleSound(ref, b)
        PROVE  FilesSound' /\ desk' \in [Candidates -> Bundles]
    BY <1>1, <1>2, <1>5 DEF FilesSound
  <1>6. CASE WriteDiff(p)
    <2> DEFINE rv == shell[p].rv
               b == [desk[rv.cand] EXCEPT !.diff = DiffOf(rv)]
               j == [shell[p] EXCEPT !.at = "hash"]
    <2>1. shell[p].at = "diff" /\ shell' = [shell EXCEPT ![p] = j] /\ desk' = [desk EXCEPT ![rv.cand] = b] /\ UNCHANGED clock
      BY <1>6 DEF WriteDiff, At, Goto
    <2>2. shell[p] \in [at : {"diff", "hash"}, rv : Revisions] /\ IsFrozen(ref, rv)
      BY <1>1, <2>1, JobAt
    <2>3. JobSound(ref', j)
      BY <1>2, <2>2 DEF JobSound, Jobs, BuildJob
    <2>4. rv.cand \in Candidates /\ DiffOf(rv) \in Diffs /\ desk[rv.cand] \in Bundles
      BY <1>1, <2>2 DEF Revisions, DiffOf, Diffs
    <2>5. b \in Bundles /\ b.manifest = desk[rv.cand].manifest
      BY <2>4 DEF Bundles
    <2>6. BundleSound(ref, b)
      <3>1. BundleSound(ref, desk[rv.cand])
        BY <1>1, <2>4 DEF FilesSound
      <3> QED BY <2>5, <3>1 DEF BundleSound
    <2> HIDE DEF b, j
    <2>7. JobsSound'
      BY <1>1, <1>3, <2>1, <2>3, JobsGoOn
    <2>8. FilesSound' /\ desk' \in [Candidates -> Bundles]
      BY <1>5, <2>1, <2>4, <2>5, <2>6
    <2> QED BY <1>1, <1>2, <2>1, <2>7, <2>8 DEF CandidateTypeOK
  <1>7. CASE WriteManifest(p)
    <2> DEFINE rv == shell[p].rv
               m == [rv |-> rv, diff |-> shell[p].diff]
               b == [desk[rv.cand] EXCEPT !.manifest = m]
    <2>1. shell[p].at = "manifest" /\ End(p) /\ desk' = [desk EXCEPT ![rv.cand] = b] /\ UNCHANGED clock
      BY <1>7 DEF WriteManifest, At
    <2>2. shell[p] \in [at : {"manifest"}, rv : Revisions, diff : Diffs] /\ IsFrozen(ref, rv)
      BY <1>1, <2>1, JobAt
    <2>3. rv.cand \in Candidates /\ m \in [rv : Revisions, diff : Diffs] /\ m.rv = rv /\ desk[rv.cand] \in Bundles
      BY <1>1, <2>2 DEF Revisions
    <2> HIDE DEF m
    <2>4. b \in Bundles /\ b.manifest = m
      BY <2>3 DEF Bundles
    <2>5. BundleSound(ref, b)
      BY <2>2, <2>3, <2>4 DEF BundleSound
    <2> HIDE DEF b
    <2>6. JobsSound'
      BY <1>1, <1>3, <2>1, EndSound
    <2>7. FilesSound' /\ desk' \in [Candidates -> Bundles]
      BY <1>5, <2>1, <2>3, <2>4, <2>5
    <2> QED BY <1>1, <1>2, <2>1, <2>6, <2>7 DEF CandidateTypeOK
  <1> QED BY <1>4, <1>6, <1>7

\* The retention store keeps bundles of frozen revisions only.
LEMMA StoreSteps ==
  ASSUME CandidateInv, NEW p \in Shells,
         \/ \E c \in Candidates : Retain(p, c)
         \/ StoreObject(p) \/ TearObject(p) \/ RemoveObject(p)
  PROVE  CandidateInv'
  <1> USE DEF CandidateInv
  <1>1. /\ CandidateTypeOK /\ JobsSound /\ FilesSound
        /\ desk \in [Candidates -> Bundles] /\ objects \in [Revisions -> {Absent} \cup Bundles]
        /\ clock \in [now : Nat, started : Nat, killed : Nat]
    BY DEF CandidateTypeOK
  <1>2. UNCHANGED <<ref, tree, reserved, receipts, frozen, desk, lease>>
    BY DEF Retain, StoreObject, TearObject, RemoveObject
  <1>3. RefGrows
    BY <1>2 DEF RefGrows
  <1>4. ASSUME NEW c \in Candidates, Retain(p, c) PROVE CandidateInv'
    <2> DEFINE j == [at |-> "store", from |-> c, digest |-> Digest(desk[c]), now |-> clock.now]
    <2>1. desk[c].manifest # Absent /\ Start(p, j) /\ UNCHANGED objects
      BY <1>4 DEF Retain, Verifies, Loads
    <2>2. Digest(desk[c]) \in Revisions /\ clock.now \in Nat
      BY <1>1, <2>1 DEF Bundles, Digest
    <2>3. JobSound(ref, j)
      BY <2>2 DEF JobSound, Jobs, RetainJob
    <2> HIDE DEF j
    <2>4. JobsSound' /\ clock' \in [now : Nat, started : Nat, killed : Nat]
      BY <1>1, <1>2, <2>1, <2>3, StartSound
    <2> QED BY <1>1, <1>2, <1>3, <2>1, <2>4, FilesStay DEF CandidateTypeOK
  <1>5. ASSUME NEW d \in Revisions, NEW b, objects' = [objects EXCEPT ![d] = b], b = Absent \/ (b \in Bundles /\ BundleSound(ref, b))
        PROVE  FilesSound' /\ objects' \in [Revisions -> {Absent} \cup Bundles]
    BY <1>1, <1>2, <1>5 DEF FilesSound
  <1>6. ASSUME UNCHANGED objects PROVE FilesSound' /\ objects' \in [Revisions -> {Absent} \cup Bundles]
    BY <1>1, <1>2, <1>3, <1>6, FilesStay
  <1>7. CASE StoreObject(p)
    <2>1. /\ shell[p].at = "store" /\ UNCHANGED clock
          /\ \/ End(p) /\ UNCHANGED objects
             \/ Goto(p, "readlease") /\ UNCHANGED objects
             \/ Goto(p, "readlease") /\ objects' = [objects EXCEPT ![shell[p].digest] = desk[shell[p].from]]
      BY <1>7 DEF StoreObject, At
    <2>2. shell[p] \in RetainJob
      BY <1>1, <2>1, JobAt
    <2>3. ASSUME Goto(p, "readlease") PROVE JobsSound'
      <3> DEFINE j == [shell[p] EXCEPT !.at = "readlease"]
      <3>1. JobSound(ref', j)
        BY <2>2 DEF JobSound, Jobs, RetainJob
      <3>2. shell' = [shell EXCEPT ![p] = j]
        BY <2>3 DEF Goto
      <3> HIDE DEF j
      <3> QED BY <1>1, <1>3, <3>1, <3>2, JobsGoOn
    <2>4. JobsSound'
      BY <1>1, <1>3, <2>1, <2>3, EndSound
    <2>5. shell[p].digest \in Revisions /\ desk[shell[p].from] \in Bundles /\ BundleSound(ref, desk[shell[p].from])
      BY <1>1, <2>2 DEF RetainJob, FilesSound
    <2>6. FilesSound' /\ objects' \in [Revisions -> {Absent} \cup Bundles]
      BY <1>5, <1>6, <2>1, <2>5
    <2> QED BY <1>1, <1>2, <2>1, <2>4, <2>6 DEF CandidateTypeOK
  <1>8. ASSUME shell[p] \in SweepJob, NEW at \in {"rmdir", "unlink"}, Goto(p, at) PROVE JobsSound'
    <2> DEFINE j == [shell[p] EXCEPT !.at = at]
    <2>1. JobSound(ref', j)
      BY <1>8 DEF JobSound, Jobs, SweepJob
    <2>2. shell' = [shell EXCEPT ![p] = j]
      BY <1>8 DEF Goto
    <2> HIDE DEF j
    <2> QED BY <1>1, <1>3, <2>1, <2>2, JobsGoOn
  <1>9. CASE TearObject(p)
    <2> DEFINE d == shell[p].digest
               b == [objects[d] EXCEPT !.diff = Absent]
    <2>1. /\ shell[p].at = "tear" /\ UNCHANGED clock
          /\ \/ End(p) /\ UNCHANGED objects
             \/ Goto(p, "rmdir") /\ objects[d] # Absent /\ objects' = [objects EXCEPT ![d] = b]
      BY <1>9 DEF TearObject, At
    <2>2. shell[p] \in SweepJob
      BY <1>1, <2>1, JobAt
    <2>3. JobsSound'
      BY <1>1, <1>3, <1>8, <2>1, <2>2, EndSound
    <2>4. d \in Revisions
      BY <2>2 DEF SweepJob
    <2>5. ASSUME objects[d] # Absent PROVE b \in Bundles /\ BundleSound(ref, b)
      <3>1. objects[d] \in Bundles /\ BundleSound(ref, objects[d])
        BY <1>1, <2>4, <2>5 DEF FilesSound
      <3>2. b \in Bundles /\ b.manifest = objects[d].manifest
        BY <3>1 DEF Bundles, Diffs
      <3> QED BY <3>1, <3>2 DEF BundleSound
    <2> HIDE DEF b, d
    <2>6. FilesSound' /\ objects' \in [Revisions -> {Absent} \cup Bundles]
      BY <1>5, <1>6, <2>1, <2>4, <2>5
    <2> QED BY <1>1, <1>2, <2>1, <2>3, <2>6 DEF CandidateTypeOK
  <1>10. CASE RemoveObject(p)
    <2>1. /\ shell[p].at = "rmdir" /\ UNCHANGED clock
          /\ End(p) \/ Goto(p, "unlink")
          /\ objects' = [objects EXCEPT ![shell[p].digest] = Absent]
      BY <1>10 DEF RemoveObject, At
    <2>2. shell[p] \in SweepJob
      BY <1>1, <2>1, JobAt
    <2>3. JobsSound'
      BY <1>1, <1>3, <1>8, <2>1, <2>2, EndSound
    <2>4. shell[p].digest \in Revisions
      BY <2>2 DEF SweepJob
    <2>5. FilesSound' /\ objects' \in [Revisions -> {Absent} \cup Bundles]
      BY <1>5, <2>1, <2>4
    <2> QED BY <1>1, <1>2, <2>1, <2>3, <2>5 DEF CandidateTypeOK
  <1> QED BY <1>4, <1>7, <1>9, <1>10

\* Leases, kills, the agent and the clock leave refs and evidence alone.
LEMMA LeaseSteps ==
  ASSUME CandidateInv
  PROVE  /\ \A p \in Shells :
              /\ ReadLease(p) \/ WriteLease(p) \/ UnlinkLease(p) \/ KillShell(p) => CandidateInv'
              /\ \A d \in Revisions : Sweep(p, d) => CandidateInv'
              /\ \A d \in Revisions, pinned \in BOOLEAN : Pin(p, d, pinned) => CandidateInv'
         /\ \A c \in Candidates, h \in Commits, dirty \in BOOLEAN : AgentWorks(c, h, dirty) => CandidateInv'
         /\ Later => CandidateInv'
         /\ UNCHANGED candidateVars => CandidateInv'
  <1> USE DEF CandidateInv
  <1>1. /\ tree \in [Candidates -> {Absent} \cup [head : Commits, dirty : BOOLEAN]]
        /\ receipts \subseteq [cand : Candidates, input : Commits]
        /\ lease \in [Revisions -> {Absent} \cup Leases]
        /\ clock \in [now : Nat, started : Nat, killed : Nat]
        /\ JobsSound
    BY DEF CandidateTypeOK
  <1>2. ASSUME NEW p \in Shells, UNCHANGED ref, End(p) PROVE JobsSound'
    <2>1. RefGrows
      BY <1>2 DEF RefGrows
    <2> QED BY <1>1, <1>2, <2>1, EndSound
  <1>3. ASSUME NEW p \in Shells, ReadLease(p) PROVE CandidateInv'
    <2> DEFINE l == Renewed(lease[shell[p].digest], shell[p].now + 1)
               j == [at |-> "writelease", digest |-> shell[p].digest, lease |-> l]
    <2>1. /\ shell[p].at = "readlease" /\ shell' = [shell EXCEPT ![p] = j]
          /\ UNCHANGED <<ref, tree, reserved, receipts, frozen, desk, objects, lease, clock>>
      BY <1>3 DEF ReadLease, At
    <2>2. shell[p].digest \in Revisions /\ shell[p].now + 1 \in Nat
      BY <1>1, <2>1, JobAt DEF RetainJob
    <2>3. l \in Leases
      BY <1>1, <2>2 DEF Renewed, Leases
    <2> HIDE DEF l
    <2>4. JobSound(ref', j)
      BY <2>2, <2>3 DEF JobSound, Jobs, LeaseJob
    <2>5. RefGrows
      BY <2>1 DEF RefGrows
    <2> HIDE DEF j
    <2>6. JobsSound'
      BY <1>1, <2>1, <2>4, <2>5, JobsGoOn
    <2> QED BY <1>1, <2>1, <2>6, Quiet
  <1>4. ASSUME NEW p \in Shells, WriteLease(p) PROVE CandidateInv'
    <2>1. /\ shell[p].at = "writelease" /\ End(p) /\ lease' = [lease EXCEPT ![shell[p].digest] = shell[p].lease]
          /\ UNCHANGED <<ref, tree, reserved, receipts, frozen, desk, objects, clock>>
      BY <1>4 DEF WriteLease, At
    <2>2. shell[p].lease \in Leases
      BY <1>1, <2>1, JobAt DEF LeaseJob
    <2>3. lease' \in [Revisions -> {Absent} \cup Leases]
      BY <1>1, <2>1, <2>2
    <2> QED BY <1>1, <1>2, <2>1, <2>3, Quiet
  <1>5. ASSUME NEW p \in Shells, UnlinkLease(p) PROVE CandidateInv'
    <2>1. /\ End(p) /\ lease' = [lease EXCEPT ![shell[p].digest] = Absent]
          /\ UNCHANGED <<ref, tree, reserved, receipts, frozen, desk, objects, clock>>
      BY <1>5 DEF UnlinkLease, At
    <2>2. lease' \in [Revisions -> {Absent} \cup Leases]
      BY <1>1, <2>1
    <2> QED BY <1>1, <1>2, <2>1, <2>2, Quiet
  <1>6. ASSUME NEW p \in Shells, KillShell(p) PROVE CandidateInv'
    <2>1. /\ End(p) /\ clock' = [clock EXCEPT !.killed = @ + 1]
          /\ UNCHANGED <<ref, tree, reserved, receipts, frozen, desk, objects, lease>>
      BY <1>6 DEF KillShell
    <2>2. clock' \in [now : Nat, started : Nat, killed : Nat]
      BY <1>1, <2>1
    <2> QED BY <1>1, <1>2, <2>1, <2>2, Quiet
  <1>7. ASSUME NEW p \in Shells, NEW d \in Revisions, Sweep(p, d) PROVE CandidateInv'
    <2> DEFINE j == [at |-> "tear", digest |-> d]
    <2>1. JobSound(ref, j)
      BY DEF JobSound, Jobs, SweepJob
    <2>2. Start(p, j) /\ UNCHANGED <<ref, tree, reserved, receipts, frozen, desk, objects, lease>>
      BY <1>7 DEF Sweep
    <2> HIDE DEF j
    <2>3. JobsSound' /\ clock' \in [now : Nat, started : Nat, killed : Nat]
      BY <1>1, <2>1, <2>2, StartSound
    <2> QED BY <1>1, <2>2, <2>3, Quiet
  <1>8. ASSUME NEW p \in Shells, NEW d \in Revisions, NEW pinned \in BOOLEAN, Pin(p, d, pinned) PROVE CandidateInv'
    <2> DEFINE l == [lease[d] EXCEPT !.pinned = pinned]
               j == [at |-> "writelease", digest |-> d, lease |-> l]
    <2>1. Start(p, j) /\ lease[d] # Absent /\ UNCHANGED <<ref, tree, reserved, receipts, frozen, desk, objects, lease>>
      BY <1>8 DEF Pin, Leased
    <2>2. l \in Leases
      BY <1>1, <2>1 DEF Leases
    <2> HIDE DEF l
    <2>3. JobSound(ref, j)
      BY <2>2 DEF JobSound, Jobs, LeaseJob
    <2> HIDE DEF j
    <2>4. JobsSound' /\ clock' \in [now : Nat, started : Nat, killed : Nat]
      BY <1>1, <2>1, <2>3, StartSound
    <2> QED BY <1>1, <2>1, <2>4, Quiet
  <1>9. ASSUME NEW c \in Candidates, NEW h \in Commits, NEW dirty \in BOOLEAN, AgentWorks(c, h, dirty) PROVE CandidateInv'
    <2> DEFINE new == [head |-> h, dirty |-> dirty]
    <2>1. /\ tree' = [tree EXCEPT ![c] = new]
          /\ UNCHANGED <<ref, reserved, receipts, frozen, desk, objects, lease, shell, clock>>
      BY <1>9 DEF AgentWorks
    <2>2. new \in [head : Commits, dirty : BOOLEAN]
      OBVIOUS
    <2> HIDE DEF new
    <2>3. tree' \in [Candidates -> {Absent} \cup [head : Commits, dirty : BOOLEAN]]
      BY <1>1, <2>1, <2>2
    <2>4. JobsSound'
      BY <1>1, <2>1 DEF JobsSound
    <2> QED BY <1>1, <2>1, <2>3, <2>4, Quiet
  <1>10. ASSUME Later PROVE CandidateInv'
    <2>1. /\ clock' = [clock EXCEPT !.now = @ + 1]
          /\ UNCHANGED <<ref, tree, reserved, receipts, frozen, desk, objects, lease, shell>>
      BY <1>10 DEF Later
    <2>2. clock' \in [now : Nat, started : Nat, killed : Nat]
      BY <1>1, <2>1
    <2>3. JobsSound'
      BY <1>1, <2>1 DEF JobsSound
    <2> QED BY <1>1, <2>1, <2>2, <2>3, Quiet
  <1>11. ASSUME UNCHANGED candidateVars PROVE CandidateInv'
    <2>1. UNCHANGED <<ref, tree, reserved, receipts, frozen, desk, objects, lease, shell, clock>>
      BY <1>11 DEF candidateVars
    <2>2. JobsSound'
      BY <1>1, <2>1 DEF JobsSound
    <2> QED BY <1>1, <2>1, <2>2, Quiet
  <1> QED BY <1>3, <1>4, <1>5, <1>6, <1>7, <1>8, <1>9, <1>10, <1>11

\* Every step of every command, of the agents and of the clock preserves the invariant.
LEMMA CandidateStep == CandidateInv /\ [CandidateNext]_candidateVars => CandidateInv'
  <1> SUFFICES ASSUME CandidateInv, [CandidateNext]_candidateVars PROVE CandidateInv'
    OBVIOUS
  <1>1. ASSUME NEW p \in Shells,
               \/ \E c \in Candidates, i \in Commits : Create(p, c, i)
               \/ \E r \in receipts : Freeze(p, r) \/ \E force \in BOOLEAN : RemoveCandidate(p, r, force)
               \/ Reserve(p) \/ AddWorktree(p) \/ CheckWorktree(p) \/ WriteReceipt(p)
               \/ ReadHead(p) \/ RemoveWorktree(p) \/ HashDiff(p)
        PROVE  CandidateInv'
    BY <1>1, QuietSteps
  <1>2. ASSUME NEW p \in Shells, ReadRef(p) \/ UpdateRef(p) \/ WriteFrozen(p) PROVE CandidateInv'
    BY <1>2, FreezeSteps
  <1>3. ASSUME NEW p \in Shells, (\E rv \in frozen : Build(p, rv)) \/ WriteDiff(p) \/ WriteManifest(p) PROVE CandidateInv'
    BY <1>3, EvidenceSteps
  <1>4. ASSUME NEW p \in Shells, (\E c \in Candidates : Retain(p, c)) \/ StoreObject(p) \/ TearObject(p) \/ RemoveObject(p)
        PROVE  CandidateInv'
    BY <1>4, StoreSteps
  <1>5. ASSUME NEW p \in Shells,
               \/ \E d \in Revisions : Sweep(p, d) \/ \E pinned \in BOOLEAN : Pin(p, d, pinned)
               \/ ReadLease(p) \/ WriteLease(p) \/ UnlinkLease(p) \/ KillShell(p)
        PROVE  CandidateInv'
    BY <1>5, LeaseSteps
  <1>6. CASE \/ \E c \in Candidates, h \in Commits, dirty \in BOOLEAN : AgentWorks(c, h, dirty)
             \/ Later \/ UNCHANGED candidateVars
    BY <1>6, LeaseSteps
  <1> QED BY <1>1, <1>2, <1>3, <1>4, <1>5, <1>6 DEF CandidateNext

\* Whatever commands race or die and wherever an agent moves HEAD, receipts of a freeze, manifests and kept
\* bundles name the one commit the candidate's ref holds, an advance on the recorded input.
THEOREM CandidatesBound == CandidateSpec => []EvidenceNamesFrozen
  <1>1. CandidateInv => EvidenceNamesFrozen
    <2> SUFFICES ASSUME CandidateInv, NEW rv \in frozen \cup Vouched PROVE IsFrozen(ref, rv)
      BY DEF EvidenceNamesFrozen, IsFrozen, RefNames
    <2>1. CASE rv \in frozen
      BY <2>1 DEF CandidateInv, FilesSound
    <2>2. CASE rv \in Vouched
      <3>1. PICK b \in {desk[c] : c \in Candidates} \cup {objects[d] : d \in Revisions} :
              rv = b.manifest.rv /\ b # Absent /\ b.manifest # Absent
        BY <2>2 DEF Vouched, Loads, Digest
      <3>2. BundleSound(ref, b)
        BY <3>1 DEF CandidateInv, FilesSound
      <3> QED BY <3>1, <3>2 DEF BundleSound
    <2> QED BY <2>1, <2>2
  <1> QED
    BY <1>1, CandidateStart, CandidateStep, PTL DEF CandidateSpec

==============================================================================
