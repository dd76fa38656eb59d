---------------------------- MODULE ReportProofs ----------------------------
(***************************************************************************)
(* Theorems about module Report, for every set of measurements, every      *)
(* README and any number of result files.                                  *)
(***************************************************************************)
EXTENDS Report, SequenceTheorems, FiniteSetTheorems, WellFoundedInduction, TLAPS

----------------------------------------------------------------------------
(* Naturals.                                                               *)

\* A nonempty set of naturals has a least element.
LEMMA LeastNat ==
    ASSUME NEW T, T \subseteq Nat, T # {}
    PROVE  \E x \in T : \A y \in T : x <= y
  <1>1. IsWellFoundedOn(OpToRel(<, Nat), Nat)
    BY NatLessThanWellFounded, Zenon
  <1>2. PICK x \in T : \A y \in T : ~ (<<y, x>> \in OpToRel(<, Nat))
    BY <1>1, WFMin, Zenon
  <1>3. \A y \in T : ~ (y < x)
    BY <1>2, Zenon DEF OpToRel
  <1> QED BY <1>3

\* Induction over 0..n, for a set instead of a predicate.
LEMMA UpTo ==
    ASSUME NEW n \in Nat, NEW G, 0 \in G, \A k \in 1..n : k-1 \in G => k \in G
    PROVE  \A k \in 0..n : k \in G
  <1> DEFINE Bad == {k \in 0..n : k \notin G}
  <1> SUFFICES ASSUME Bad # {} PROVE FALSE
    OBVIOUS
  <1>0. Bad \subseteq Nat
    OBVIOUS
  <1>1. PICK x \in Bad : \A y \in Bad : x <= y
    <2> HIDE DEF Bad
    <2> QED BY <1>0, LeastNat
  <1>2. x \in 1..n /\ x-1 \in 0..n /\ x-1 \notin Bad
    BY <1>1
  <1> QED BY <1>1, <1>2

----------------------------------------------------------------------------
(* The markers of a README.                                                *)

\* First finds the first occurrence of a token, or none.
LEMMA FirstIs ==
    ASSUME NEW s \in Seq(Tokens), NEW token
    PROVE  \/ /\ First(s, token) = 0
              /\ \A i \in 1..Len(s) : s[i] # token
           \/ /\ First(s, token) \in 1..Len(s)
              /\ s[First(s, token)] = token
              /\ \A i \in 1..First(s, token)-1 : s[i] # token
  <1> DEFINE I == {i \in 1..Len(s) : s[i] = token}
  <1>1. Len(s) \in Nat /\ I \subseteq Nat
    BY LenProperties
  <1>2. First(s, token) = IF I # {} THEN Min(I) ELSE 0
    BY DEF First, SelectInSeq
  <1>3. CASE I = {}
    BY <1>2, <1>3
  <1>4. CASE I # {}
    <2>1. PICK x \in I : \A y \in I : x <= y
      BY <1>1, <1>4, LeastNat
    <2>2. Min(I) \in I /\ \A y \in I : Min(I) <= y
      BY <2>1 DEF Min
    <2>3. First(s, token) \in I /\ \A y \in I : First(s, token) <= y
      BY <1>2, <1>4, <2>2
    <2> HIDE DEF I
    <2>4. \A i \in 1..First(s, token)-1 : i \notin I
      <3>1. First(s, token) \in Nat
        BY <1>1, <2>3
      <3> QED BY <1>1, <2>3, <3>1
    <2>5. First(s, token) \in 1..Len(s) /\ s[First(s, token)] = token
      BY <2>3 DEF I
    <2>6. \A i \in 1..First(s, token)-1 : s[i] # token
      BY <1>1, <2>4, <2>5 DEF I
    <2> QED BY <2>5, <2>6
  <1> QED BY <1>3, <1>4

\* A place that holds the token, with none before it, is the one First finds.
LEMMA FirstFound ==
    ASSUME NEW s \in Seq(Tokens), NEW token, NEW k \in 1..Len(s), s[k] = token,
           \A i \in 1..k-1 : s[i] # token
    PROVE  First(s, token) = k
  <1>1. Len(s) \in Nat
    BY LenProperties
  <1> QED BY <1>1, FirstIs

\* The README with its section rewritten: the text before the first marker, the
\* new section and the text after the old one.
LEMMA Rewritten ==
    ASSUME NEW s \in Seq(Tokens), HasMarkers(s)
    PROVE  /\ ReplaceBetweenMarkers(s) \in Seq(Tokens)
           /\ HasMarkers(ReplaceBetweenMarkers(s))
           /\ Outside(ReplaceBetweenMarkers(s)) = Outside(s)
  <1> DEFINE b == First(s, "BEGIN")
             e == First(s, "END")
             p == SubSeq(s, 1, b - 1)
             m == <<"BEGIN", "table", "END">>
             q == SubSeq(s, e + 1, Len(s))
             pm == p \o m
             r == ReplaceBetweenMarkers(s)
  <1>1. /\ Len(s) \in Nat /\ \A i \in 1..Len(s) : s[i] \in Tokens
        /\ b \in 1..Len(s) /\ e \in 1..Len(s) /\ b < e
        /\ \A i \in 1..b-1 : s[i] # "BEGIN"
        /\ \A i \in 1..e-1 : s[i] # "END"
    <2>1. Len(s) \in Nat /\ \A i \in 1..Len(s) : s[i] \in Tokens
      BY LenProperties, ElementOfSeq
    <2>2. 0 < b /\ b < e
      BY DEF HasMarkers
    <2> HIDE DEF b, e
    <2>3. b \in 1..Len(s) /\ \A i \in 1..b-1 : s[i] # "BEGIN"
      BY <2>2, FirstIs DEF b
    <2>4. e \in 1..Len(s) /\ \A i \in 1..e-1 : s[i] # "END"
      BY <2>1, <2>2, <2>3, FirstIs DEF e
    <2> QED BY <2>1, <2>2, <2>3, <2>4
  <1>2. Outside(s) = <<p, q>>
    BY DEF Outside
  <1>r. r = pm \o q
    BY DEF ReplaceBetweenMarkers
  <1> HIDE DEF b, e, r
  <1>3. /\ p \in Seq(Tokens) /\ Len(p) = b - 1
        /\ \A i \in 1..b-1 : p[i] = s[i]
    BY <1>1, SubSeqProperties
  <1>4. q \in Seq(Tokens) /\ Len(q) = Len(s) - e
    BY <1>1, SubSeqProperties
  <1>5. m \in Seq(Tokens) /\ Len(m) = 3 /\ m[1] = "BEGIN" /\ m[2] = "table" /\ m[3] = "END"
    BY DEF Tokens
  <1> HIDE DEF p, q, m
  <1>6. /\ pm \in Seq(Tokens) /\ Len(pm) = b + 2
        /\ \A i \in 1..b+2 : pm[i] = IF i <= b-1 THEN p[i] ELSE m[i - (b-1)]
    <2>1. /\ pm \in Seq(Tokens) /\ Len(pm) = Len(p) + Len(m)
          /\ \A i \in 1..Len(p) + Len(m) :
                 pm[i] = IF i <= Len(p) THEN p[i] ELSE m[i - Len(p)]
      BY <1>3, <1>5, ConcatProperties, Zenon
    <2>2. b \in Nat /\ Len(p) + Len(m) = b + 2
      BY <1>1, <1>3, <1>5
    <2> HIDE DEF pm
    <2> QED BY <1>3, <2>1, <2>2
  <1> HIDE DEF pm
  <1>7. /\ r \in Seq(Tokens) /\ Len(r) = b + 2 + Len(q)
        /\ \A i \in 1..b+2+Len(q) : r[i] = IF i <= b+2 THEN pm[i] ELSE q[i - (b+2)]
    <2>1. /\ pm \o q \in Seq(Tokens) /\ Len(pm \o q) = Len(pm) + Len(q)
          /\ \A i \in 1..Len(pm) + Len(q) :
                 (pm \o q)[i] = IF i <= Len(pm) THEN pm[i] ELSE q[i - Len(pm)]
      BY <1>4, <1>6, ConcatProperties, Zenon
    <2> QED BY <1>r, <1>6, <2>1, Zenon
  <1>8. /\ \A i \in 1..b-1 : r[i] = s[i]
        /\ r[b] = "BEGIN" /\ r[b+1] = "table" /\ r[b+2] = "END"
        /\ \A i \in 1..Len(q) : r[b+2+i] = q[i]
    <2>1. b \in Nat /\ b >= 1 /\ Len(q) \in Nat
      BY <1>1, <1>4
    <2>2. \A i \in 1..b+2 : r[i] = pm[i]
      BY <1>7, <2>1
    <2>3. \A i \in 1..b-1 : r[i] = s[i]
      BY <1>3, <1>6, <2>1, <2>2
    <2>4. r[b] = m[1] /\ r[b+1] = m[2] /\ r[b+2] = m[3]
      <3>1. /\ b \in 1..b+2 /\ ~(b <= b-1) /\ b - (b-1) = 1
            /\ b+1 \in 1..b+2 /\ ~(b+1 <= b-1) /\ (b+1) - (b-1) = 2
            /\ b+2 \in 1..b+2 /\ ~(b+2 <= b-1) /\ (b+2) - (b-1) = 3
        BY <2>1
      <3>2. r[b] = m[b - (b-1)] /\ r[b+1] = m[(b+1) - (b-1)] /\ r[b+2] = m[(b+2) - (b-1)]
        BY <1>6, <2>2, <3>1, Zenon
      <3> QED BY <3>1, <3>2
    <2>5. \A i \in 1..Len(q) : r[b+2+i] = q[i]
      <3> SUFFICES ASSUME NEW i \in 1..Len(q) PROVE r[b+2+i] = q[i]
        OBVIOUS
      <3>1. /\ b+2+i \in 1..b+2+Len(q) /\ ~(b+2+i <= b+2) /\ (b+2+i) - (b+2) = i
        BY <2>1
      <3>2. r[b+2+i] = q[(b+2+i) - (b+2)]
        BY <1>7, <3>1, Zenon
      <3> QED BY <3>1, <3>2
    <2> QED BY <1>5, <2>3, <2>4, <2>5
  <1>9. First(r, "BEGIN") = b
    <2>1. b \in 1..Len(r) /\ \A i \in 1..b-1 : r[i] # "BEGIN"
      BY <1>1, <1>4, <1>7, <1>8
    <2> QED BY <1>7, <1>8, <2>1, FirstFound
  <1>10. First(r, "END") = b + 2
    <2>1. \A i \in 1..b+1 : r[i] # "END"
      <3> SUFFICES ASSUME NEW i \in 1..b+1 PROVE r[i] # "END"
        OBVIOUS
      <3>1. i \in 1..b-1 \/ i = b \/ i = b+1
        BY <1>1
      <3> QED BY <1>1, <1>8, <3>1
    <2>2. b+2 \in 1..Len(r) /\ (b+2)-1 = b+1
      BY <1>1, <1>4, <1>7
    <2> QED BY <1>7, <1>8, <2>1, <2>2, FirstFound
  <1>11. HasMarkers(r)
    BY <1>1, <1>9, <1>10 DEF HasMarkers
  <1>12. Outside(r) = <<SubSeq(r, 1, b - 1), SubSeq(r, b + 3, Len(r))>>
    <2>1. (b + 2) + 1 = b + 3
      BY <1>1
    <2> QED BY <1>9, <1>10, <1>11, <2>1 DEF Outside
  <1>13. SubSeq(r, 1, b - 1) = p
    <2>1. \A i \in 1..b-1 : r[i] \in Tokens
      BY <1>1, <1>8
    <2>2. /\ SubSeq(r, 1, b-1) \in Seq(Tokens) /\ Len(SubSeq(r, 1, b-1)) = b - 1
          /\ \A i \in 1..b-1 : SubSeq(r, 1, b-1)[i] = r[i]
      BY <1>1, <2>1, SubSeqProperties
    <2> QED BY <1>1, <1>3, <1>8, <2>2, SeqEqual
  <1>14. SubSeq(r, b + 3, Len(r)) = q
    <2>1. Len(r) \in Nat /\ \A i \in b+3..Len(r) : r[i] \in Tokens
      BY <1>1, <1>4, <1>7, ElementOfSeq
    <2>2. /\ SubSeq(r, b+3, Len(r)) \in Seq(Tokens)
          /\ Len(SubSeq(r, b+3, Len(r))) = Len(q)
          /\ \A i \in 1..Len(q) : SubSeq(r, b+3, Len(r))[i] = r[b+2+i]
      <3>1. b+3 \in Int /\ Len(r) \in Int
        BY <1>1, <2>1
      <3>2. /\ SubSeq(r, b+3, Len(r)) \in Seq(Tokens)
            /\ Len(SubSeq(r, b+3, Len(r)))
                   = IF b+3 <= Len(r) THEN Len(r) - (b+3) + 1 ELSE 0
            /\ \A i \in 1..Len(r) - (b+3) + 1 :
                   SubSeq(r, b+3, Len(r))[i] = r[b+3+i-1]
        BY <2>1, <3>1, SubSeqProperties
      <3>3. Len(q) \in Nat /\ Len(r) - (b+3) + 1 = Len(q) /\ (b+3 <= Len(r) <=> Len(q) # 0)
        <4>1. b \in Nat /\ Len(q) \in Nat /\ Len(r) = b + 2 + Len(q)
          BY <1>1, <1>4, <1>7
        <4> HIDE DEF r
        <4> QED BY <4>1
      <3>4. \A i \in 1..Len(q) : b+3+i-1 = b+2+i
        BY <1>1, <3>3
      <3> QED BY <3>2, <3>3, <3>4
    <2>3. \A i \in 1..Len(q) : SubSeq(r, b+3, Len(r))[i] = q[i]
      BY <1>8, <2>2
    <2> QED BY <1>4, <2>2, <2>3, SeqEqual
  <1> QED BY <1>2, <1>7, <1>11, <1>12, <1>13, <1>14 DEF r

\* Every step but UpdateReadme and UpdateTorn leaves the README alone.
LEMMA ReadmeFrame ==
    ASSUME [Next]_vars, ~UpdateReadme, ~UpdateTorn
    PROVE  readme' = readme
  BY DEF Next, Measure, MeasureTorn, WriteJSON, Load, LoadFails, UpdateRefused, Draw,
     DrawPanics, Killed, vars

\* The README is a sequence of tokens.
InTokens == readme \in Seq(Tokens)

\* It stays one, however it is cut off.
LEMMA InTokensStep == InTokens /\ [Next]_vars => InTokens'
  <1> SUFFICES ASSUME InTokens, [Next]_vars PROVE InTokens'
    OBVIOUS
  <1>1. CASE UpdateReadme
    BY <1>1, Rewritten DEF UpdateReadme, InTokens
  <1>2. CASE UpdateTorn
    <2> DEFINE r == ReplaceBetweenMarkers(readme)
    <2>1. r \in Seq(Tokens)
      BY <1>2, Rewritten DEF UpdateTorn, InTokens
    <2>2. PICK l \in 0..Len(r) : readme' = SubSeq(r, 1, l)
      BY <1>2 DEF UpdateTorn, Prefixes
    <2> HIDE DEF r
    <2>3. Len(r) \in Nat /\ \A i \in 1..l : r[i] \in Tokens
      BY <2>1, <2>2, LenProperties, ElementOfSeq
    <2> QED BY <2>2, <2>3, SubSeqProperties DEF InTokens
  <1>3. CASE ~UpdateReadme /\ ~UpdateTorn
    BY <1>3, ReadmeFrame DEF InTokens
  <1> QED BY <1>1, <1>2, <1>3

\* So it is one throughout.
LEMMA ReadmeTokens == Spec => []InTokens
  <1>1. Init => InTokens
    BY ReportAssumption DEF Init, InTokens
  <1> QED BY <1>1, InTokensStep, PTL DEF Spec

\* Whatever a README holds, and however many markers are in it, cmd/report
\* replaces what stands between the first two and nothing else; only a process
\* killed in the middle of os.WriteFile can lose text around them.
THEOREM ReadmeTextIsKept == Spec => ReadmeKept
  <1>1. InTokens /\ [Next]_vars
          => [UpdateTorn \/ Outside(readme') = Outside(readme)]_vars
    <2> SUFFICES ASSUME InTokens, [Next]_vars, ~UpdateTorn
                 PROVE  Outside(readme') = Outside(readme)
      OBVIOUS
    <2>1. CASE UpdateReadme
      BY <2>1, Rewritten DEF UpdateReadme, InTokens
    <2>2. CASE ~UpdateReadme
      BY <2>2, ReadmeFrame
    <2> QED BY <2>1, <2>2
  <1> QED BY <1>1, ReadmeTokens, PTL DEF Spec, ReadmeKept

----------------------------------------------------------------------------
(* The loop of Load, as the values its report takes file by file.          *)

\* The recursive function that FoldLeft applies to the first k files.
FoldsFiles(g, s, k) ==
    g = [S \in SUBSET (1..k) |->
            IF S = {} THEN NoReport ELSE LoadFile(g[S \ {Max(S)}], s[Max(S)])]

\* The greatest of some of the first k places: what is left lies below k.
LEMMA MaxOfPlaces ==
    ASSUME NEW k \in Nat, NEW S \in SUBSET (1..k), S # {}
    PROVE  Max(S) \in S /\ S \ {Max(S)} \in SUBSET (1..k-1)
  <1> DEFINE D == {d \in 0..k : k - d \in S}
  <1>1. D \subseteq Nat /\ D # {}
    <2>1. PICK x \in S : TRUE
      OBVIOUS
    <2>2. k - x \in 0..k /\ k - (k - x) = x
      BY <2>1
    <2>3. k - x \in D
      BY <2>1, <2>2
    <2>4. D \subseteq Nat
      OBVIOUS
    <2> HIDE DEF D
    <2> QED BY <2>3, <2>4
  <1> HIDE DEF D
  <1>2. PICK d \in D : \A c \in D : d <= c
    BY <1>1, LeastNat
  <1>3. k - d \in S /\ d \in 0..k
    BY <1>2 DEF D
  <1>4. \A y \in S : k - d >= y
    <2> SUFFICES ASSUME NEW y \in S PROVE k - d >= y
      OBVIOUS
    <2>1. y \in 1..k /\ k - y \in 0..k /\ k - (k - y) = y
      OBVIOUS
    <2>2. k - y \in D
      BY <2>1 DEF D
    <2> QED BY <1>2, <1>3, <2>1, <2>2
  <1>5. Max(S) \in S /\ \A y \in S : Max(S) >= y
    BY <1>3, <1>4 DEF Max
  <1>6. \A y \in S \ {Max(S)} : y \in 1..k-1
    <2> SUFFICES ASSUME NEW y \in S, y # Max(S) PROVE y \in 1..k-1
      OBVIOUS
    <2>1. y \in 1..k /\ Max(S) \in 1..k /\ Max(S) >= y
      BY <1>5
    <2> QED BY <2>1
  <1> QED BY <1>5, <1>6

\* That function exists: one for k files is made from one for k - 1.
LEMMA FoldExists ==
    ASSUME NEW s, NEW n \in Nat
    PROVE  \E g : FoldsFiles(g, s, n)
  <1> DEFINE G == {k \in 0..n : \E g : FoldsFiles(g, s, k)}
  <1>1. 0 \in G
    <2> DEFINE g == [S \in SUBSET (1..0) |-> NoReport]
    <2>1. \A S \in SUBSET (1..0) : S = {}
      OBVIOUS
    <2>2. FoldsFiles(g, s, 0)
      BY <2>1 DEF FoldsFiles
    <2> QED BY <2>2
  <1>2. \A k \in 1..n : k-1 \in G => k \in G
    <2> SUFFICES ASSUME NEW k \in 1..n, k-1 \in G PROVE k \in G
      OBVIOUS
    <2>1. PICK h : FoldsFiles(h, s, k-1)
      OBVIOUS
    <2> DEFINE g == [S \in SUBSET (1..k) |->
                        IF S = {} THEN NoReport ELSE LoadFile(h[S \ {Max(S)}], s[Max(S)])]
    <2>2. \A S \in SUBSET (1..k-1) : g[S] = h[S]
      <3>1. \A S \in SUBSET (1..k-1) : S \in SUBSET (1..k)
        OBVIOUS
      <3>2. \A S \in SUBSET (1..k-1) :
               h[S] = IF S = {} THEN NoReport ELSE LoadFile(h[S \ {Max(S)}], s[Max(S)])
        BY <2>1 DEF FoldsFiles
      <3> QED BY <3>1, <3>2
    <2>3. \A S \in SUBSET (1..k) : S # {} => g[S \ {Max(S)}] = h[S \ {Max(S)}]
      <3> HIDE DEF g
      <3> QED BY <2>2, MaxOfPlaces
    <2>4. \A S \in SUBSET (1..k) :
             g[S] = IF S = {} THEN NoReport ELSE LoadFile(g[S \ {Max(S)}], s[Max(S)])
      BY <2>3
    <2>5. FoldsFiles(g, s, k)
      <3>1. g = [S \in SUBSET (1..k) |-> g[S]]
        OBVIOUS
      <3> HIDE DEF g
      <3> QED BY <2>4, <3>1 DEF FoldsFiles
    <2> QED BY <2>5
  <1> HIDE DEF G
  <1>3. n \in G
    BY <1>1, <1>2, UpTo
  <1> QED BY <1>3 DEF G

\* FoldLeft, as the sequence of reports it goes through.
LEMMA LoadHistory ==
    ASSUME NEW S, NEW s \in Seq(S)
    PROVE  \E r : /\ r[0] = NoReport
                  /\ \A k \in 1..Len(s) : r[k] = LoadFile(r[k-1], s[k])
                  /\ FoldLeft(LoadFile, NoReport, s) = r[Len(s)]
  <1>1. Len(s) \in Nat /\ DOMAIN s = 1..Len(s)
    BY LenProperties
  <1> DEFINE g == CHOOSE h : FoldsFiles(h, s, Len(s))
  <1>2. FoldsFiles(g, s, Len(s))
    BY <1>1, FoldExists
  <1>3. FoldLeft(LoadFile, NoReport, s) = g[1..Len(s)]
    BY <1>1 DEF FoldLeft, MapThenFoldSet, FoldsFiles
  <1> HIDE DEF g
  <1> DEFINE r == [k \in 0..Len(s) |-> g[1..k]]
  <1>4. r[0] = NoReport
    <2>1. {} \in SUBSET (1..Len(s)) /\ 1..0 = {}
      OBVIOUS
    <2>2. g[{}] = NoReport
      BY <1>2, <2>1 DEF FoldsFiles
    <2> QED BY <1>1, <2>1, <2>2
  <1>5. \A k \in 1..Len(s) : r[k] = LoadFile(r[k-1], s[k])
    <2> SUFFICES ASSUME NEW k \in 1..Len(s) PROVE r[k] = LoadFile(r[k-1], s[k])
      OBVIOUS
    <2>1. Max(1..k) = k
      BY DEF Max
    <2>2. (1..k) \ {k} = 1..k-1 /\ 1..k # {} /\ 1..k \in SUBSET (1..Len(s))
      <3>1. k \in Nat /\ 1 <= k /\ k <= Len(s)
        BY <1>1
      <3>2. (1..k) \ {k} = 1..k-1
        BY <3>1
      <3>3. k \in 1..k /\ \A i \in 1..k : i \in 1..Len(s)
        BY <1>1, <3>1
      <3> QED BY <3>2, <3>3
    <2>3. g[1..k] = LoadFile(g[(1..k) \ {Max(1..k)}], s[Max(1..k)])
      BY <1>2, <2>2 DEF FoldsFiles
    <2>4. g[1..k] = LoadFile(g[1..k-1], s[k])
      BY <2>1, <2>2, <2>3
    <2> QED BY <1>1, <2>4
  <1>6. r[Len(s)] = g[1..Len(s)]
    BY <1>1
  <1> QED BY <1>3, <1>4, <1>5, <1>6

----------------------------------------------------------------------------
(* What Load makes of the results directory.                               *)

\* Result files, and the reports that can be made of them.
Files ==
    [kind : Kinds, phase : 0..9, n : Nat, real : BOOLEAN, value : Nat, ts : Nat,
     whole : BOOLEAN]

Reports ==
    [sweeps : Seq(Files), test : [Tests -> Files \cup {NoFile}], measured : BOOLEAN,
     blocked : BOOLEAN, points : Seq(Files)]

\* The report before the first file.
LEMMA NoReportType == NoReport \in Reports /\ NoReport.points = <<>> /\ ~NoReport.measured
  <1>1. <<>> \in Seq(Files)
    BY EmptySeq
  <1> QED BY <1>1 DEF NoReport, Reports

\* What the loop of Load does with one file, by its kind.
LEMMA LoadFileCases ==
    ASSUME NEW r \in Reports, NEW f \in Files
    PROVE  /\ LoadFile(r, f) \in Reports
           /\ f.kind = "sweep" =>
                  LoadFile(r, f) = [r EXCEPT !.sweeps = Append(r.sweeps, f)]
           /\ f.kind \in Tests => LoadFile(r, f) = [r EXCEPT !.test[f.kind] = f]
           /\ f.kind = "blocked" =>
                  LoadFile(r, f) = [r EXCEPT !.measured = TRUE, !.blocked = TRUE,
                                             !.points = <<>>]
           /\ f.kind = "scaling" =>
                  LoadFile(r, f) = [r EXCEPT !.measured = TRUE,
                                             !.points = Append(r.points, f)]
  <1>1. /\ r.sweeps \in Seq(Files) /\ r.points \in Seq(Files) /\ f.kind \in Kinds
        /\ r.test \in [Tests -> Files \cup {NoFile}]
    BY DEF Reports, Files
  <1>2. /\ Append(r.sweeps, f) \in Seq(Files) /\ Append(r.points, f) \in Seq(Files)
        /\ <<>> \in Seq(Files)
    BY <1>1, EmptySeq, AppendProperties
  <1>3. CASE f.kind = "sweep"
    <2>1. LoadFile(r, f) = [r EXCEPT !.sweeps = Append(r.sweeps, f)]
      BY <1>3 DEF LoadFile, Tests
    <2> QED BY <1>2, <1>3, <2>1 DEF Reports, Tests
  <1>4. CASE f.kind \in Tests
    <2>1. LoadFile(r, f) = [r EXCEPT !.test[f.kind] = f]
      BY <1>4 DEF LoadFile, LoadTest, Tests
    <2>2. [r.test EXCEPT ![f.kind] = f] \in [Tests -> Files \cup {NoFile}]
      BY <1>1, <1>4
    <2> QED BY <1>4, <2>1, <2>2 DEF Reports, Tests
  <1>5. CASE f.kind = "blocked"
    <2>1. LoadFile(r, f) = [r EXCEPT !.measured = TRUE, !.blocked = TRUE, !.points = <<>>]
      BY <1>5 DEF LoadFile, Tests
    <2> QED BY <1>2, <1>5, <2>1 DEF Reports, Tests
  <1>6. CASE f.kind = "scaling"
    <2>1. LoadFile(r, f) = [r EXCEPT !.measured = TRUE, !.points = Append(r.points, f)]
      BY <1>6 DEF LoadFile, Tests
    <2> QED BY <1>2, <1>6, <2>1 DEF Reports, Tests
  <1> QED BY <1>1, <1>3, <1>4, <1>5, <1>6 DEF Kinds

\* The same, field by field.
LEMMA LoadFileFields ==
    ASSUME NEW r \in Reports, NEW f \in Files
    PROVE  LET q == LoadFile(r, f)
           IN /\ q \in Reports
              /\ q.sweeps = IF f.kind = "sweep" THEN Append(r.sweeps, f) ELSE r.sweeps
              /\ \A t \in Tests : q.test[t] = IF f.kind = t THEN f ELSE r.test[t]
              /\ ~q.measured => ~r.measured /\ q.points = r.points
  <1> DEFINE q == LoadFile(r, f)
  <1>1. f.kind \in Kinds /\ r.test \in [Tests -> Files \cup {NoFile}]
    BY DEF Files, Reports
  <1>2. q \in Reports
    BY LoadFileCases
  <1>3. CASE f.kind = "sweep"
    <2>1. q = [r EXCEPT !.sweeps = Append(r.sweeps, f)]
      BY <1>3, LoadFileCases
    <2> HIDE DEF q
    <2>2. /\ q.sweeps = Append(r.sweeps, f) /\ q.test = r.test
          /\ q.measured = r.measured /\ q.points = r.points
      BY <2>1 DEF Reports
    <2> QED BY <1>2, <1>3, <2>2 DEF q, Tests
  <1>4. CASE f.kind \in Tests
    <2>1. q = [r EXCEPT !.test[f.kind] = f]
      BY <1>4, LoadFileCases
    <2> HIDE DEF q
    <2>2. /\ q.sweeps = r.sweeps /\ q.test = [r.test EXCEPT ![f.kind] = f]
          /\ q.measured = r.measured /\ q.points = r.points
      BY <2>1 DEF Reports
    <2>3. \A t \in Tests : q.test[t] = IF f.kind = t THEN f ELSE r.test[t]
      BY <1>1, <2>2
    <2> QED BY <1>2, <1>4, <2>2, <2>3 DEF q, Tests
  <1>5. CASE f.kind = "blocked" \/ f.kind = "scaling"
    <2>1. \/ q = [r EXCEPT !.measured = TRUE, !.blocked = TRUE, !.points = <<>>]
          \/ q = [r EXCEPT !.measured = TRUE, !.points = Append(r.points, f)]
      BY <1>5, LoadFileCases
    <2> HIDE DEF q
    <2>2. q.sweeps = r.sweeps /\ q.test = r.test /\ q.measured
      BY <2>1 DEF Reports
    <2> QED BY <1>2, <1>5, <2>2 DEF q, Tests
  <1> QED BY <1>1, <1>3, <1>4, <1>5 DEF Kinds

\* Append adds one element.
LEMMA AppendSet ==
    ASSUME NEW S, NEW q \in Seq(S), NEW f \in S
    PROVE  ToSet(Append(q, f)) = ToSet(q) \cup {f}
  <1>1. /\ Len(q) \in Nat /\ DOMAIN q = 1..Len(q) /\ DOMAIN Append(q, f) = 1..Len(q)+1
        /\ \A i \in 1..Len(q) : Append(q, f)[i] = q[i]
        /\ Append(q, f)[Len(q)+1] = f
    BY AppendProperties, LenProperties
  <1>2. \A i \in 1..Len(q)+1 : i \in 1..Len(q) \/ i = Len(q)+1
    BY <1>1
  <1>3. Len(q)+1 \in 1..Len(q)+1 /\ \A i \in 1..Len(q) : i \in 1..Len(q)+1
    BY <1>1
  <1> QED BY <1>1, <1>2, <1>3 DEF ToSet

\* The report after the first k files of s: all the sweeps among them, of each
\* test the last, and no points unless the scaling was measured.
Read(r, s, k) ==
    /\ r \in Reports
    /\ ~r.measured => r.points = <<>>
    /\ ToSet(r.sweeps) = {s[i] : i \in {j \in 1..k : s[j].kind = "sweep"}}
    /\ \A t \in Tests :
           \/ r.test[t] = NoFile /\ \A i \in 1..k : s[i].kind # t
           \/ \E i \in 1..k : /\ s[i].kind = t /\ r.test[t] = s[i]
                              /\ \A j \in i+1..k : s[j].kind # t

\* One more file is read.
LEMMA ReadNext ==
    ASSUME NEW s \in Seq(Files), NEW k \in 1..Len(s), NEW r, Read(r, s, k-1)
    PROVE  Read(LoadFile(r, s[k]), s, k)
  <1> DEFINE f == s[k]
             q == LoadFile(r, f)
  <1>1. f \in Files /\ r \in Reports /\ f.kind \in Kinds /\ Len(s) \in Nat /\ k \in Nat
    <2>1. Len(s) \in Nat /\ s[k] \in Files
      BY LenProperties, ElementOfSeq
    <2> QED BY <2>1 DEF Read, Files
  <1>2. /\ \A i \in 1..k : i \in 1..k-1 \/ i = k
        /\ \A i \in 1..k-1 : i \in 1..k /\ i # k
        /\ k \in 1..k /\ k+1..k = {}
        /\ \A i \in 1..k-1 : k \in i+1..k
    BY <1>1
  <1>q. /\ q \in Reports
        /\ q.sweeps = IF f.kind = "sweep" THEN Append(r.sweeps, f) ELSE r.sweeps
        /\ \A t \in Tests : q.test[t] = IF f.kind = t THEN f ELSE r.test[t]
        /\ ~q.measured => ~r.measured /\ q.points = r.points
    <2> HIDE DEF f
    <2> QED BY <1>1, LoadFileFields
  <1>f. f = s[k]
    OBVIOUS
  <1> HIDE DEF q, f
  <1>4. ~q.measured => q.points = <<>>
    BY <1>q DEF Read
  <1>5. ToSet(q.sweeps) = {s[i] : i \in {j \in 1..k : s[j].kind = "sweep"}}
    <2>1. CASE f.kind = "sweep"
      <3>1. q.sweeps = Append(r.sweeps, f) /\ r.sweeps \in Seq(Files)
        BY <1>1, <1>q, <2>1 DEF Reports
      <3>2. ToSet(q.sweeps) = ToSet(r.sweeps) \cup {f}
        BY <1>1, <3>1, AppendSet
      <3> QED BY <1>2, <1>f, <2>1, <3>2 DEF Read
    <2>2. CASE f.kind # "sweep"
      <3>1. q.sweeps = r.sweeps
        BY <1>q, <2>2
      <3> QED BY <1>2, <1>f, <2>2, <3>1 DEF Read
    <2> QED BY <2>1, <2>2
  <1>6. ASSUME NEW t \in Tests
        PROVE  \/ q.test[t] = NoFile /\ \A i \in 1..k : s[i].kind # t
               \/ \E i \in 1..k : /\ s[i].kind = t /\ q.test[t] = s[i]
                                  /\ \A j \in i+1..k : s[j].kind # t
    <2>1. CASE f.kind = t
      <3>1. q.test[t] = f
        BY <1>q, <2>1
      <3> QED BY <1>2, <1>f, <2>1, <3>1
    <2>2. CASE f.kind # t
      <3>1. q.test[t] = r.test[t]
        BY <1>q, <2>2
      <3>2. CASE r.test[t] = NoFile /\ \A i \in 1..k-1 : s[i].kind # t
        BY <1>2, <1>f, <2>2, <3>1, <3>2
      <3>3. CASE \E i \in 1..k-1 : /\ s[i].kind = t /\ r.test[t] = s[i]
                                   /\ \A j \in i+1..k-1 : s[j].kind # t
        <4>1. PICK i \in 1..k-1 : /\ s[i].kind = t /\ r.test[t] = s[i]
                                  /\ \A j \in i+1..k-1 : s[j].kind # t
          BY <3>3
        <4>2. \A j \in i+1..k : j \in i+1..k-1 \/ j = k
          BY <1>1
        <4> QED BY <1>2, <1>f, <2>2, <3>1, <4>1, <4>2
      <3> QED BY <3>2, <3>3 DEF Read
    <2> QED BY <2>1, <2>2
  <1>7. Read(q, s, k)
    BY <1>q, <1>4, <1>5, <1>6 DEF Read
  <1> QED BY <1>7 DEF q, f

\* What the loop has made of the files when it is over.
LEMMA LoopReads ==
    ASSUME NEW s \in Seq(Files)
    PROVE  Read(FoldLeft(LoadFile, NoReport, s), s, Len(s))
  <1>1. PICK r : /\ r[0] = NoReport
                 /\ \A k \in 1..Len(s) : r[k] = LoadFile(r[k-1], s[k])
                 /\ FoldLeft(LoadFile, NoReport, s) = r[Len(s)]
    BY LoadHistory
  <1>2. Len(s) \in Nat
    BY LenProperties
  <1> DEFINE G == {k \in 0..Len(s) : Read(r[k], s, k)}
  <1>3. 0 \in G
    <2>1. ToSet(NoReport.sweeps) = {}
      BY DEF ToSet, NoReport
    <2>2. \A t \in Tests : NoReport.test[t] = NoFile
      BY DEF NoReport
    <2>3. 1..0 = {}
      OBVIOUS
    <2>4. Read(NoReport, s, 0)
      BY <2>1, <2>2, <2>3, NoReportType DEF Read
    <2> QED BY <1>1, <1>2, <2>4
  <1>4. \A k \in 1..Len(s) : k-1 \in G => k \in G
    BY <1>1, <1>2, ReadNext
  <1> HIDE DEF G
  <1>5. Len(s) \in G
    <2>1. \A k \in 0..Len(s) : k \in G
      BY <1>2, <1>3, <1>4, UpTo
    <2>2. Len(s) \in 0..Len(s)
      BY <1>2
    <2> QED BY <2>1, <2>2
  <1> QED BY <1>1, <1>5 DEF G

\* A listing of a finite set holds its elements and no other.
LEMMA Listed ==
    ASSUME NEW S, IsFiniteSet(S), NEW s \in SetToSeqs(S)
    PROVE  s \in Seq(S) /\ ToSet(s) = S
  <1> DEFINE n == Cardinality(S)
  <1>1. n \in Nat
    BY FS_CardinalityType
  <1>2. s \in [1..n -> S] /\ \A i, j \in 1..n : i # j => s[i] # s[j]
    BY DEF SetToSeqs
  <1> HIDE DEF n
  <1>3. s \in Injection(1..n, S)
    BY <1>2 DEF Injection, IsInjective
  <1>4. Cardinality(1..n) = n
    BY <1>1, FS_Interval
  <1>5. s \in Surjection(1..n, S)
    BY <1>3, <1>4, FS_Injection DEF n
  <1>6. s \in Seq(S)
    BY <1>1, <1>2, SeqDef
  <1>7. ToSet(s) = S
    BY <1>2, <1>5 DEF ToSet, Surjection
  <1> QED BY <1>6, <1>7

\* A sequence has finitely many elements, all of its set.
LEMMA Elements ==
    ASSUME NEW S, NEW s \in Seq(S)
    PROVE  IsFiniteSet(ToSet(s)) /\ ToSet(s) \subseteq S
  <1>1. Len(s) \in Nat /\ s \in [1..Len(s) -> S] /\ DOMAIN s = 1..Len(s)
    BY LenProperties
  <1>2. s \in Surjection(1..Len(s), ToSet(s))
    BY <1>1 DEF Surjection, ToSet
  <1>3. IsFiniteSet(1..Len(s))
    BY <1>1, FS_Interval
  <1>4. IsFiniteSet(ToSet(s))
    BY <1>2, <1>3, FS_Surjection
  <1> QED BY <1>1, <1>4 DEF ToSet

\* The results directory: finitely many files, each with the name its kind has.
Directory(F) ==
    /\ F \subseteq Files /\ IsFiniteSet(F)
    /\ \A f \in F : f.kind \in Tests => f.phase = PhaseOf[f.kind] /\ f.n = 0

\* The report that Load makes of directory F: all its sweeps, of each test the
\* latest file, the points by replicas and none unless the scaling was measured.
ReportOf(q, F) ==
    /\ q \in Reports
    /\ ToSet(q.sweeps) = {f \in F : f.kind = "sweep"}
    /\ ~q.measured => ToSet(q.points) = {}
    /\ \A i, j \in DOMAIN q.points : i < j => q.points[i].n <= q.points[j].n
    /\ \A t \in Tests :
           \/ q.test[t] = NoFile /\ \A f \in F : f.kind # t
           \/ /\ q.test[t] \in F /\ q.test[t].kind = t
              /\ \A f \in F : f.kind = t => f.ts <= q.test[t].ts

\* By name, files of one test are in the order of their seconds.
LEMMA TestsByTime ==
    ASSUME NEW F, Directory(F), NEW f \in F, NEW g \in F, f.kind \in Tests,
           g.kind = f.kind, f.ts < g.ts
    PROVE  NameBefore(f, g)
  <1>1. f.phase = g.phase /\ f.n = g.n /\ Rank(f) = Rank(g)
    BY DEF Directory, Rank
  <1> DEFINE name(x) == <<x.phase, Rank(x), x.n, x.ts>>
  <1>2. \A j \in 1..4-1 : name(f)[j] = name(g)[j]
    <2> SUFFICES ASSUME NEW j \in 1..3 PROVE name(f)[j] = name(g)[j]
      OBVIOUS
    <2>1. j = 1 \/ j = 2 \/ j = 3
      OBVIOUS
    <2> QED BY <1>1, <2>1
  <1>3. name(f)[4] < name(g)[4]
    OBVIOUS
  <1> QED BY <1>2, <1>3 DEF NameBefore

\* What Load returns is the report of the directory.
LEMMA LoadReports ==
    ASSUME Directory(files), LoadReport
    PROVE  ReportOf(rep', files)
  <1> DEFINE F == files
             q == rep'
  <1>0. PICK s \in InOrder(F, NameBefore) : SortAndReturn(FoldLeft(LoadFile, NoReport, s))
    BY DEF LoadReport
  <1> DEFINE r == FoldLeft(LoadFile, NoReport, s)
  <1>1. /\ s \in SetToSeqs(F)
        /\ \A i, j \in DOMAIN s : i < j => ~NameBefore(s[j], s[i])
    BY DEF InOrder
  <1>2. s \in Seq(F) /\ ToSet(s) = F /\ s \in Seq(Files)
    BY <1>1, Listed, SeqMonotonic DEF Directory
  <1>3. Len(s) \in Nat /\ DOMAIN s = 1..Len(s) /\ \A i \in 1..Len(s) : s[i] \in F
    BY <1>2, LenProperties, ElementOfSeq
  <1>4. Read(r, s, Len(s))
    BY <1>2, LoopReads
  <1>5. PICK a \in SetToSeqs(ToSet(r.sweeps)), b \in SetToSeqs(ToSet(r.points)) :
              /\ \A i, j \in DOMAIN b : i < j => ~PointLess(b[j], b[i])
              /\ q = [r EXCEPT !.sweeps = a, !.points = b]
    <2>1. SortAndReturn(r)
      BY <1>0
    <2> HIDE DEF r
    <2> QED BY <2>1 DEF SortAndReturn, InOrder
  <1> HIDE DEF r
  <1>6. /\ r \in Reports /\ r.sweeps \in Seq(Files) /\ r.points \in Seq(Files)
        /\ ~r.measured => r.points = <<>>
    BY <1>4 DEF Read, Reports
  <1>7. a \in Seq(Files) /\ ToSet(a) = ToSet(r.sweeps)
    BY <1>6, Elements, Listed, SeqMonotonic
  <1>8. b \in Seq(Files) /\ ToSet(b) = ToSet(r.points)
    BY <1>6, Elements, Listed, SeqMonotonic
  <1>9. /\ q \in Reports /\ q.sweeps = a /\ q.points = b /\ q.test = r.test
        /\ q.measured = r.measured
    BY <1>5, <1>6, <1>7, <1>8 DEF Reports
  <1>10. ToSet(q.sweeps) = {f \in F : f.kind = "sweep"}
    <2>1. ToSet(q.sweeps) = {s[i] : i \in {j \in 1..Len(s) : s[j].kind = "sweep"}}
      BY <1>4, <1>7, <1>9 DEF Read
    <2>2. F = {s[i] : i \in 1..Len(s)}
      BY <1>2, <1>3 DEF ToSet
    <2> QED BY <2>1, <2>2
  <1>11. ~q.measured => ToSet(q.points) = {}
    <2>1. ToSet(<<>>) = {}
      BY DEF ToSet
    <2> QED BY <1>6, <1>8, <1>9, <2>1
  <1>12. \A i, j \in DOMAIN q.points : i < j => q.points[i].n <= q.points[j].n
    <2>1. \A i, j \in DOMAIN b : i < j => ~(b[j].n < b[i].n)
      BY <1>5 DEF PointLess
    <2>2. \A i \in DOMAIN b : b[i] \in Files /\ b[i].n \in Nat
      <3>1. DOMAIN b = 1..Len(b)
        BY <1>8, LenProperties
      <3>2. \A i \in 1..Len(b) : b[i] \in Files
        BY <1>8, ElementOfSeq
      <3> QED BY <3>1, <3>2 DEF Files
    <2> QED BY <1>9, <2>1, <2>2
  <1>13. ASSUME NEW t \in Tests
         PROVE  \/ q.test[t] = NoFile /\ \A f \in F : f.kind # t
                \/ /\ q.test[t] \in F /\ q.test[t].kind = t
                   /\ \A f \in F : f.kind = t => f.ts <= q.test[t].ts
    <2>1. \A f \in F : \E i \in 1..Len(s) : f = s[i]
      BY <1>2, <1>3 DEF ToSet
    <2>2. CASE r.test[t] = NoFile /\ \A i \in 1..Len(s) : s[i].kind # t
      BY <1>9, <2>1, <2>2
    <2>3. CASE \E i \in 1..Len(s) : /\ s[i].kind = t /\ r.test[t] = s[i]
                                    /\ \A j \in i+1..Len(s) : s[j].kind # t
      <3>1. PICK i \in 1..Len(s) : /\ s[i].kind = t /\ r.test[t] = s[i]
                                   /\ \A j \in i+1..Len(s) : s[j].kind # t
        BY <2>3
      <3>2. ASSUME NEW f \in F, f.kind = t PROVE f.ts <= s[i].ts
        <4>1. PICK j \in 1..Len(s) : f = s[j]
          BY <2>1
        <4>2. j <= i
          BY <1>3, <3>1, <3>2, <4>1
        <4>3. f.ts \in Nat /\ s[i].ts \in Nat /\ s[i] \in F
          BY <1>3 DEF Directory, Files
        <4>4. CASE j = i
          BY <4>1, <4>3, <4>4
        <4>5. CASE j < i
          <5>1. ~NameBefore(s[i], f)
            BY <1>1, <1>3, <4>1, <4>5
          <5>2. ~(s[i].ts < f.ts)
            BY <3>1, <3>2, <4>3, <5>1, TestsByTime
          <5> QED BY <4>3, <5>2
        <4> QED BY <1>3, <4>2, <4>4, <4>5
      <3> QED BY <1>3, <1>9, <3>1, <3>2
    <2> QED BY <1>4, <2>2, <2>3 DEF Read
  <1> QED BY <1>9, <1>10, <1>11, <1>12, <1>13 DEF ReportOf

----------------------------------------------------------------------------
(* The results directory through a behaviour.                              *)

\* The directory is well formed, one file to a name, none from the future.
Filed ==
    /\ clock \in 1..MaxTime
    /\ Directory(files)
    /\ \A f, g \in files : SameName(f, g) => f = g
    /\ \A f \in files : f.ts \in 1..clock

\* No second that is in the directory is ever lost from it.
Kept == \A f \in files : \E g \in files' : g.kind = f.kind /\ g.ts = f.ts

\* A measurement files its result.
LEMMA WriteFiles ==
    ASSUME Filed, NEW m \in Measurements, NEW whole \in BOOLEAN, WriteJSON(m, whole)
    PROVE  Filed' /\ Kept
  <1> DEFINE f == [kind |-> m.kind, phase |-> m.phase, n |-> m.n, real |-> m.real,
                   value |-> m.value, ts |-> clock', whole |-> whole]
  <1>1. /\ clock' \in clock..MaxTime
        /\ files' = {g \in files : ~SameName(f, g)} \cup {f}
    BY DEF WriteJSON
  <1>2. clock' \in 1..MaxTime /\ clock <= clock' /\ clock' \in Nat /\ clock \in Nat
    BY <1>1, ReportAssumption DEF Filed
  <1>3. f \in Files
    BY <1>2, ReportAssumption DEF Files
  <1>4. f.kind \in Tests => f.phase = PhaseOf[f.kind] /\ f.n = 0
    BY ReportAssumption DEF Tests
  <1>5. f.ts = clock'
    OBVIOUS
  <1> HIDE DEF f
  <1>6. Directory(files')
    <2>1. IsFiniteSet({g \in files : ~SameName(f, g)})
      BY FS_Subset DEF Filed, Directory
    <2>2. IsFiniteSet(files')
      BY <1>1, <2>1, FS_AddElement
    <2> QED BY <1>1, <1>3, <1>4, <2>2 DEF Filed, Directory
  <1>7. \A g, h \in files' : SameName(g, h) => g = h
    <2>1. \A g, h : SameName(g, h) => SameName(h, g)
      BY DEF SameName
    <2> QED BY <1>1, <2>1 DEF Filed
  <1>8. \A g \in files' : g.ts \in 1..clock'
    BY <1>1, <1>2, <1>5 DEF Filed
  <1>9. Kept
    BY <1>1 DEF Kept, SameName
  <1> QED BY <1>2, <1>6, <1>7, <1>8, <1>9 DEF Filed

\* Every step keeps the directory well formed and its seconds.
LEMMA FiledStep == Filed /\ [Next]_vars => Filed' /\ Kept
  <1> SUFFICES ASSUME Filed, [Next]_vars PROVE Filed' /\ Kept
    OBVIOUS
  <1>1. CASE Measure \/ MeasureTorn
    BY <1>1, WriteFiles DEF Measure, MeasureTorn
  <1>2. CASE ~(Measure \/ MeasureTorn)
    <2>1. UNCHANGED <<clock, files>>
      BY <1>2 DEF Next, Load, LoadFails, UpdateReadme, UpdateRefused, UpdateTorn, Draw,
         DrawPanics, Killed, Goes, vars
    <2> QED BY <2>1 DEF Filed, Kept, Directory
  <1> QED BY <1>1, <1>2

----------------------------------------------------------------------------
(* The report in memory and the table of the README.                       *)

\* A report as Load makes it: points by replicas, none without a measurement.
Sound(q) ==
    /\ q \in Reports
    /\ ~q.measured => ToSet(q.points) = {}
    /\ \A i, j \in DOMAIN q.points : i < j => q.points[i].n <= q.points[j].n

\* Every verdict of q has a file as recent in the directory.
Backed(q) ==
    \A t \in Tests :
        q.test[t].ts = 0 \/ \E f \in files : f.kind = t /\ f.ts >= q.test[t].ts

\* What cmd/report holds and what the README shows; a report just loaded is at
\* least as recent as the table it is about to replace.
Current ==
    /\ pc \in {"loaded"} \cup Charts \cup Over
    /\ Sound(rep) /\ Backed(rep)
    /\ shown \in Reports /\ Backed(shown)
    /\ pc \notin Over => rep.sweeps # <<>>
    /\ pc = "loaded" => \A t \in Tests : rep.test[t].ts >= shown.test[t].ts

\* The seconds of a report's verdicts are numbers.
LEMMA VerdictSeconds ==
    ASSUME NEW q \in Reports, NEW t \in Tests
    PROVE  q.test[t].ts \in Nat
  <1>1. q.test[t] \in Files \cup {NoFile}
    BY DEF Reports
  <1>2. NoFile.ts = 0
    BY DEF NoFile
  <1> QED BY <1>1, <1>2 DEF Files

\* The empty report is a report like any other.
LEMMA NoReportSound == Sound(NoReport) /\ Backed(NoReport)
  <1>1. ToSet(<<>>) = {} /\ DOMAIN <<>> = {}
    BY DEF ToSet
  <1>2. \A t \in Tests : NoReport.test[t].ts = 0
    BY DEF NoReport, NoFile
  <1> QED BY <1>1, <1>2, NoReportType DEF Sound, Backed

\* What Load returns, against the table of the README before it.
LEMMA LoadCurrent ==
    ASSUME Filed, Current, Load
    PROVE  /\ Sound(rep') /\ Backed(rep') /\ rep'.sweeps # <<>>
           /\ \A f \in files : f.kind \in Tests => rep'.test[f.kind].ts >= f.ts
           /\ \A t \in Tests : rep'.test[t].ts >= shown.test[t].ts
  <1>1. ReportOf(rep', files)
    BY LoadReports DEF Load, Filed
  <1>2. Sound(rep')
    BY <1>1 DEF ReportOf, Sound
  <1>3. rep'.sweeps # <<>>
    <2>1. PICK f \in files : f.kind = "sweep"
      BY DEF Load, Loadable
    <2>2. f \in ToSet(rep'.sweeps)
      BY <1>1, <2>1 DEF ReportOf
    <2>3. ToSet(<<>>) = {}
      BY DEF ToSet
    <2> QED BY <2>2, <2>3
  <1>4. \A f \in files : f.ts \in Nat
    BY DEF Filed, Directory, Files
  <1>5. Backed(rep')
    <2>1. NoFile.ts = 0
      BY DEF NoFile
    <2> QED BY <1>1, <1>4, <2>1 DEF ReportOf, Backed
  <1>6. \A f \in files : f.kind \in Tests => rep'.test[f.kind].ts >= f.ts
    <2> SUFFICES ASSUME NEW f \in files, f.kind \in Tests
                 PROVE  rep'.test[f.kind].ts >= f.ts
      OBVIOUS
    <2>1. f.ts <= rep'.test[f.kind].ts
      BY <1>1 DEF ReportOf
    <2>2. rep'.test[f.kind].ts \in Nat
      BY <1>2, VerdictSeconds DEF Sound
    <2> QED BY <1>4, <2>1, <2>2
  <1>7. ASSUME NEW t \in Tests PROVE rep'.test[t].ts >= shown.test[t].ts
    <2>1. rep'.test[t].ts \in Nat /\ shown.test[t].ts \in Nat
      BY <1>2, VerdictSeconds DEF Sound, Current
    <2>2. CASE shown.test[t].ts = 0
      BY <2>1, <2>2
    <2>3. CASE \E f \in files : f.kind = t /\ f.ts >= shown.test[t].ts
      <3>1. PICK f \in files : f.kind = t /\ f.ts >= shown.test[t].ts
        BY <2>3
      <3>2. rep'.test[t].ts >= f.ts
        BY <1>6, <3>1
      <3> QED BY <1>4, <2>1, <3>1, <3>2
    <2> QED BY <2>2, <2>3 DEF Current, Backed
  <1> QED BY <1>2, <1>3, <1>5, <1>6, <1>7

\* The table of a report holds its sweeps and verdicts.
LEMMA Rendered ==
    ASSUME NEW q \in Reports
    PROVE  /\ RenderMarkdown(q) \in Reports
           /\ RenderMarkdown(q).sweeps = q.sweeps /\ RenderMarkdown(q).test = q.test
           /\ RenderMarkdown(q).points = IF q.blocked THEN <<>> ELSE q.points
  <1>1. <<>> \in Seq(Files)
    BY EmptySeq
  <1> QED BY <1>1 DEF RenderMarkdown, Reports

\* A verdict that has a file keeps one, whoever holds it after the step.
LEMMA BackedStays ==
    ASSUME Kept
    PROVE  /\ Backed(rep) /\ rep' = rep => Backed(rep)'
           /\ Backed(shown) /\ shown' = shown => Backed(shown)'
           /\ Backed(rep) /\ shown'.test = rep.test => Backed(shown)'
           /\ rep' = NoReport => Backed(rep)'
           /\ shown' = NoReport => Backed(shown)'
  <1>1. \A t \in Tests : NoReport.test[t].ts = 0
    BY DEF NoReport, NoFile
  <1> QED BY <1>1 DEF Backed, Kept

\* Every step keeps the report and the table current.
LEMMA CurrentStep == Filed /\ Current /\ [Next]_vars => Current'
  <1> SUFFICES ASSUME Filed, Current, [Next]_vars PROVE Current'
    OBVIOUS
  <1>0. Kept /\ rep \in Reports /\ shown \in Reports
    BY FiledStep DEF Current, Sound
  <1>1. CASE Load
    <2>1. files' = files /\ shown' = shown /\ pc' = "loaded"
      BY <1>1 DEF Load
    <2>2. /\ Sound(rep') /\ Backed(rep') /\ rep'.sweeps # <<>>
          /\ \A t \in Tests : rep'.test[t].ts >= shown.test[t].ts
      BY <1>1, LoadCurrent
    <2> QED BY <2>1, <2>2 DEF Current, Backed, Over, Sound
  <1>2. CASE UpdateReadme
    <2>1. pc = "loaded" /\ pc' = "concurrency" /\ rep' = rep /\ shown' = RenderMarkdown(rep)
      BY <1>2 DEF UpdateReadme, Goes, Over
    <2> QED BY <1>0, <2>1, BackedStays, Rendered DEF Current, Over, Charts, Sound
  <1>3. CASE UpdateTorn
    <2>1. /\ pc = "loaded" /\ pc' = "killed" /\ rep' = NoReport
          /\ shown' = RenderMarkdown(rep) \/ shown' = NoReport
      BY <1>3 DEF UpdateTorn, Goes, Over
    <2>2. shown' \in Reports /\ Backed(shown)'
      BY <1>0, <2>1, BackedStays, Rendered, NoReportType DEF Current
    <2>3. Sound(rep') /\ Backed(rep)'
      BY <1>0, <2>1, BackedStays, NoReportSound DEF Sound
    <2> QED BY <2>1, <2>2, <2>3 DEF Current, Over, Sound
  <1>4. CASE LoadFails \/ UpdateRefused \/ Killed \/ \E c \in Charts : DrawPanics(c)
    <2>1. pc' \in Over /\ rep' = NoReport /\ shown' = shown
      BY <1>4 DEF LoadFails, UpdateRefused, Killed, DrawPanics, Goes, Over
    <2>2. Sound(rep') /\ Backed(rep)' /\ Backed(shown)'
      BY <1>0, <2>1, BackedStays, NoReportSound DEF Current, Sound
    <2> QED BY <1>0, <2>1, <2>2 DEF Current, Over, Sound
  <1>5. CASE \E c \in Charts : Draw(c)
    <2>1. PICK c \in Charts : Draw(c)
      BY <1>5
    <2>2. /\ pc = c /\ pc' = AfterChart[c] /\ shown' = shown
          /\ rep' = IF pc' \in Over THEN NoReport ELSE rep
      BY <2>1 DEF Draw, Goes
    <2>3. pc' \in Charts \cup Over
      BY <2>2 DEF AfterChart, Charts, Over
    <2>4. Sound(rep') /\ Backed(rep)' /\ Backed(shown)'
      BY <1>0, <2>2, BackedStays, NoReportSound DEF Current, Sound
    <2>5. pc' \notin Over => rep'.sweeps # <<>>
      BY <2>2 DEF Current, Charts, Over
    <2>6. pc' # "loaded"
      BY <2>3 DEF Charts, Over
    <2> QED BY <1>0, <2>2, <2>3, <2>4, <2>5, <2>6 DEF Current, Sound
  <1>6. CASE Measure \/ MeasureTorn \/ UNCHANGED vars
    <2>1. UNCHANGED <<pc, rep, shown>>
      BY <1>6 DEF Measure, MeasureTorn, WriteJSON, vars
    <2> QED BY <1>0, <2>1, BackedStays DEF Current, Sound
  <1> QED BY <1>1, <1>2, <1>3, <1>4, <1>5, <1>6 DEF Next

\* Directory, report and table are right throughout.
LEMMA CurrentHolds == Spec => [](Filed /\ Current)
  <1>1. Init => Filed
    BY ReportAssumption, FS_EmptySet DEF Init, Filed, Directory
  <1>2. Init => Current
    BY NoReportSound, NoReportType DEF Init, Current, Over, Backed
  <1> QED BY <1>1, <1>2, FiledStep, CurrentStep, PTL DEF Spec

\* Load keeps the latest verdict of each test, and the README never goes back
\* to an older one, whatever is measured, torn, killed or overwritten.
THEOREM VerdictsNeverGoBack == Spec => VerdictsCurrent
  <1> DEFINE A == /\ pc \in Over /\ pc' = "loaded" =>
                         \A f \in files : f.kind \in Tests => rep'.test[f.kind].ts >= f.ts
                  /\ HasMarkers(readme') =>
                         \A t \in Tests : shown'.test[t].ts >= shown.test[t].ts
  <1>1. Filed /\ Current /\ [Next]_vars => [A]_vars
    <2> SUFFICES ASSUME Filed, Current, [Next]_vars PROVE A \/ UNCHANGED vars
      OBVIOUS
    <2>0. \A t \in Tests : rep.test[t].ts \in Nat /\ shown.test[t].ts \in Nat
      BY VerdictSeconds DEF Current, Sound
    <2>1. CASE Load
      BY <2>0, <2>1, LoadCurrent DEF Load
    <2>2. CASE UpdateReadme \/ UpdateTorn
      <3>1. /\ pc = "loaded" /\ pc' # "loaded"
            /\ HasMarkers(readme') => shown' = RenderMarkdown(rep)
        BY <2>2 DEF UpdateReadme, UpdateTorn, Goes
      <3> QED BY <3>1, Rendered DEF Current, Sound, Over
    <2>3. CASE ~Load /\ ~UpdateReadme /\ ~UpdateTorn
      <3>1. shown' = shown
        BY <2>3 DEF Next, Measure, MeasureTorn, WriteJSON, LoadFails, UpdateRefused, Draw,
           DrawPanics, Killed, vars
      <3>2. pc' = "loaded" => pc = "loaded"
        <4>1. \A c \in Charts : AfterChart[c] # "loaded"
          BY DEF AfterChart, Charts
        <4> QED
          BY <2>3, <4>1 DEF Next, Measure, MeasureTorn, WriteJSON, LoadFails, UpdateRefused,
             Draw, DrawPanics, Killed, vars, Goes
      <3> QED BY <2>0, <3>1, <3>2 DEF Over
    <2> QED BY <2>1, <2>2, <2>3
  <1> QED BY <1>1, CurrentHolds, PTL DEF Spec, VerdictsCurrent

----------------------------------------------------------------------------
(* The charts.                                                             *)

\* The README stays a sequence of tokens, the outcomes stay outcomes.
Typed ==
    /\ readme \in Seq(Tokens)
    /\ outcome \in [Charts -> {"none", "written", "skipped", "failed"}]
    /\ DOMAIN chart = Charts

\* Every step keeps README and outcomes in their types.
LEMMA TypedStep == Typed /\ [Next]_vars => Typed'
  <1> SUFFICES ASSUME Typed, [Next]_vars PROVE Typed'
    OBVIOUS
  <1>1. readme' \in Seq(Tokens)
    BY InTokensStep DEF Typed, InTokens
  <1>2. CASE Load
    BY <1>1, <1>2 DEF Load, Typed
  <1>3. CASE \E c \in Charts : Draw(c) \/ DrawPanics(c)
    <2>1. PICK c \in Charts : Draw(c) \/ DrawPanics(c)
      BY <1>3
    <2>2. /\ DOMAIN chart' = Charts
          /\ outcome' \in [Charts -> {"none", "written", "skipped", "failed"}]
      BY <2>1 DEF Typed, Draw, DrawPanics, ChartWritten, ChartSkipped, ChartFails, Truncated
    <2> QED BY <1>1, <2>2 DEF Typed
  <1>4. CASE ~Load /\ ~(\E c \in Charts : Draw(c) \/ DrawPanics(c))
    <2>1. UNCHANGED <<chart, outcome>>
      BY <1>4 DEF Next, Measure, MeasureTorn, WriteJSON, LoadFails, UpdateReadme,
         UpdateRefused, UpdateTorn, Killed, vars
    <2> QED BY <1>1, <2>1 DEF Typed
  <1> QED BY <1>2, <1>3, <1>4

\* The types hold throughout: one file to a name, and every report has a sweep.
THEOREM ReportTypeCorrect == Spec => []TypeOK
  <1>1. Init => Typed
    BY ReportAssumption DEF Init, Typed
  <1>2. Filed /\ Current /\ Typed => TypeOK
    BY DEF Filed, Directory, Files, Current, Typed, TypeOK
  <1> QED BY <1>1, <1>2, CurrentHolds, TypedStep, PTL DEF Spec

----------------------------------------------------------------------------
(* The headlines.                                                          *)

\* The loop of Headlines on one sweep.
Higher(best, s, infra) == IF s.real \in infra /\ s.value > best.value THEN s ELSE best

\* The recursive function that Peak applies to the first k sweeps.
FoldsSweeps(g, s, infra, k) ==
    g = [S \in SUBSET (1..k) |->
            IF S = {} THEN NoFile ELSE Higher(g[S \ {Max(S)}], s[Max(S)], infra)]

\* It exists, as the one of Load does.
LEMMA PeakExists ==
    ASSUME NEW s, NEW infra, NEW n \in Nat
    PROVE  \E g : FoldsSweeps(g, s, infra, n)
  <1> DEFINE G == {k \in 0..n : \E g : FoldsSweeps(g, s, infra, k)}
  <1>1. 0 \in G
    <2> DEFINE g == [S \in SUBSET (1..0) |-> NoFile]
    <2>1. \A S \in SUBSET (1..0) : S = {}
      OBVIOUS
    <2>2. FoldsSweeps(g, s, infra, 0)
      BY <2>1 DEF FoldsSweeps
    <2> QED BY <2>2
  <1>2. \A k \in 1..n : k-1 \in G => k \in G
    <2> SUFFICES ASSUME NEW k \in 1..n, k-1 \in G PROVE k \in G
      OBVIOUS
    <2>1. PICK h : FoldsSweeps(h, s, infra, k-1)
      OBVIOUS
    <2> DEFINE g == [S \in SUBSET (1..k) |->
                        IF S = {} THEN NoFile ELSE Higher(h[S \ {Max(S)}], s[Max(S)], infra)]
    <2>2. \A S \in SUBSET (1..k-1) : g[S] = h[S]
      <3>1. \A S \in SUBSET (1..k-1) : S \in SUBSET (1..k)
        OBVIOUS
      <3>2. \A S \in SUBSET (1..k-1) :
               h[S] = IF S = {} THEN NoFile ELSE Higher(h[S \ {Max(S)}], s[Max(S)], infra)
        BY <2>1 DEF FoldsSweeps
      <3> QED BY <3>1, <3>2
    <2>3. \A S \in SUBSET (1..k) : S # {} => g[S \ {Max(S)}] = h[S \ {Max(S)}]
      <3> HIDE DEF g
      <3> QED BY <2>2, MaxOfPlaces
    <2>4. \A S \in SUBSET (1..k) :
             g[S] = IF S = {} THEN NoFile ELSE Higher(g[S \ {Max(S)}], s[Max(S)], infra)
      BY <2>3
    <2>5. FoldsSweeps(g, s, infra, k)
      <3>1. g = [S \in SUBSET (1..k) |-> g[S]]
        OBVIOUS
      <3> HIDE DEF g
      <3> QED BY <2>4, <3>1 DEF FoldsSweeps
    <2> QED BY <2>5
  <1> HIDE DEF G
  <1>3. n \in G
    BY <1>1, <1>2, UpTo
  <1> QED BY <1>3 DEF G

\* Peak returns NoFile or one of the sweeps it is asked about, and none of them
\* has a higher throughput.
LEMMA PeakIsHighest ==
    ASSUME NEW s \in Seq(Files), NEW infra
    PROVE  /\ Peak(s, infra).value \in Nat
           /\ \/ Peak(s, infra) = NoFile
              \/ Peak(s, infra) \in ToSet(s) /\ Peak(s, infra).real \in infra
           /\ \A f \in ToSet(s) : f.real \in infra => f.value <= Peak(s, infra).value
  <1>1. Len(s) \in Nat /\ DOMAIN s = 1..Len(s) /\ \A i \in 1..Len(s) : s[i] \in Files
    BY LenProperties, ElementOfSeq
  <1> DEFINE g == CHOOSE h : FoldsSweeps(h, s, infra, Len(s))
  <1>2. FoldsSweeps(g, s, infra, Len(s))
    BY <1>1, PeakExists
  <1>3. Peak(s, infra) = g[1..Len(s)]
    BY <1>1 DEF Peak, FoldLeft, MapThenFoldSet, FoldsSweeps, Higher
  <1> HIDE DEF g
  <1>4. g[1..0] = NoFile
    <2>1. {} \in SUBSET (1..Len(s)) /\ 1..0 = {}
      OBVIOUS
    <2>2. g[{}] = NoFile
      BY <1>2, <2>1 DEF FoldsSweeps
    <2> QED BY <2>1, <2>2
  <1>5. \A k \in 1..Len(s) : g[1..k] = Higher(g[1..k-1], s[k], infra)
    <2> SUFFICES ASSUME NEW k \in 1..Len(s)
                 PROVE  g[1..k] = Higher(g[1..k-1], s[k], infra)
      OBVIOUS
    <2>1. Max(1..k) = k
      BY DEF Max
    <2>2. (1..k) \ {k} = 1..k-1 /\ 1..k # {} /\ 1..k \in SUBSET (1..Len(s))
      <3>1. k \in Nat /\ 1 <= k /\ k <= Len(s)
        BY <1>1
      <3>2. (1..k) \ {k} = 1..k-1
        BY <3>1
      <3>3. k \in 1..k /\ \A i \in 1..k : i \in 1..Len(s)
        BY <1>1, <3>1
      <3> QED BY <3>2, <3>3
    <2>3. g[1..k] = Higher(g[(1..k) \ {Max(1..k)}], s[Max(1..k)], infra)
      BY <1>2, <2>2 DEF FoldsSweeps
    <2> QED BY <2>1, <2>2, <2>3
  <1> DEFINE P(k) == /\ g[1..k].value \in Nat
                     /\ \/ g[1..k] = NoFile
                        \/ \E i \in 1..k : g[1..k] = s[i] /\ s[i].real \in infra
                     /\ \A i \in 1..k : s[i].real \in infra => s[i].value <= g[1..k].value
             G == {k \in 0..Len(s) : P(k)}
  <1>6. 0 \in G
    BY <1>1, <1>4 DEF NoFile
  <1>7. ASSUME NEW k \in 1..Len(s), k-1 \in G PROVE k \in G
    <2>1. P(k-1)
      BY <1>7
    <2>2. s[k] \in Files /\ s[k].value \in Nat /\ k \in 1..k /\ k \in 0..Len(s)
      BY <1>1 DEF Files
    <2>3. \A i \in 1..k : i \in 1..k-1 \/ i = k
      BY <1>1
    <2>4. \A i \in 1..k-1 : i \in 1..k /\ s[i].value \in Nat
      BY <1>1 DEF Files
    <2>5. g[1..k] = IF s[k].real \in infra /\ s[k].value > g[1..k-1].value
                    THEN s[k] ELSE g[1..k-1]
      BY <1>5 DEF Higher
    <2>6. P(k)
      <3>1. CASE s[k].real \in infra /\ s[k].value > g[1..k-1].value
        <4>1. g[1..k] = s[k]
          BY <2>5, <3>1
        <4>2. \A i \in 1..k : s[i].real \in infra => s[i].value <= s[k].value
          BY <2>1, <2>2, <2>3, <2>4, <3>1
        <4> QED BY <2>2, <3>1, <4>1, <4>2
      <3>2. CASE ~(s[k].real \in infra /\ s[k].value > g[1..k-1].value)
        <4>1. g[1..k] = g[1..k-1]
          BY <2>5, <3>2
        <4>2. \A i \in 1..k : s[i].real \in infra => s[i].value <= g[1..k-1].value
          BY <2>1, <2>2, <2>3, <3>2
        <4> QED BY <2>1, <2>4, <4>1, <4>2
      <3> QED BY <3>1, <3>2
    <2> QED BY <2>2, <2>6
  <1>8. P(Len(s))
    <2> HIDE DEF P
    <2>1. 0 \in G /\ \A k \in 1..Len(s) : k-1 \in G => k \in G
      BY <1>6, <1>7
    <2> HIDE DEF G
    <2>2. \A k \in 0..Len(s) : k \in G
      BY <1>1, <2>1, UpTo
    <2>3. Len(s) \in 0..Len(s)
      BY <1>1
    <2>4. Len(s) \in G
      BY <2>2, <2>3
    <2> QED BY <2>4 DEF G
  <1> QED BY <1>1, <1>3, <1>8 DEF ToSet

\* The first and the last point are those of the fewest and the most replicas.
LEMMA Extremes ==
    ASSUME NEW q, Sound(q), Len(q.points) >= 2
    PROVE  LET replicas == {p.n : p \in ToSet(q.points)}
           IN  q.points[1].n = Min(replicas) /\ q.points[Len(q.points)].n = Max(replicas)
  <1> DEFINE s == q.points
             R == {p.n : p \in ToSet(s)}
             l == Len(s)
  <1>1. s \in Seq(Files)
    BY DEF Sound, Reports
  <1>2. l \in Nat /\ DOMAIN s = 1..l /\ \A i \in 1..l : s[i] \in Files /\ s[i].n \in Nat
    <2> HIDE DEF s
    <2>1. Len(s) \in Nat /\ DOMAIN s = 1..Len(s)
      BY <1>1, LenProperties
    <2>2. \A i \in 1..Len(s) : s[i] \in Files
      BY <1>1, ElementOfSeq
    <2>3. \A f \in Files : f.n \in Nat
      BY DEF Files
    <2> QED BY <2>1, <2>2, <2>3
  <1>3. 1 \in 1..l /\ l \in 1..l
    BY <1>2
  <1>4. \A i, j \in 1..l : i < j => s[i].n <= s[j].n
    BY <1>2 DEF Sound
  <1>5. R = {s[i].n : i \in 1..l}
    BY <1>2 DEF ToSet
  <1> HIDE DEF s, l, R
  <1>6. R \subseteq Nat /\ s[1].n \in R /\ s[l].n \in R
    BY <1>2, <1>3, <1>5
  <1>7. \A x \in R : s[1].n <= x /\ x <= s[l].n
    <2> SUFFICES ASSUME NEW i \in 1..l PROVE s[1].n <= s[i].n /\ s[i].n <= s[l].n
      BY <1>5
    <2>1. i = 1 \/ 1 < i
      BY <1>2
    <2>2. i = l \/ i < l
      BY <1>2
    <2> QED BY <1>2, <1>3, <1>4, <2>1, <2>2
  <1>8. Min(R) \in R /\ \A y \in R : Min(R) <= y
    BY <1>6, <1>7 DEF Min
  <1>9. Max(R) \in R /\ \A y \in R : Max(R) >= y
    <2>1. \A y \in R : s[l].n >= y
      BY <1>6, <1>7
    <2> QED BY <1>6, <2>1 DEF Max
  <1>10. s[1].n = Min(R) /\ s[l].n = Max(R)
    <2>1. Min(R) \in Nat /\ Max(R) \in Nat /\ s[1].n \in Nat /\ s[l].n \in Nat
      BY <1>6, <1>8, <1>9
    <2>2. Min(R) <= s[1].n /\ s[1].n <= Min(R)
      BY <1>6, <1>7, <1>8
    <2>3. Max(R) >= s[l].n /\ Max(R) <= s[l].n
      BY <1>6, <1>7, <1>9
    <2> QED BY <2>1, <2>2, <2>3
  <1> QED BY <1>10 DEF s, l, R

\* The headline numbers are those of the table, however many sweeps and points
\* there are and in whatever order sort.Slice leaves equal ones.
THEOREM HeadlinesAreHonest == Spec => []HeadlinesHonest
  <1>1. Sound(rep) => HeadlinesHonest
    <2> SUFFICES ASSUME Sound(rep) PROVE HeadlinesHonest
      OBVIOUS
    <2> DEFINE h == Headlines(rep)
               t == RenderMarkdown(rep)
               replicas == {p.n : p \in ToSet(t.points)}
    <2>1. /\ rep \in Reports /\ rep.sweeps \in Seq(Files) /\ t.sweeps = rep.sweeps
          /\ t.points = IF rep.blocked THEN <<>> ELSE rep.points
      BY Rendered DEF Sound, Reports
    <2>2. h.peak = Peak(rep.sweeps, BOOLEAN) /\ h.realPeak = Peak(rep.sweeps, RealInfra)
      BY DEF Headlines
    <2>3. ASSUME NEW s \in ToSet(t.sweeps)
          PROVE  s.value <= h.peak.value /\ (s.real => s.value <= h.realPeak.value)
      <3>1. s \in Files /\ s.real \in BOOLEAN
        <4>1. ToSet(rep.sweeps) \subseteq Files
          BY <2>1, Elements
        <4>2. s \in ToSet(rep.sweeps)
          BY <2>1, <2>3
        <4> QED BY <4>1, <4>2 DEF Files
      <3>2. s.real => s.real \in RealInfra
        BY <3>1 DEF RealInfra
      <3> QED BY <2>1, <2>2, <2>3, <3>1, <3>2, PeakIsHighest
    <2>4. h.realPeak # NoFile => h.realPeak.real /\ h.realPeak \in ToSet(t.sweeps)
      <3>1. ASSUME NEW x, x \in RealInfra PROVE x
        BY <3>1 DEF RealInfra
      <3> QED BY <2>1, <2>2, <3>1, PeakIsHighest
    <2>5. h.scaling # {} =>
              /\ h.scaling = {Min(replicas), Max(replicas)}
              /\ \E p \in ToSet(t.points) : p.n = Min(replicas) /\ p.value > 0
      <3> SUFFICES ASSUME h.scaling # {}
                   PROVE  /\ h.scaling = {Min(replicas), Max(replicas)}
                          /\ \E p \in ToSet(t.points) : p.n = Min(replicas) /\ p.value > 0
        OBVIOUS
      <3>1. /\ ~rep.blocked /\ Len(rep.points) >= 2 /\ rep.points[1].value > 0
            /\ h.scaling = {rep.points[1].n, rep.points[Len(rep.points)].n}
        BY DEF Headlines, Compares
      <3>2. t.points = rep.points
        BY <2>1, <3>1
      <3>3. /\ rep.points[1].n = Min(replicas)
            /\ rep.points[Len(rep.points)].n = Max(replicas)
        BY <3>1, <3>2, Extremes
      <3>4. rep.points[1] \in ToSet(t.points)
        <4> DEFINE s == rep.points
        <4>1. s \in Seq(Files)
          BY DEF Sound, Reports
        <4> HIDE DEF s
        <4>2. Len(s) \in Nat /\ DOMAIN s = 1..Len(s)
          BY <4>1, LenProperties
        <4>3. Len(s) >= 2
          BY <3>1 DEF s
        <4>4. s[1] \in ToSet(s)
          BY <4>2, <4>3 DEF ToSet
        <4> QED BY <3>2, <4>4 DEF s
      <3> QED BY <3>1, <3>3, <3>4
    <2> QED BY <2>3, <2>4, <2>5 DEF HeadlinesHonest
  <1>2. Current => Sound(rep)
    BY DEF Current
  <1> QED BY <1>1, <1>2, CurrentHolds, PTL
=============================================================================
