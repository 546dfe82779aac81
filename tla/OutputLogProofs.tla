--------------------------- MODULE OutputLogProofs ---------------------------
(***************************************************************************)
(* The scrollback and the polls of OutputLog are exact for any output, cut *)
(* into any chunks, and any limits.                                        *)
(*                                                                         *)
(* Folds over sequences are reasoned about by least numbers: a set of      *)
(* naturals that is closed under successor is all of Nat (NaturalInduction,*)
(* from the well-foundedness of <), which gives every fold of the model    *)
(* its partial results (FoldExists).                                       *)
(***************************************************************************)
EXTENDS OutputLog, SequenceTheorems, WellFoundedInduction, TLAPS

-----------------------------------------------------------------------------
(* Least numbers *)

\* A set of natural numbers has a least element.
LEMMA LeastNatural ==
    ASSUME NEW T, T \subseteq Nat, T # {}
    PROVE  \E m \in T : \A k \in T : m <= k
<1> DEFINE R == OpToRel(<, Nat)
<1>1. IsWellFoundedOn(R, Nat)
    BY NatLessThanWellFounded
<1> HIDE DEF R
<1>2. PICK m \in T : \A k \in T : <<k, m>> \notin R
    BY <1>1, WFMin
<1>3. ASSUME NEW k \in T PROVE m <= k
    <2>1. m \in Nat /\ k \in Nat /\ <<k, m>> \notin R
        BY <1>2
    <2>2. k < m => <<k, m>> \in R
        BY <2>1 DEF R, OpToRel
    <2> QED
        BY <2>1, <2>2
<1> QED
    BY <1>2, <1>3

\* Induction, on a set of numbers.
LEMMA NaturalInduction ==
    ASSUME NEW T, T \subseteq Nat, 0 \in T, \A n \in T : n + 1 \in T
    PROVE  T = Nat
<1>1. SUFFICES ASSUME Nat \ T # {} PROVE FALSE
    OBVIOUS
<1>2. PICK m \in Nat \ T : \A k \in Nat \ T : m <= k
    BY <1>1, LeastNatural
<1>3. m # 0 /\ m - 1 \in Nat /\ ~(m <= m - 1)
    BY <1>2
<1>4. m - 1 \in T
    BY <1>2, <1>3
<1>5. (m - 1) + 1 \in T
    BY <1>4
<1> QED
    BY <1>2, <1>5

LEMMA MinIsLeast ==
    ASSUME NEW T, T \subseteq Nat, T # {}
    PROVE  Min(T) \in T /\ \A k \in T : Min(T) <= k
BY LeastNatural DEF Min

LEMMA MaxIsGreatest ==
    ASSUME NEW n \in Nat, NEW T, T \subseteq 0..n, T # {}
    PROVE  Max(T) \in T /\ \A k \in T : k <= Max(T)
<1> DEFINE D == {n - k : k \in T}
<1>1. D \subseteq Nat /\ D # {}
    OBVIOUS
<1>2. PICK d \in D : \A e \in D : d <= e
    BY <1>1, LeastNatural
<1>3. PICK m \in T : d = n - m
    BY <1>2
<1>4. ASSUME NEW k \in T PROVE m >= k
    <2>1. n - k \in D
        OBVIOUS
    <2>2. d <= n - k
        BY <1>2, <2>1
    <2>3. m \in Int /\ k \in Int
        OBVIOUS
    <2> QED
        BY <1>3, <2>2, <2>3
<1>5. \E x \in T : \A y \in T : x >= y
    BY <1>4
<1>6. Max(T) \in T /\ \A y \in T : Max(T) >= y
    BY <1>5 DEF Max
<1>7. \A y \in T : y \in Int /\ Max(T) \in Int
    BY <1>6
<1> QED
    BY <1>6, <1>7

-----------------------------------------------------------------------------
(* Folds *)

\* The steps of a fold over N elements with values in V.
Steps(V, N) == [V \X (1..N) -> V]

\* g is the function FoldLeft recurs on: it takes the greatest index off a set.
IsFold(g, V, base, N, F) ==
    /\ g \in [SUBSET (1..N) -> V]
    /\ \A t \in SUBSET (1..N) :
          g[t] = IF t = {} THEN base ELSE F[<<g[t \ {Max(t)}], Max(t)>>]

\* h does so as long as its values are in V.
Recurs(h, V, base, N, F) ==
    /\ h[{}] = base
    /\ \A t \in SUBSET (1..N) :
          t # {} /\ h[t \ {Max(t)}] \in V => h[t] = F[<<h[t \ {Max(t)}], Max(t)>>]

\* The partial results of the fold, from left to right.
Partials(p, V, base, N, F) ==
    /\ p \in [0..N -> V]
    /\ p[0] = base
    /\ \A n \in 1..N : p[n] = F[<<p[n - 1], n>>]

\* The function FoldLeft recurs on exists, whatever the step of the fold.
LEMMA FoldExists ==
    ASSUME NEW V, NEW base \in V, NEW N \in Nat, NEW F \in Steps(V, N)
    PROVE  \E g : IsFold(g, V, base, N, F)
<1> DEFINE Fold(g, k) == IsFold(g, V, base, k, F)
           T == {k \in Nat : k <= N => \E g : Fold(g, k)}
<1>1. 0 \in T
    <2> DEFINE g == [t \in SUBSET (1..0) |-> base]
    <2>1. \A t \in SUBSET (1..0) : t = {}
        <3>1. 1..0 = {}
            OBVIOUS
        <3> QED
            BY <3>1
    <2>2. Fold(g, 0)
        BY <2>1 DEF IsFold
    <2> QED
        BY <2>2
<1>2. ASSUME NEW k \in T PROVE k + 1 \in T
    <2>1. SUFFICES ASSUME k + 1 <= N PROVE \E h : Fold(h, k + 1)
        <3> HIDE DEF Fold
        <3> QED
            OBVIOUS
    <2>2. PICK g : Fold(g, k)
        <3> HIDE DEF Fold
        <3> QED
            BY <2>1
    <2>0. k \in Nat
        OBVIOUS
    <2> DEFINE last == k + 1
               h == [t \in SUBSET (1..last) |->
                        IF last \in t THEN F[<<g[t \ {last}], last>>] ELSE g[t]]
    <2>3. ASSUME NEW t \in SUBSET (1..last), last \in t
          PROVE  /\ Max(t) = last /\ t # {}
                 /\ t \ {last} \in SUBSET (1..k) /\ h[t \ {last}] = g[t \ {last}]
                 /\ h[t] = F[<<g[t \ {last}], last>>] /\ h[t] \in V
        <3>1. Max(t) \in t /\ \A y \in t : y <= Max(t)
            <4>1. t \subseteq 0..last /\ last \in Nat /\ t # {}
                BY <2>0, <2>3
            <4> QED
                BY <4>1, MaxIsGreatest
        <3>2. Max(t) = last
            <4>1. Max(t) \in 1..last /\ last <= Max(t)
                BY <2>3, <3>1
            <4> QED
                BY <2>0, <4>1
        <3>3. t \ {last} \in SUBSET (1..k)
            OBVIOUS
        <3>4. t \ {last} \in SUBSET (1..last) /\ last \notin t \ {last}
            OBVIOUS
        <3>5. g[t \ {last}] \in V
            BY <2>2, <3>3 DEF IsFold
        <3>6. last \in 1..N
            BY <2>1
        <3> QED
            BY <2>3, <3>2, <3>3, <3>4, <3>5, <3>6 DEF Steps
    <2>4. ASSUME NEW t \in SUBSET (1..last), last \notin t
          PROVE  /\ t \in SUBSET (1..k) /\ h[t] = g[t] /\ h[t] \in V
                 /\ t # {} => /\ Max(t) \in 1..k
                              /\ t \ {Max(t)} \in SUBSET (1..last)
                              /\ h[t \ {Max(t)}] = g[t \ {Max(t)}]
        <3>1. t \in SUBSET (1..k)
            BY <2>4
        <3>2. t # {} => Max(t) \in t
            <4>1. t \subseteq 0..k
                BY <2>0, <3>1
            <4> QED
                BY <2>0, <4>1, MaxIsGreatest
        <3> QED
            BY <2>2, <2>4, <3>1, <3>2 DEF IsFold
    <2>5. h \in [SUBSET (1..last) -> V]
        BY <2>3, <2>4
    <2>6. ASSUME NEW t \in SUBSET (1..last)
          PROVE  h[t] = IF t = {} THEN base ELSE F[<<h[t \ {Max(t)}], Max(t)>>]
        <3> HIDE DEF h
        <3>1. CASE last \in t
            BY <2>3, <3>1
        <3>2. CASE last \notin t
            BY <2>2, <2>4, <3>2 DEF IsFold
        <3> QED
            BY <3>1, <3>2
    <2> QED
        BY <2>5, <2>6 DEF IsFold
<1>3. T = Nat
    <2> HIDE DEF T
    <2>1. T \subseteq Nat
        BY DEF T
    <2> QED
        BY <1>1, <1>2, <2>1, NaturalInduction
<1>4. PICK g : Fold(g, N)
    <2> HIDE DEF Fold
    <2> QED
        BY <1>3
<1> QED
    BY <1>4

\* A function that recurs like FoldLeft goes through the partial results of the
\* fold, from left to right.
LEMMA FoldPartials ==
    ASSUME NEW V, NEW base \in V, NEW N \in Nat, NEW F \in Steps(V, N),
           NEW h, Recurs(h, V, base, N, F)
    PROVE  \E p : Partials(p, V, base, N, F) /\ p[N] = h[1..N]
<1> DEFINE p == [n \in 0..N |-> h[1..n]]
<1>1. ASSUME NEW n \in 1..N, h[1..(n - 1)] \in V
      PROVE  h[1..n] = F[<<h[1..(n - 1)], n>>] /\ h[1..n] \in V
    <2> DEFINE t == 1..n
    <2>1. t \in SUBSET (1..N) /\ t # {} /\ t \subseteq 0..n /\ n \in t /\ n \in Nat
        OBVIOUS
    <2>2. Max(t) \in t /\ \A k \in t : k <= Max(t)
        BY <2>1, MaxIsGreatest
    <2>3. Max(t) = n
        <3>1. Max(t) <= n /\ n <= Max(t) /\ Max(t) \in Int
            BY <2>1, <2>2
        <3> QED
            BY <3>1
    <2>4. t \ {n} = 1..(n - 1)
        OBVIOUS
    <2> HIDE DEF t
    <2>5. h[t] = F[<<h[1..(n - 1)], n>>]
        BY <1>1, <2>1, <2>3, <2>4 DEF Recurs
    <2> QED
        BY <1>1, <2>5 DEF t, Steps
<1>2. h[1..0] = base
    <2>1. 1..0 = {}
        OBVIOUS
    <2> QED
        BY <2>1 DEF Recurs
<1> DEFINE T == {n \in Nat : n <= N => h[1..n] \in V}
<1>3. T = Nat
    <2>1. 0 \in T
        BY <1>2
    <2>2. ASSUME NEW n \in T PROVE n + 1 \in T
        <3>1. SUFFICES ASSUME n + 1 <= N PROVE h[1..(n + 1)] \in V
            OBVIOUS
        <3> DEFINE m == n + 1
        <3>2. m \in 1..N /\ m - 1 = n /\ h[1..n] \in V
            BY <3>1
        <3> HIDE DEF m
        <3>3. h[1..m] \in V
            BY <1>1, <3>2
        <3> QED
            BY <3>3 DEF m
    <2>3. T \subseteq Nat
        OBVIOUS
    <2> HIDE DEF T
    <2> QED
        BY <2>1, <2>2, <2>3, NaturalInduction
<1>4. ASSUME NEW n \in 0..N PROVE h[1..n] \in V
    BY <1>3
<1>5. p \in [0..N -> V] /\ p[0] = base /\ p[N] = h[1..N]
    BY <1>2, <1>4
<1>6. ASSUME NEW n \in 1..N PROVE p[n] = F[<<p[n - 1], n>>]
    <2>1. n \in 0..N /\ n - 1 \in 0..N
        OBVIOUS
    <2>2. p[n] = h[1..n] /\ p[n - 1] = h[1..(n - 1)]
        BY <2>1
    <2> HIDE DEF p
    <2> QED
        BY <1>1, <1>4, <2>1, <2>2
<1> QED
    BY <1>5, <1>6 DEF Partials

\* Bytes adds the sizes of the pieces one by one.
LEMMA BytesSums ==
    ASSUME NEW S, \A x \in S : Size(x) \in Nat, NEW s \in Seq(S)
    PROVE  \E p \in [0..Len(s) -> Nat] :
              /\ p[0] = 0
              /\ \A n \in 1..Len(s) : p[n] = p[n - 1] + Size(s[n])
              /\ p[Len(s)] = Bytes(s)
<1> DEFINE N == Len(s)
           base == 0
           F == [x \in Nat \X (1..N) |-> x[1] + Size(s[x[2]])]
           Eq(h) == h = [t \in SUBSET DOMAIN s |->
                           IF t = {} THEN base ELSE h[t \ {Max(t)}] + Size(s[Max(t)])]
           iter == CHOOSE h : Eq(h)
<1>1. N \in Nat /\ DOMAIN s = 1..N /\ base \in Nat /\ \A n \in 1..N : Size(s[n]) \in Nat
    OBVIOUS
<1>2. Bytes(s) = iter[1..N]
    BY <1>1 DEF Bytes, FoldLeft, MapThenFoldSet
<1>3. F \in Steps(Nat, N)
    BY <1>1 DEF Steps
<1>4. \A m \in Nat, n \in 1..N : F[<<m, n>>] = m + Size(s[n])
    OBVIOUS
<1> HIDE DEF F, N, base
<1>5. ASSUME NEW t \in SUBSET (1..N), t # {} PROVE Max(t) \in 1..N /\ t \ {Max(t)} \in SUBSET (1..N)
    <2>1. t \subseteq 0..N
        BY <1>1
    <2> QED
        BY <1>1, <1>5, <2>1, MaxIsGreatest
<1>6. PICK g : IsFold(g, Nat, base, N, F)
    BY <1>1, <1>3, FoldExists
<1>7. Eq(g)
    <2>1. ASSUME NEW t \in SUBSET (1..N)
          PROVE  g[t] = IF t = {} THEN base ELSE g[t \ {Max(t)}] + Size(s[Max(t)])
        BY <1>4, <1>5, <1>6 DEF IsFold
    <2> QED
        BY <1>1, <1>6, <2>1 DEF IsFold
<1>8. Eq(iter)
    <2> HIDE DEF Eq
    <2> QED
        BY <1>7
<1> HIDE DEF iter
<1>9. ASSUME NEW t \in SUBSET (1..N)
      PROVE  iter[t] = IF t = {} THEN base ELSE iter[t \ {Max(t)}] + Size(s[Max(t)])
    BY <1>1, <1>8
<1>10. Recurs(iter, Nat, base, N, F)
    BY <1>4, <1>5, <1>9 DEF Recurs
<1>11. PICK p : Partials(p, Nat, base, N, F) /\ p[N] = iter[1..N]
    BY <1>1, <1>3, <1>10, FoldPartials
<1>12. p \in [0..N -> Nat] /\ p[0] = base
    BY <1>11 DEF Partials
<1>13. ASSUME NEW n \in 1..N PROVE p[n] = p[n - 1] + Size(s[n])
    <2>1. n - 1 \in 0..N
        BY <1>1
    <2> QED
        BY <1>4, <1>11, <1>12, <2>1 DEF Partials
<1> QED
    BY <1>2, <1>11, <1>12, <1>13 DEF N, base

-----------------------------------------------------------------------------
(* Bytes *)

\* Two sums have the same start and the same terms.
SameTerms(p, q, N) ==
    /\ \A n \in 0..N : p[n] \in Int /\ q[n] \in Int
    /\ p[0] = q[0]
    /\ \A n \in 1..N : p[n] - p[n - 1] = q[n] - q[n - 1]

LEMMA SumsAgree ==
    ASSUME NEW N \in Nat, NEW p, NEW q, SameTerms(p, q, N)
    PROVE  p[N] = q[N]
<1> USE DEF SameTerms
<1> DEFINE T == {n \in Nat : n <= N => p[n] = q[n]}
<1>1. 0 \in T
    OBVIOUS
<1>2. ASSUME NEW n \in T PROVE n + 1 \in T
    <2>1. SUFFICES ASSUME n + 1 <= N PROVE p[n + 1] = q[n + 1]
        OBVIOUS
    <2> DEFINE m == n + 1
    <2>2. m \in 1..N /\ m \in 0..N /\ n \in 0..N /\ m - 1 = n /\ p[n] = q[n]
        BY <2>1
    <2> HIDE DEF m
    <2>3. p[m] - p[n] = q[m] - q[n] /\ p[m] \in Int /\ q[m] \in Int /\ p[n] \in Int /\ q[n] \in Int
        BY <2>2
    <2>4. p[m] = q[m]
        BY <2>2, <2>3
    <2> QED
        BY <2>4 DEF m
<1>3. T \subseteq Nat
    OBVIOUS
<1> HIDE DEF T
<1>4. T = Nat
    BY <1>1, <1>2, <1>3, NaturalInduction
<1> QED
    BY <1>4 DEF T

LEMMA BytesEmpty == Bytes(<<>>) = 0
<1> DEFINE S == {}
           s == <<>>
<1>1. s \in Seq(S) /\ (\A x \in S : Size(x) \in Nat) /\ Len(s) = 0
    OBVIOUS
<1> HIDE DEF S, s
<1>2. PICK p \in [0..Len(s) -> Nat] : p[0] = 0 /\ p[Len(s)] = Bytes(s)
    BY <1>1, BytesSums
<1>3. Bytes(s) = 0
    BY <1>1, <1>2
<1> QED
    BY <1>3 DEF s

LEMMA BytesNatural ==
    ASSUME NEW S, \A x \in S : Size(x) \in Nat, NEW s \in Seq(S)
    PROVE  Bytes(s) \in Nat
<1>1. PICK p \in [0..Len(s) -> Nat] : p[Len(s)] = Bytes(s)
    BY BytesSums
<1>2. Len(s) \in 0..Len(s)
    OBVIOUS
<1> QED
    BY <1>1, <1>2

LEMMA BytesAppend ==
    ASSUME NEW S, \A x \in S : Size(x) \in Nat, NEW s \in Seq(S), NEW x \in S
    PROVE  Bytes(Append(s, x)) = Bytes(s) + Size(x)
<1> DEFINE t == Append(s, x)
           N == Len(s)
<1>1. t \in Seq(S) /\ Len(t) = N + 1 /\ N \in Nat /\ t[N + 1] = x /\ \A n \in 1..N : t[n] = s[n]
    OBVIOUS
<1> HIDE DEF t
<1>2. PICK p \in [0..Len(t) -> Nat] :
          p[0] = 0 /\ (\A n \in 1..Len(t) : p[n] = p[n - 1] + Size(t[n])) /\ p[Len(t)] = Bytes(t)
    BY <1>1, BytesSums
<1>3. PICK q \in [0..N -> Nat] :
          q[0] = 0 /\ (\A n \in 1..N : q[n] = q[n - 1] + Size(s[n])) /\ q[N] = Bytes(s)
    BY BytesSums
<1>4. \A n \in 0..N : p[n] \in Int /\ q[n] \in Int
    BY <1>1, <1>2, <1>3
<1>5. ASSUME NEW n \in 1..N PROVE p[n] - p[n - 1] = q[n] - q[n - 1]
    <2>1. /\ n \in 1..Len(t) /\ n - 1 \in 0..N /\ n \in 0..N /\ t[n] = s[n] /\ s[n] \in S
        BY <1>1
    <2>2. p[n] = p[n - 1] + Size(s[n]) /\ q[n] = q[n - 1] + Size(s[n]) /\ Size(s[n]) \in Nat
        BY <1>2, <1>3, <2>1
    <2>3. p[n - 1] \in Int /\ q[n - 1] \in Int
        BY <1>4, <2>1
    <2> HIDE DEF N
    <2> QED
        BY <2>2, <2>3
<1>6. p[N] = q[N]
    <2>1. SameTerms(p, q, N)
        BY <1>2, <1>3, <1>4, <1>5 DEF SameTerms
    <2> QED
        BY <1>1, <2>1, SumsAgree
<1>7. p[N + 1] = p[N] + Size(t[N + 1])
    <2> DEFINE n == N + 1
    <2>1. n \in 1..Len(t) /\ n - 1 = N
        BY <1>1
    <2> HIDE DEF n
    <2>2. p[n] = p[n - 1] + Size(t[n])
        BY <1>2, <2>1
    <2> QED
        BY <2>1, <2>2 DEF n
<1> QED
    BY <1>1, <1>2, <1>3, <1>6, <1>7 DEF t

\* One piece more in a prefix.
LEMMA BytesPrefix ==
    ASSUME NEW S, \A x \in S : Size(x) \in Nat, NEW s \in Seq(S), NEW n \in 0..(Len(s) - 1)
    PROVE  Bytes(SubSeq(s, 1, n + 1)) = Bytes(SubSeq(s, 1, n)) + Size(s[n + 1])
<1> DEFINE t == SubSeq(s, 1, n)
           m == n + 1
           x == s[m]
<1>1. t \in Seq(S) /\ x \in S
    OBVIOUS
<1>2. SubSeq(s, 1, m) = Append(t, x)
    <2>1. /\ SubSeq(s, 1, m) \in Seq(S) /\ Append(t, x) \in Seq(S)
          /\ Len(SubSeq(s, 1, m)) = m /\ Len(Append(t, x)) = m
        OBVIOUS
    <2>2. ASSUME NEW i \in 1..m PROVE SubSeq(s, 1, m)[i] = Append(t, x)[i]
        OBVIOUS
    <2> QED
        BY <2>1, <2>2, SeqEqual
<1> HIDE DEF t, x
<1>3. Bytes(Append(t, x)) = Bytes(t) + Size(x)
    BY <1>1, BytesAppend
<1> QED
    BY <1>2, <1>3 DEF t, x

LEMMA BytesSplit ==
    ASSUME NEW S, \A x \in S : Size(x) \in Nat, NEW s \in Seq(S), NEW n \in 0..Len(s)
    PROVE  Bytes(s) = Bytes(SubSeq(s, 1, n)) + Bytes(Without(s, n))
<1> DEFINE head == SubSeq(s, 1, n)
           tail == SubSeq(s, n + 1, Len(s))
           N == Len(s)
           M == N - n
<1>1. /\ head \in Seq(S) /\ Len(head) = n /\ (\A i \in 1..n : head[i] = s[i])
      /\ tail \in Seq(S) /\ Len(tail) = M /\ (\A i \in 1..M : tail[i] = s[n + i])
      /\ N \in Nat /\ n \in Nat /\ M \in Nat /\ n <= N
    OBVIOUS
<1> HIDE DEF head, tail
<1>2. PICK p \in [0..N -> Nat] :
          p[0] = 0 /\ (\A i \in 1..N : p[i] = p[i - 1] + Size(s[i])) /\ p[N] = Bytes(s)
    BY BytesSums
<1>3. PICK q \in [0..Len(head) -> Nat] :
          /\ q[0] = 0 /\ (\A i \in 1..Len(head) : q[i] = q[i - 1] + Size(head[i]))
          /\ q[Len(head)] = Bytes(head)
    BY <1>1, BytesSums
<1>4. PICK r \in [0..Len(tail) -> Nat] :
          /\ r[0] = 0 /\ (\A i \in 1..Len(tail) : r[i] = r[i - 1] + Size(tail[i]))
          /\ r[Len(tail)] = Bytes(tail)
    BY <1>1, BytesSums
<1> HIDE DEF N
<1>5. p[n] = Bytes(head)
    <2>0. \A i \in 0..n : p[i] \in Int /\ q[i] \in Int
        BY <1>1, <1>2, <1>3
    <2>1. ASSUME NEW i \in 1..n PROVE p[i] - p[i - 1] = q[i] - q[i - 1]
        <3> DEFINE j == i - 1
                   z == Size(s[i])
        <3>1. i \in 1..N /\ i \in 1..Len(head) /\ i \in 0..n /\ j \in 0..n /\ j \in 0..N /\ i \in 0..N
            BY <1>1
        <3>2. p[i] \in Int /\ p[j] \in Int /\ q[i] \in Int /\ q[j] \in Int
            <4> HIDE DEF j
            <4> QED
                BY <2>0, <3>1
        <3>3. z \in Int
            BY <3>1 DEF N
        <3>4. p[i] = p[j] + z
            BY <1>2, <3>1
        <3>5. q[i] = q[j] + z
            BY <1>1, <1>3, <3>1
        <3>6. p[i] - p[j] = q[i] - q[j]
            <4> DEFINE a == p[i]
                       b == p[j]
                       c == q[i]
                       e == q[j]
            <4>1. a \in Int /\ b \in Int /\ c \in Int /\ e \in Int /\ a = b + z /\ c = e + z
                BY <3>2, <3>4, <3>5
            <4> HIDE DEF a, b, c, e, z
            <4>2. a - b = c - e
                BY <3>3, <4>1
            <4> QED
                BY <4>2 DEF a, b, c, e
        <3> QED
            BY <3>6
    <2>3. SameTerms(p, q, n)
        BY <1>2, <1>3, <2>0, <2>1 DEF SameTerms
    <2>4. p[n] = q[n]
        <3>1. n \in Nat
            OBVIOUS
        <3> QED
            BY <2>3, <3>1, SumsAgree
    <2>5. Len(head) = n
        BY <1>1
    <2>6. q[n] = Bytes(head)
        BY <1>3, <2>5
    <2> QED
        BY <2>4, <2>6
<1>6. p[N] - p[n] = Bytes(tail)
    <2> DEFINE d == [i \in 0..M |-> p[n + i] - p[n]]
    <2>1. \A i \in 0..M : p[n + i] \in Nat /\ r[i] \in Nat /\ p[n] \in Nat
        BY <1>1, <1>2, <1>4
    <2>2. \A i \in 0..M : d[i] \in Int /\ r[i] \in Int
        BY <2>1
    <2>3. ASSUME NEW i \in 1..M PROVE d[i] - d[i - 1] = r[i] - r[i - 1]
        <3> DEFINE k == n + i
        <3>1. k \in 1..N /\ k - 1 = n + (i - 1) /\ i \in 0..M /\ i - 1 \in 0..M
            BY <1>1
        <3>2. s[k] \in S /\ Size(s[k]) \in Nat /\ tail[i] = s[k]
            <4>1. tail[i] = s[n + i]
                BY <1>1
            <4>2. \A x \in 1..Len(s) : s[x] \in S
                OBVIOUS
            <4> HIDE DEF k
            <4>3. s[k] \in S
                BY <3>1, <4>2 DEF N
            <4> QED
                BY <4>1, <4>3 DEF k
        <3>3. d[i] = p[k] - p[n] /\ d[i - 1] = p[k - 1] - p[n]
            BY <3>1
        <3>4. p[k] \in Nat /\ p[k - 1] \in Nat /\ p[n] \in Nat /\ r[i] \in Nat /\ r[i - 1] \in Nat
            BY <2>1, <3>1
        <3> HIDE DEF k, d
        <3> DEFINE z == Size(s[k])
        <3>5. z \in Nat /\ p[k] = p[k - 1] + z /\ r[i] = r[i - 1] + z
            BY <1>1, <1>2, <1>4, <3>1, <3>2
        <3> HIDE DEF z
        <3>6. p[k] - p[k - 1] = r[i] - r[i - 1]
            <4> DEFINE a == p[k]
                       b == p[k - 1]
                       c == r[i]
                       e == r[i - 1]
            <4>1. a \in Nat /\ b \in Nat /\ c \in Nat /\ e \in Nat
                BY <3>4
            <4>2. a = b + z /\ c = e + z /\ z \in Nat
                BY <3>5
            <4> HIDE DEF a, b, c, e
            <4>3. a - b = c - e
                BY <4>1, <4>2
            <4> QED
                BY <4>3 DEF a, b, c, e
        <3> DEFINE a == p[k]
                   b == p[k - 1]
                   c == p[n]
        <3>7. a \in Nat /\ b \in Nat /\ c \in Nat
            BY <3>4
        <3>8. d[i] = a - c /\ d[i - 1] = b - c
            BY <3>3
        <3>9. a - b = r[i] - r[i - 1]
            BY <3>6
        <3> HIDE DEF a, b, c
        <3>10. d[i] - d[i - 1] = a - b
            BY <3>7, <3>8
        <3> QED
            BY <3>9, <3>10
    <2>4. d[0] = r[0] /\ d[M] = p[N] - p[n]
        BY <1>1, <1>2, <1>4, <2>1
    <2> HIDE DEF d
    <2>5. SameTerms(d, r, M)
        BY <2>2, <2>3, <2>4 DEF SameTerms
    <2>6. d[M] = r[M]
        BY <1>1, <2>5, SumsAgree
    <2> QED
        BY <1>1, <1>4, <2>4, <2>6
<1>7. p[N] \in Nat /\ p[n] \in Nat
    BY <1>1, <1>2
<1> QED
    BY <1>2, <1>5, <1>6, <1>7 DEF head, tail, N, Without

\* The size of a piece is what lies between its ends.
LEMMA BytesJoined ==
    ASSUME NEW S, \A x \in S : Size(x) \in Nat /\ x.from \in Nat /\ x.to \in Nat,
           NEW s \in Seq(S), Joined(s), s # <<>>
    PROVE  Bytes(s) = s[Len(s)].to - s[1].from
<1> DEFINE N == Len(s)
           q == [n \in 0..N |-> IF n = 0 THEN 0 ELSE s[n].to - s[1].from]
<1>1. N \in Nat /\ N # 0 /\ \A n \in 1..N : s[n] \in S
    OBVIOUS
<1>2. \A n \in 1..N : s[n].from \in Nat /\ s[n].to \in Nat /\ Size(s[n]) \in Nat
    BY <1>1
<1>3. PICK p \in [0..N -> Nat] :
          p[0] = 0 /\ (\A n \in 1..N : p[n] = p[n - 1] + Size(s[n])) /\ p[N] = Bytes(s)
    BY BytesSums
<1>4. ASSUME NEW n \in 1..N PROVE p[n] - p[n - 1] = q[n] - q[n - 1]
    <2>1. n - 1 \in 0..N /\ n \in 0..N /\ 1 \in 1..N
        BY <1>1
    <2>2. p[n] = p[n - 1] + Size(s[n]) /\ p[n - 1] \in Nat /\ p[n] \in Nat
        BY <1>3, <2>1
    <2>3. q[n] - q[n - 1] = s[n].to - s[n].from
        <3>1. CASE n = 1
            BY <1>2, <2>1, <3>1
        <3>2. CASE n # 1
            <4>1. n - 1 \in 1..(N - 1) /\ (n - 1) + 1 = n /\ n - 1 \in 1..N
                BY <1>1, <3>2
            <4>2. s[n - 1].to = s[n].from
                BY <4>1 DEF Joined
            <4>3. q[n] = s[n].to - s[1].from /\ q[n - 1] = s[n - 1].to - s[1].from
                BY <2>1, <4>1
            <4> DEFINE a == s[n].to
                       b == s[n].from
                       c == s[1].from
            <4>4. a \in Nat /\ b \in Nat /\ c \in Nat
                BY <1>2, <2>1
            <4> HIDE DEF q, N
            <4>5. q[n] = a - c /\ q[n - 1] = b - c
                BY <4>2, <4>3
            <4> HIDE DEF a, b, c
            <4>6. q[n] - q[n - 1] = a - b
                BY <4>4, <4>5
            <4> QED
                BY <4>6 DEF a, b
        <3> QED
            BY <3>1, <3>2
    <2> HIDE DEF q
    <2>4. Size(s[n]) = s[n].to - s[n].from /\ Size(s[n]) \in Nat
        BY <1>2 DEF Size
    <2> QED
        BY <2>2, <2>3, <2>4
<1>5. \A n \in 0..N : p[n] \in Int /\ q[n] \in Int
    <2>1. ASSUME NEW n \in 0..N PROVE q[n] \in Int
        <3>1. CASE n = 0
            BY <3>1
        <3>2. CASE n # 0
            <4>1. n \in 1..N /\ 1 \in 1..N
                BY <1>1, <3>2
            <4>2. s[n].to \in Nat /\ s[1].from \in Nat
                BY <1>2, <4>1
            <4> QED
                BY <3>2, <4>2
        <3> QED
            BY <3>1, <3>2
    <2> HIDE DEF N, q
    <2> QED
        BY <2>1
<1>6. q[0] = 0 /\ q[N] = s[N].to - s[1].from
    BY <1>1
<1> HIDE DEF q, N
<1>7. SameTerms(p, q, N)
    BY <1>3, <1>4, <1>5, <1>6 DEF SameTerms
<1> QED
    BY <1>1, <1>3, <1>6, <1>7, SumsAgree DEF N

-----------------------------------------------------------------------------
(* Trimming *)

LEMMA MinIsUnique ==
    ASSUME NEW T, T \subseteq Nat, NEW m \in T, \A k \in T : m <= k
    PROVE  Min(T) = m
<1>1. Min(T) \in T /\ Min(T) <= m
    BY MinIsLeast
<1>2. m <= Min(T) /\ m \in Nat /\ Min(T) \in Nat
    BY <1>1
<1> QED
    BY <1>1, <1>2

Pieces == {x \in [from : Nat, to : Nat] : x.from <= x.to}

\* The pieces are one stretch of the output, cut at code points.
Covers(pieces, marks, from, to) ==
    /\ pieces \in Seq(Pieces) /\ pieces # <<>>
    /\ Joined(pieces)
    /\ \A i \in 1..Len(pieces) : pieces[i].from \in marks /\ pieces[i].to \in marks
    /\ pieces[1].from = from
    /\ pieces[Len(pieces)].to = to

LEMMA PiecesHaveSizes ==
    /\ \A x \in Pieces : Size(x) \in Nat
    /\ \A x \in Pieces : Size(x) \in Nat /\ x.from \in Nat /\ x.to \in Nat
BY DEF Pieces, Size

LEMMA CoversBytes ==
    ASSUME NEW pieces, NEW marks, NEW from, NEW to, Covers(pieces, marks, from, to)
    PROVE  Bytes(pieces) = to - from /\ from \in Nat /\ to \in Nat /\ from \in marks /\ to \in marks
<1>1. Len(pieces) \in 1..Len(pieces) /\ 1 \in 1..Len(pieces)
    BY DEF Covers
<1>2. pieces[1] \in Pieces /\ pieces[Len(pieces)] \in Pieces
    BY <1>1 DEF Covers
<1> QED
    BY <1>1, <1>2, BytesJoined, PiecesHaveSizes DEF Covers

\* The first n pieces end where the next one starts.
LEMMA PrefixBytes ==
    ASSUME NEW pieces, NEW marks, NEW from, NEW to, Covers(pieces, marks, from, to),
           NEW n \in 0..Len(pieces)
    PROVE  /\ n # 0 => Bytes(SubSeq(pieces, 1, n)) = pieces[n].to - from
           /\ n # Len(pieces) => Bytes(SubSeq(pieces, 1, n)) = pieces[n + 1].from - from
           /\ Bytes(SubSeq(pieces, 1, n)) \in Nat
<1> DEFINE head == SubSeq(pieces, 1, n)
           N == Len(pieces)
<1>1. /\ head \in Seq(Pieces) /\ Len(head) = n /\ N \in Nat \ {0}
      /\ \A i \in 1..n : head[i] = pieces[i]
    BY DEF Covers
<1>2. \A i \in 1..N : pieces[i] \in Pieces
    BY DEF Covers
<1>3. from \in Nat /\ pieces[1].from = from
    BY CoversBytes DEF Covers
<1>4. CASE n = 0
    <2>1. head = <<>>
        BY <1>1, <1>4
    <2> HIDE DEF head
    <2>2. Bytes(head) = 0
        BY <2>1, BytesEmpty
    <2> QED
        BY <1>1, <1>3, <1>4, <2>2 DEF head
<1>5. CASE n # 0
    <2>1. head # <<>> /\ head[1] = pieces[1] /\ head[n] = pieces[n] /\ n \in 1..N
        BY <1>1, <1>5
    <2>2. Joined(head)
        <3>1. \A i \in 1 .. n - 1 : i \in 1 .. N - 1 /\ i \in 1..n /\ i + 1 \in 1..n
            BY <1>1
        <3> QED
            BY <1>1, <3>1 DEF Joined, Covers
    <2> HIDE DEF head
    <2>3. Bytes(head) = pieces[n].to - from
        BY <1>1, <1>3, <2>1, <2>2, BytesJoined, PiecesHaveSizes
    <2>4. n # N => pieces[n].to = pieces[n + 1].from
        <3>1. n # N => n \in 1 .. N - 1
            BY <1>1, <2>1
        <3> QED
            BY <3>1 DEF Joined, Covers
    <2>5. Bytes(head) \in Nat
        BY <1>1, BytesNatural, PiecesHaveSizes
    <2> QED
        BY <1>5, <2>3, <2>4, <2>5 DEF head
<1> QED
    BY <1>4, <1>5

\* Without a prefix, the pieces cover the rest.
LEMMA WithoutCovers ==
    ASSUME NEW pieces, NEW marks, NEW from, NEW to, Covers(pieces, marks, from, to),
           NEW n \in 0..(Len(pieces) - 1)
    PROVE  /\ Covers(Without(pieces, n), marks, pieces[n + 1].from, to)
           /\ Without(pieces, n)[1] = pieces[n + 1]
<1> DEFINE N == Len(pieces)
           kept == SubSeq(pieces, n + 1, N)
           M == N - n
<1>1. /\ kept \in Seq(Pieces) /\ Len(kept) = M /\ M \in Nat \ {0} /\ N \in Nat
      /\ n \in Nat /\ n + M = N
      /\ \A i \in 1..M : kept[i] = pieces[n + i]
    BY DEF Covers
<1> HIDE DEF kept, M, N
<1>2. kept # <<>> /\ kept[1] = pieces[n + 1] /\ kept[M] = pieces[N]
    <2>1. 1 \in 1..M /\ M \in 1..M
        BY <1>1
    <2> QED
        BY <1>1, <2>1
<1>3. ASSUME NEW i \in 1 .. M - 1 PROVE kept[i].to = kept[i + 1].from
    <2> DEFINE j == n + i
    <2>1. i \in 1..M /\ i + 1 \in 1..M /\ j \in 1 .. N - 1 /\ n + (i + 1) = j + 1
        BY <1>1
    <2>2. kept[i] = pieces[j] /\ kept[i + 1] = pieces[j + 1]
        BY <1>1, <2>1
    <2> HIDE DEF j
    <2>3. pieces[j].to = pieces[j + 1].from
        BY <2>1 DEF Joined, Covers, N
    <2> QED
        BY <2>2, <2>3
<1>4. ASSUME NEW i \in 1..M PROVE kept[i].from \in marks /\ kept[i].to \in marks
    <2> DEFINE j == n + i
    <2>1. j \in 1..N
        BY <1>1
    <2>2. kept[i] = pieces[j]
        BY <1>1
    <2> HIDE DEF j
    <2> QED
        BY <2>1, <2>2 DEF Covers, N
<1>5. Covers(kept, marks, pieces[n + 1].from, to)
    BY <1>1, <1>2, <1>3, <1>4 DEF Covers, Joined, N
<1> QED
    BY <1>2, <1>5 DEF kept, Without, N

\* Trimming leaves exactly the aligned suffix that drops the overflow.
LEMMA TrimCovers ==
    ASSUME NEW marks \in SUBSET Nat, NEW from, NEW to, NEW pieces,
           Covers(pieces, marks, from, to),
           NEW overflow \in Nat, overflow < to - from
    PROVE  Covers(Trim(pieces, overflow, marks), marks,
                  Min({m \in marks : m >= from + overflow}), to)
<1> DEFINE N == Len(pieces)
           T == {n \in 0..N : Bytes(SubSeq(pieces, 1, n)) <= overflow}
           whole == Max(T)
           rest == overflow - Bytes(SubSeq(pieces, 1, whole))
           kept == Without(pieces, whole)
           cut == Min({m \in marks : m >= from + overflow})
<1>1. N \in Nat \ {0} /\ from \in Nat /\ to \in Nat /\ pieces[N].to = to
    <2>1. from \in Nat /\ to \in Nat
        BY CoversBytes
    <2> QED
        BY <2>1 DEF Covers
<1>2. whole \in T /\ \A n \in T : n <= whole
    <2>1. Bytes(SubSeq(pieces, 1, 0)) = 0
        <3>1. SubSeq(pieces, 1, 0) = <<>>
            BY DEF Covers
        <3> QED
            BY <3>1, BytesEmpty
    <2>2. 0 \in T
        BY <1>1, <2>1
    <2>3. T \subseteq 0..N /\ T # {}
        BY <2>2
    <2> HIDE DEF T
    <2> QED
        BY <1>1, <2>3, MaxIsGreatest
<1> HIDE DEF whole
<1>3. whole \in 0..N /\ Bytes(SubSeq(pieces, 1, whole)) <= overflow
    BY <1>2
<1>4. whole \in 0 .. N - 1
    <2>1. Bytes(SubSeq(pieces, 1, N)) = to - from
        BY <1>1, PrefixBytes
    <2>2. whole # N
        BY <1>1, <1>3, <2>1
    <2> QED
        BY <1>1, <1>3, <2>2
<1> DEFINE next == whole + 1
<1>5. next \in 0..N /\ next # 0 /\ next \in 1..N
    BY <1>1, <1>4
<1>6. pieces[next].from = from + Bytes(SubSeq(pieces, 1, whole))
    <2>1. Bytes(SubSeq(pieces, 1, whole)) = pieces[next].from - from
        BY <1>1, <1>3, <1>4, PrefixBytes
    <2>2. pieces[next].from \in Nat
        BY <1>5 DEF Covers, Pieces
    <2> QED
        BY <1>1, <2>1, <2>2
<1>7. pieces[next].to > from + overflow
    <2>1. next \notin T
        BY <1>2, <1>3
    <2> HIDE DEF next
    <2>2. Bytes(SubSeq(pieces, 1, next)) = pieces[next].to - from /\ Bytes(SubSeq(pieces, 1, next)) \in Nat
        BY <1>5, PrefixBytes
    <2>3. ~(Bytes(SubSeq(pieces, 1, next)) <= overflow)
        BY <1>5, <2>1
    <2>4. pieces[next].to \in Nat
        BY <1>5 DEF Covers, Pieces
    <2> QED
        BY <1>1, <2>2, <2>3, <2>4
<1>8. Covers(kept, marks, pieces[next].from, to) /\ kept[1] = pieces[next]
    BY <1>4, WithoutCovers
<1>9. /\ rest \in Nat /\ pieces[next].from + rest = from + overflow
      /\ pieces[next].from \in Nat /\ pieces[next].to \in Nat
      /\ pieces[next].from \in marks /\ pieces[next].to \in marks
    <2>1. Bytes(SubSeq(pieces, 1, whole)) \in Nat
        BY <1>3, PrefixBytes
    <2>2. /\ pieces[next].from \in Nat /\ pieces[next].to \in Nat
          /\ pieces[next].from \in marks /\ pieces[next].to \in marks
        BY <1>5 DEF Covers, Pieces
    <2> DEFINE b == Bytes(SubSeq(pieces, 1, whole))
               x == pieces[next]
    <2>3. b \in Nat /\ b <= overflow /\ x.from = from + b
        BY <1>1, <1>3, <1>6, <2>1
    <2> HIDE DEF b, next, whole
    <2>4. rest = overflow - b
        BY DEF b
    <2>5. rest \in Nat /\ x.from + rest = from + overflow
        BY <1>1, <2>2, <2>3, <2>4
    <2> QED
        BY <2>2, <2>5
<1>10. CASE rest = 0
    <2>1. pieces[next].from = from + overflow
        BY <1>9, <1>10
    <2>2. cut = pieces[next].from
        <3> DEFINE C == {m \in marks : m >= from + overflow}
        <3> HIDE DEF next, rest
        <3>1. C \subseteq Nat
            OBVIOUS
        <3>2. \A k \in C : pieces[next].from <= k
            BY <2>1
        <3>3. pieces[next].from \in C
            BY <1>1, <1>9, <2>1
        <3> HIDE DEF C
        <3>4. Min(C) = pieces[next].from
            BY <3>1, <3>2, <3>3, MinIsUnique
        <3> QED
            BY <3>4 DEF C
    <2>3. Trim(pieces, overflow, marks) = kept
        BY <1>10 DEF Trim, whole
    <2> HIDE DEF kept, cut, next
    <2> QED
        BY <1>8, <2>2, <2>3 DEF cut
<1>11. CASE rest # 0
    <2> DEFINE first == [kept[1] EXCEPT !.from = cut]
               trimmed == <<first>> \o Tail(kept)
               K == Len(kept)
    <2>1. cut \in marks /\ cut <= pieces[next].to
        <3> DEFINE C == {m \in marks : m >= from + overflow}
        <3> HIDE DEF next, rest
        <3>1. C \subseteq Nat
            OBVIOUS
        <3>3. pieces[next].to \in C
            <4>1. pieces[next].to >= from + overflow
                BY <1>1, <1>7, <1>9
            <4> QED
                BY <1>9, <4>1
        <3> HIDE DEF C
        <3>2. Min(C) \in C /\ Min(C) <= pieces[next].to
            BY <3>1, <3>3, MinIsLeast
        <3> QED
            BY <3>2 DEF C
    <2>2. Trim(pieces, overflow, marks) = trimmed
        <3>1. Trim(pieces, overflow, marks) = <<DropFirst(kept[1], rest, marks)>> \o Tail(kept)
            BY <1>11 DEF Trim, whole
        <3>2. kept[1].from + rest = from + overflow
            <4> HIDE DEF kept, next, rest
            <4> QED
                BY <1>8, <1>9
        <3>3. DropFirst(kept[1], rest, marks) = first
            <4> HIDE DEF kept, rest
            <4> QED
                BY <3>2 DEF DropFirst
        <3> QED
            BY <3>1, <3>3
    <2> HIDE DEF kept, cut, rest, T
    <2>3. kept \in Seq(Pieces) /\ K \in Nat \ {0} /\ kept[1] \in Pieces
        BY <1>8 DEF Covers
    <2>4. first \in Pieces /\ first.from = cut /\ first.to = kept[1].to
        BY <1>8, <2>1, <2>3 DEF Pieces
    <2> HIDE DEF first
    <2>5. /\ trimmed \in Seq(Pieces) /\ Len(trimmed) = K /\ trimmed[1] = first
          /\ \A i \in 2..K : trimmed[i] = kept[i]
        BY <2>3, <2>4
    <2> HIDE DEF trimmed
    <2>6. \A i \in 1..K : trimmed[i].to = kept[i].to
        BY <2>3, <2>4, <2>5
    <2>7. Joined(trimmed)
        <3>1. ASSUME NEW i \in 1 .. K - 1 PROVE trimmed[i].to = trimmed[i + 1].from
            <4>1. i \in 1..K /\ i + 1 \in 2..K
                BY <2>3
            <4> QED
                BY <1>8, <2>5, <2>6, <4>1 DEF Covers, Joined
        <3> QED
            BY <2>5, <3>1 DEF Joined
    <2>8. \A i \in 1..K : trimmed[i].from \in marks /\ trimmed[i].to \in marks
        <3>1. ASSUME NEW i \in 1..K PROVE trimmed[i].from \in marks
            <4>1. CASE i = 1
                BY <2>1, <2>4, <2>5, <4>1
            <4>2. CASE i # 1
                <5>1. i \in 2..K
                    BY <2>3, <4>2
                <5> QED
                    BY <1>8, <2>5, <5>1 DEF Covers
            <4> QED
                BY <4>1, <4>2
        <3> QED
            BY <1>8, <2>6, <3>1 DEF Covers
    <2>9. trimmed # <<>> /\ trimmed[K].to = to /\ trimmed[1].from = cut
        BY <1>8, <2>3, <2>4, <2>5, <2>6 DEF Covers
    <2>10. Covers(trimmed, marks, cut, to)
        BY <2>5, <2>7, <2>8, <2>9 DEF Covers
    <2> QED
        BY <2>2, <2>10 DEF cut
<1> QED
    BY <1>10, <1>11

-----------------------------------------------------------------------------
(* The scrollback *)

CutOf(marks, written) == Min({m \in marks : m + MaxScrollbackBytes >= written})

\* Output ends at a boundary.
MarksInv ==
    /\ ends \in Seq(Nat)
    /\ Written \in Nat
    /\ boundaries \subseteq 0..Written
    /\ 0 \in boundaries
    /\ Written \in boundaries

\* The scrollback covers the output from the cut on.
ScrollInv ==
    /\ totalBytes = Bytes(scrollback)
    /\ IF ends = <<>> THEN scrollback = <<>>
       ELSE Covers(scrollback, boundaries, CutOf(boundaries, Written), Written)

LEMMA CutIsLeast ==
    ASSUME NEW marks \in SUBSET Nat, NEW written \in marks
    PROVE  /\ CutOf(marks, written) \in marks
           /\ CutOf(marks, written) + MaxScrollbackBytes >= written
           /\ CutOf(marks, written) <= written
           /\ \A m \in marks : m + MaxScrollbackBytes >= written => CutOf(marks, written) <= m
<1> DEFINE T == {m \in marks : m + MaxScrollbackBytes >= written}
<1>1. T \subseteq Nat /\ written \in T
    <2>1. MaxScrollbackBytes \in Nat /\ written \in Nat
        BY LogAssumption
    <2>2. written + MaxScrollbackBytes >= written
        BY <2>1
    <2>3. \A m \in marks : m \in Nat
        OBVIOUS
    <2> QED
        BY <2>2, <2>3
<1> HIDE DEF T
<1>2. Min(T) \in T /\ \A k \in T : Min(T) <= k
    BY <1>1, MinIsLeast
<1>3. CutOf(marks, written) = Min(T)
    BY DEF CutOf, T
<1> QED
    BY <1>1, <1>2, <1>3 DEF T

LEMMA AppendCovers ==
    ASSUME NEW pieces, NEW marks, NEW from, NEW to, Covers(pieces, marks, from, to),
           NEW piece \in Pieces, piece.from = to,
           NEW more, marks \subseteq more, piece.to \in more
    PROVE  Covers(Append(pieces, piece), more, from, piece.to)
<1> DEFINE N == Len(pieces)
           all == Append(pieces, piece)
<1>1. /\ all \in Seq(Pieces) /\ Len(all) = N + 1 /\ all[N + 1] = piece /\ N \in Nat \ {0}
      /\ \A i \in 1..N : all[i] = pieces[i]
    BY DEF Covers
<1>2. pieces[N].to = to /\ to \in marks /\ 1 \in 1..N /\ N \in 1..N
    BY <1>1 DEF Covers
<1> HIDE DEF all
<1>3. ASSUME NEW i \in 1..N PROVE all[i].to = all[i + 1].from
    <2>1. CASE i = N
        BY <1>1, <1>2, <2>1
    <2>2. CASE i # N
        <3>1. i \in 1 .. N - 1 /\ i + 1 \in 1..N
            BY <1>1, <2>2
        <3>2. pieces[i].to = pieces[i + 1].from
            BY <3>1 DEF Covers, Joined
        <3> QED
            BY <1>1, <3>1, <3>2
    <2> QED
        BY <2>1, <2>2
<1>4. Joined(all)
    <2>1. 1 .. Len(all) - 1 = 1..N
        BY <1>1
    <2> QED
        BY <1>3, <2>1 DEF Joined
<1>5. ASSUME NEW i \in 1 .. N + 1 PROVE all[i].from \in more /\ all[i].to \in more
    <2>1. CASE i = N + 1
        BY <1>1, <1>2, <2>1
    <2>2. CASE i # N + 1
        <3>1. i \in 1..N
            BY <1>1, <2>2
        <3>2. pieces[i].from \in marks /\ pieces[i].to \in marks
            BY <3>1 DEF Covers
        <3> QED
            BY <1>1, <3>1, <3>2
    <2> QED
        BY <2>1, <2>2
<1>6. all # <<>> /\ all[1].from = from
    <2>1. all[1] = pieces[1]
        BY <1>1, <1>2
    <2> QED
        BY <1>1, <2>1 DEF Covers
<1>7. Covers(all, more, from, piece.to)
    BY <1>1, <1>4, <1>5, <1>6 DEF Covers
<1> QED
    BY <1>7 DEF all

Cuts == (SUBSET (Written + 1 .. MaxOutput)) \ {{}}

\* What PtyData writes is one more chunk that ends at a boundary.
LEMMA DataArrives ==
    ASSUME MarksInv, NEW cuts \in Cuts, PtyData(cuts)
    PROVE  /\ MarksInv'
           /\ Max(cuts) \in Nat /\ Written < Max(cuts)
           /\ Written' = Max(cuts)
           /\ boundaries' = boundaries \union cuts
           /\ ends' = Append(ends, Max(cuts)) /\ ends' # <<>>
<1>1. Written \in Nat /\ cuts # {} /\ cuts \subseteq Written + 1 .. MaxOutput /\ MaxOutput \in Nat
    <2>1. Written \in Nat /\ MaxOutput \in Nat
        BY LogAssumption DEF MarksInv
    <2>2. cuts # {} /\ cuts \in SUBSET (Written + 1 .. MaxOutput)
        BY DEF Cuts
    <2> QED
        BY <2>1, <2>2
<1>2. Max(cuts) \in cuts /\ \A k \in cuts : k <= Max(cuts)
    <2>1. cuts \subseteq 0..MaxOutput
        BY <1>1
    <2> QED
        BY <1>1, <2>1, MaxIsGreatest
<1> DEFINE to == Max(cuts)
<1>3. to \in Nat /\ Written < to
    <2>1. to \in Written + 1 .. MaxOutput
        BY <1>1, <1>2
    <2> QED
        BY <1>1, <2>1
<1>4. ends' = Append(ends, to) /\ boundaries' = boundaries \union cuts
    BY DEF PtyData
<1> HIDE DEF to
<1>5. ends' \in Seq(Nat) /\ ends' # <<>> /\ Last(ends') = to
    BY <1>3, <1>4 DEF MarksInv, Last
<1>6. Written' = to
    BY <1>5 DEF Written
<1>7. boundaries' \subseteq 0..to /\ 0 \in boundaries' /\ to \in boundaries'
    <2>1. boundaries \subseteq 0..to
        BY <1>1, <1>3 DEF MarksInv
    <2>2. cuts \subseteq 0..to /\ to \in cuts
        BY <1>1, <1>2, <1>3 DEF to
    <2> QED
        BY <1>4, <2>1, <2>2 DEF MarksInv
<1>8. MarksInv'
    BY <1>3, <1>5, <1>6, <1>7 DEF MarksInv
<1> QED
    BY <1>3, <1>4, <1>5, <1>6, <1>8 DEF to

\* Appending to the scrollback keeps it the suffix from the cut on.
LEMMA DataKeepsScroll ==
    ASSUME MarksInv, ScrollInv, NEW cuts \in Cuts, PtyData(cuts)
    PROVE  ScrollInv'
<1> DEFINE to == Max(cuts)
           piece == [from |-> Written, to |-> to]
           marks == boundaries \union cuts
           base == CutOf(boundaries, Written)
           pieces == Append(scrollback, piece)
           bytes == totalBytes + Size(piece)
           overflow == bytes - MaxScrollbackBytes
           trimmed == IF bytes > MaxScrollbackBytes THEN Trim(pieces, overflow, marks) ELSE pieces
<1>1. /\ MarksInv' /\ to \in Nat /\ Written \in Nat /\ Written < to /\ Written' = to
      /\ boundaries' = marks /\ ends' # <<>>
    BY DataArrives DEF MarksInv
<1>2. scrollback' = trimmed /\ totalBytes' = bytes - (Bytes(pieces) - Bytes(trimmed))
    BY DEF PtyData, AppendScrollback
<1>3. /\ base \in boundaries /\ base \in Nat /\ base <= Written /\ base + MaxScrollbackBytes >= Written
      /\ \A m \in boundaries : m + MaxScrollbackBytes >= Written => base <= m
    <2>1. boundaries \in SUBSET Nat /\ Written \in boundaries
        BY DEF MarksInv
    <2> QED
        BY <2>1, CutIsLeast
<1>4. MaxScrollbackBytes \in Nat \ {0}
    BY LogAssumption
<1>5. to \in marks /\ marks \in SUBSET Nat
    BY <1>1 DEF MarksInv
<1> HIDE DEF to
<1>6. piece \in Pieces /\ piece.from = Written /\ piece.to = to /\ Size(piece) = to - Written
    BY <1>1 DEF Pieces, Size
<1> HIDE DEF piece
<1>7. Covers(pieces, marks, base, to) /\ bytes = to - base
    <2>1. CASE ends = <<>>
        <3>1. scrollback = <<>> /\ totalBytes = 0 /\ Written = 0
            BY <2>1, BytesEmpty DEF ScrollInv, Written
        <3>2. base = 0 /\ 0 \in marks
            BY <1>3, <3>1 DEF MarksInv
        <3>3. pieces = <<piece>>
            BY <3>1
        <3>4. Len(pieces) = 1 /\ pieces[1] = piece /\ pieces \in Seq(Pieces) /\ pieces # <<>>
            BY <1>6, <3>3
        <3> HIDE DEF pieces, base
        <3>5. Covers(pieces, marks, base, to)
            BY <1>5, <1>6, <3>1, <3>2, <3>4 DEF Covers, Joined
        <3> QED
            BY <1>1, <1>6, <3>1, <3>2, <3>5
    <2>2. CASE ends # <<>>
        <3>1. Covers(scrollback, boundaries, base, Written)
            BY <2>2 DEF ScrollInv
        <3>2. totalBytes = Written - base
            BY <3>1, CoversBytes DEF ScrollInv
        <3> HIDE DEF base
        <3>3. Covers(pieces, marks, base, to)
            BY <1>5, <1>6, <3>1, AppendCovers
        <3> QED
            BY <1>1, <1>3, <1>6, <3>2, <3>3
    <2> QED
        BY <2>1, <2>2
<1> HIDE DEF pieces, bytes, base
<1>8. Bytes(pieces) = bytes
    BY <1>7, CoversBytes
<1>9. Covers(trimmed, marks, CutOf(marks, to), to)
    <2>1. CASE bytes > MaxScrollbackBytes
        <3>1. /\ overflow \in Nat /\ overflow < to - base
              /\ base + overflow = to - MaxScrollbackBytes
            BY <1>1, <1>3, <1>4, <1>7, <2>1
        <3> HIDE DEF overflow
        <3>2. Covers(Trim(pieces, overflow, marks), marks, Min({m \in marks : m >= base + overflow}), to)
            BY <1>5, <1>7, <3>1, TrimCovers
        <3>3. {m \in marks : m >= base + overflow} = {m \in marks : m + MaxScrollbackBytes >= to}
            BY <1>1, <1>4, <1>5, <3>1
        <3> QED
            BY <2>1, <3>2, <3>3 DEF CutOf
    <2>2. CASE ~(bytes > MaxScrollbackBytes)
        <3> DEFINE C == {m \in marks : m + MaxScrollbackBytes >= to}
        <3>1. C \subseteq Nat
            BY <1>5
        <3>2. base \in C
            BY <1>1, <1>3, <1>4, <1>7, <2>2
        <3>3. ASSUME NEW k \in C PROVE base <= k
            <4>1. CASE k \in boundaries
                BY <1>1, <1>3, <1>4, <1>5, <4>1
            <4>2. CASE k \in cuts
                BY <1>1, <1>3, <4>2 DEF Cuts
            <4> QED
                BY <4>1, <4>2
        <3> HIDE DEF C
        <3>4. Min(C) = base
            BY <3>1, <3>2, <3>3, MinIsUnique
        <3> QED
            BY <1>7, <2>2, <3>4 DEF CutOf, C
    <2> QED
        BY <2>1, <2>2
<1> HIDE DEF trimmed
<1>10. totalBytes' = Bytes(trimmed)
    <2>1. Bytes(trimmed) \in Int
        BY <1>9, CoversBytes
    <2>2. bytes \in Int
        BY <1>1, <1>3, <1>7
    <2> QED
        BY <1>2, <1>8, <2>1, <2>2
<1> QED
    BY <1>1, <1>2, <1>9, <1>10 DEF ScrollInv

-----------------------------------------------------------------------------
(* The ring of chunks *)

Chunks == {c \in [seq : Nat, from : Nat, to : Nat, start : Nat] :
              c.start <= c.from /\ c.from <= c.to}

\* Where chunk n of the output ended.
At(chunkEnds, n) == IF n = 0 THEN 0 ELSE chunkEnds[n]

\* The ring holds the last chunks, with their numbers and places.
Numbered(ring, chunkEnds) ==
    \A i \in 1..Len(ring) :
        /\ ring[i].seq = Len(chunkEnds) - Len(ring) + i
        /\ ring[i].start = At(chunkEnds, ring[i].seq - 1)
        /\ ring[i].to = At(chunkEnds, ring[i].seq)

RingInv ==
    /\ outputChunks \in Seq(Chunks)
    /\ outputChunkBytes = Bytes(outputChunks)
    /\ Len(outputChunks) <= LastSeq
    /\ ends # <<>> => outputChunks # <<>>
    /\ Numbered(outputChunks, ends)

LEMMA ChunksHaveSizes ==
    /\ \A x \in Chunks : Size(x) \in Nat
    /\ \A x \in Chunks : /\ x.seq \in Nat /\ x.from \in Nat /\ x.to \in Nat /\ x.start \in Nat
                         /\ x.start <= x.from /\ x.from <= x.to
BY DEF Chunks, Size

LEMMA NumberedAppend ==
    ASSUME NEW S, NEW ring \in Seq(S), NEW chunkEnds \in Seq(Nat), Numbered(ring, chunkEnds),
           Len(ring) <= Len(chunkEnds),
           NEW x \in Nat, NEW chunk \in S, chunk.seq = Len(chunkEnds) + 1,
           chunk.start = At(chunkEnds, Len(chunkEnds)), chunk.to = x
    PROVE  Numbered(Append(ring, chunk), Append(chunkEnds, x))
<1> DEFINE all == Append(ring, chunk)
           now == Append(chunkEnds, x)
           N == Len(ring)
           L == Len(chunkEnds)
<1>1. /\ N \in Nat /\ L \in Nat /\ N <= L /\ Len(all) = N + 1 /\ Len(now) = L + 1
      /\ all[N + 1] = chunk /\ (\A i \in 1..N : all[i] = ring[i])
      /\ now[L + 1] = x /\ (\A i \in 1..L : now[i] = chunkEnds[i])
    OBVIOUS
<1> HIDE DEF all, now
<1>2. \A k \in 0..L : At(now, k) = At(chunkEnds, k)
    BY <1>1 DEF At
<1>3. At(now, L + 1) = x
    BY <1>1 DEF At
<1>4. ASSUME NEW i \in 1 .. N + 1
      PROVE  /\ all[i].seq = (L + 1) - (N + 1) + i
             /\ all[i].start = At(now, all[i].seq - 1)
             /\ all[i].to = At(now, all[i].seq)
    <2> DEFINE k == L - N + i
               j == k - 1
    <2>1. k = (L + 1) - (N + 1) + i
        BY <1>1
    <2>2. CASE i = N + 1
        <3>1. k = L + 1 /\ j = L /\ L \in 0..L
            BY <1>1, <2>2
        <3> QED
            BY <1>1, <1>2, <1>3, <2>1, <2>2, <3>1
    <2>3. CASE i # N + 1
        <3>1. i \in 1..N /\ k \in 0..L /\ j \in 0..L
            <4>1. i \in Int /\ 1 <= i /\ i <= N /\ N \in Nat /\ L \in Nat /\ N <= L
                BY <1>1, <2>3
            <4> HIDE DEF N, L
            <4> QED
                BY <4>1
        <3>2. ring[i].seq = k /\ ring[i].start = At(chunkEnds, j) /\ ring[i].to = At(chunkEnds, k)
            BY <3>1 DEF Numbered
        <3>3. ring[i].seq - 1 = j
            BY <3>2
        <3> HIDE DEF k, j
        <3> QED
            BY <1>1, <1>2, <2>1, <3>1, <3>2, <3>3
    <2> QED
        BY <2>2, <2>3
<1>5. Numbered(all, now)
    BY <1>1, <1>4 DEF Numbered
<1> QED
    BY <1>5 DEF all, now

LEMMA WithoutPieces ==
    ASSUME NEW S, NEW s \in Seq(S), NEW n \in 0..Len(s)
    PROVE  /\ Without(s, n) \in Seq(S) /\ Len(Without(s, n)) = Len(s) - n
           /\ \A i \in 1 .. Len(s) - n : Without(s, n)[i] = s[n + i]
BY DEF Without

LEMMA NumberedWithout ==
    ASSUME NEW S, NEW ring \in Seq(S), NEW chunkEnds \in Seq(Nat), Numbered(ring, chunkEnds),
           NEW n \in 0..Len(ring)
    PROVE  Numbered(Without(ring, n), chunkEnds)
<1> DEFINE kept == Without(ring, n)
           N == Len(ring)
           L == Len(chunkEnds)
           M == N - n
<1>1. /\ N \in Nat /\ L \in Nat /\ n \in Nat /\ M \in Nat /\ Len(kept) = M /\ n + M = N
      /\ \A i \in 1..M : kept[i] = ring[n + i]
    <2>1. N \in Nat /\ L \in Nat /\ n \in Nat /\ M \in Nat /\ n + M = N
        OBVIOUS
    <2>2. Len(kept) = M /\ \A i \in 1..M : kept[i] = ring[n + i]
        <3> HIDE DEF kept
        <3> QED
            BY WithoutPieces DEF kept
    <2> QED
        BY <2>1, <2>2
<1> HIDE DEF kept, M
<1>4. ASSUME NEW k \in 1..N
      PROVE  /\ ring[k].seq = L - N + k
             /\ ring[k].start = At(chunkEnds, ring[k].seq - 1)
             /\ ring[k].to = At(chunkEnds, ring[k].seq)
    BY DEF Numbered
<1> HIDE DEF N, L
<1>2. ASSUME NEW i \in 1..M
      PROVE  /\ kept[i].seq = L - M + i
             /\ kept[i].start = At(chunkEnds, kept[i].seq - 1)
             /\ kept[i].to = At(chunkEnds, kept[i].seq)
    <2> DEFINE k == n + i
    <2>0. i \in Nat /\ i <= M /\ i >= 1 /\ k = n + i
        BY <1>1
    <2>1. k \in 1..N /\ L - N + k = L - M + i
        BY <1>1, <2>0
    <2>2. kept[i] = ring[k]
        BY <1>1
    <2> HIDE DEF k
    <2> QED
        BY <1>4, <2>1, <2>2
<1>3. Numbered(kept, chunkEnds)
    <2>1. Len(kept) = M
        BY <1>1
    <2> QED
        BY <1>2, <2>1 DEF Numbered, L
<1> QED
    BY <1>3 DEF kept

\* A ring whose last chunk fits is never emptied.
LEMMA EvictedKeepsLast ==
    ASSUME NEW ring \in Seq(Chunks), ring # <<>>, Size(ring[Len(ring)]) <= MaxScrollbackBytes
    PROVE  Evicted(ring, Bytes(ring)) \in 0 .. Len(ring) - 1
<1> DEFINE N == Len(ring)
           T == {n \in 0..N : \/ /\ Bytes(ring) - Bytes(SubSeq(ring, 1, n)) <= MaxScrollbackBytes
                                 /\ N - n <= MaxOutputChunks
                              \/ n = N}
           k == N - 1
<1>1. N \in Nat \ {0} /\ k \in 0 .. N - 1 /\ k \in 0..N /\ k + 1 = N /\ N - k = 1
    OBVIOUS
<1>2. SubSeq(ring, 1, N) = ring
    <2>1. Len(SubSeq(ring, 1, N)) = N /\ SubSeq(ring, 1, N) \in Seq(Chunks)
          /\ \A i \in 1..N : SubSeq(ring, 1, N)[i] = ring[i]
        BY <1>1
    <2> QED
        BY <2>1, SeqEqual
<1> HIDE DEF N, k
<1>3. Bytes(ring) = Bytes(SubSeq(ring, 1, k)) + Size(ring[N])
    BY <1>1, <1>2, BytesPrefix, ChunksHaveSizes DEF N
<1>4. k \in T
    <2>1. Bytes(SubSeq(ring, 1, k)) \in Nat
        <3>1. SubSeq(ring, 1, k) \in Seq(Chunks)
            BY <1>1 DEF N
        <3> QED
            BY <3>1, BytesNatural, ChunksHaveSizes
    <2>2. Size(ring[N]) \in Nat
        BY <1>1, ChunksHaveSizes DEF N
    <2>3. Bytes(ring) - Bytes(SubSeq(ring, 1, k)) <= MaxScrollbackBytes
        BY <1>3, <2>1, <2>2 DEF N
    <2>4. N - k <= MaxOutputChunks
        BY <1>1, LogAssumption
    <2> QED
        BY <1>1, <2>3, <2>4
<1>5. T \subseteq Nat
    BY <1>1
<1> HIDE DEF T
<1>6. Min(T) \in T /\ Min(T) <= k
    BY <1>4, <1>5, MinIsLeast
<1>7. Min(T) \in 0 .. N - 1
    <2>1. k \in Nat /\ k <= N - 1
        BY <1>1
    <2>2. Min(T) \in Nat
        BY <1>5, <1>6
    <2>3. Min(T) <= N - 1
        BY <1>1, <1>6, <2>1, <2>2
    <2> QED
        BY <1>1, <2>2, <2>3
<1> QED
    BY <1>7 DEF Evicted, T, N

LEMMA WrittenIsEnd ==
    ASSUME MarksInv
    PROVE  At(ends, LastSeq) = Written /\ LastSeq \in Nat
BY DEF MarksInv, At, LastSeq, Written, Last

LEMMA TakeLastFits ==
    ASSUME NEW marks \in SUBSET Nat, NEW piece \in Pieces, piece.to \in marks
    PROVE  LET kept == TakeLast(piece, MaxScrollbackBytes, marks)
           IN  /\ kept \in Pieces /\ kept.to = piece.to /\ piece.from <= kept.from
               /\ Size(kept) <= MaxScrollbackBytes
               /\ \A b \in marks : piece.from <= b /\ b < piece.to /\ piece.to <= b + MaxScrollbackBytes
                     => kept.from < kept.to
<1> DEFINE T == {m \in marks : m >= piece.to - MaxScrollbackBytes}
           kept == TakeLast(piece, MaxScrollbackBytes, marks)
<1>1. piece.from \in Nat /\ piece.to \in Nat /\ piece.from <= piece.to /\ MaxScrollbackBytes \in Nat \ {0}
    BY LogAssumption DEF Pieces
<1>2. CASE Size(piece) <= MaxScrollbackBytes
    <2>1. kept = piece
        BY <1>2 DEF TakeLast
    <2> HIDE DEF kept
    <2>2. \A b \in marks : piece.from <= b /\ b < piece.to => piece.from < piece.to
        <3>1. \A b \in marks : b \in Nat
            OBVIOUS
        <3> QED
            BY <1>1, <3>1
    <2>3. kept \in Pieces /\ kept.to = piece.to /\ piece.from <= kept.from /\ Size(kept) <= MaxScrollbackBytes
        BY <1>1, <1>2, <2>1
    <2> QED
        BY <2>1, <2>2, <2>3 DEF kept
<1>3. CASE ~(Size(piece) <= MaxScrollbackBytes)
    <2>1. T \subseteq Nat /\ piece.to \in T
        <3>1. piece.to >= piece.to - MaxScrollbackBytes
            BY <1>1
        <3>2. \A m \in marks : m \in Nat
            OBVIOUS
        <3> QED
            BY <3>1, <3>2
    <2>2. Min(T) \in T /\ \A k \in T : Min(T) <= k
        <3> HIDE DEF T
        <3> QED
            BY <2>1, MinIsLeast
    <2>3. Min(T) \in Nat /\ Min(T) <= piece.to /\ Min(T) >= piece.to - MaxScrollbackBytes
        BY <2>1, <2>2
    <2>4. kept = [piece EXCEPT !.from = Min(T)]
        BY <1>3 DEF TakeLast
    <2>5. \A b \in marks : piece.to <= b + MaxScrollbackBytes => Min(T) <= b /\ b \in Nat
        <3>1. \A b \in marks : b \in Nat /\ (piece.to <= b + MaxScrollbackBytes => b \in T)
            BY <1>1
        <3> QED
            BY <2>2, <3>1
    <2> HIDE DEF T, kept
    <2>6. kept \in Pieces /\ kept.from = Min(T) /\ kept.to = piece.to
        BY <2>3, <2>4 DEF Pieces
    <2>7. piece.to - piece.from > MaxScrollbackBytes
        BY <1>1, <1>3 DEF Size
    <2>8. piece.from <= kept.from /\ Size(kept) <= MaxScrollbackBytes
        BY <1>1, <2>3, <2>6, <2>7 DEF Size
    <2>9. \A b \in marks : b < piece.to /\ piece.to <= b + MaxScrollbackBytes => kept.from < kept.to
        BY <1>1, <2>3, <2>5, <2>6
    <2> QED
        BY <2>6, <2>8, <2>9 DEF kept
<1> QED
    BY <1>2, <1>3

\* The chunk PtyData adds to the ring.
NewChunk(cuts) ==
    LET piece == [from |-> Written, to |-> Max(cuts)]
        kept == TakeLast(piece, MaxScrollbackBytes, boundaries \union cuts)
    IN  [seq |-> LastSeq + 1, from |-> kept.from, to |-> kept.to, start |-> piece.from]

LEMMA NewChunkFits ==
    ASSUME MarksInv, NEW cuts \in Cuts, PtyData(cuts)
    PROVE  /\ NewChunk(cuts) \in Chunks
           /\ NewChunk(cuts).seq = LastSeq + 1
           /\ NewChunk(cuts).start = Written
           /\ NewChunk(cuts).to = Max(cuts)
           /\ Size(NewChunk(cuts)) <= MaxScrollbackBytes
           /\ \A b \in boundaries' :
                 Written <= b /\ b < Max(cuts) /\ Max(cuts) <= b + MaxScrollbackBytes
                 => NewChunk(cuts).from < NewChunk(cuts).to
<1> DEFINE piece == [from |-> Written, to |-> Max(cuts)]
           marks == boundaries \union cuts
           kept == TakeLast(piece, MaxScrollbackBytes, marks)
           chunk == NewChunk(cuts)
<1>1. /\ MarksInv' /\ Max(cuts) \in Nat /\ Written \in Nat /\ Written < Max(cuts)
      /\ Written' = Max(cuts) /\ boundaries' = marks
    BY DataArrives DEF MarksInv
<1>2. Max(cuts) \in marks /\ marks \in SUBSET Nat
    BY <1>1 DEF MarksInv
<1>3. piece \in Pieces /\ piece.from = Written /\ piece.to = Max(cuts)
    BY <1>1 DEF Pieces
<1>4. LastSeq \in Nat
    BY WrittenIsEnd
<1>5. chunk = [seq |-> LastSeq + 1, from |-> kept.from, to |-> kept.to, start |-> piece.from]
    BY DEF NewChunk
<1> HIDE DEF piece, marks
<1>6. /\ kept \in Pieces /\ kept.to = piece.to /\ piece.from <= kept.from
      /\ Size(kept) <= MaxScrollbackBytes
      /\ \A b \in marks : piece.from <= b /\ b < piece.to /\ piece.to <= b + MaxScrollbackBytes
            => kept.from < kept.to
    BY <1>2, <1>3, TakeLastFits
<1> HIDE DEF kept, chunk
<1>7. kept.from \in Nat /\ kept.to \in Nat /\ kept.from <= kept.to
    BY <1>6 DEF Pieces
<1>8. /\ chunk \in Chunks /\ chunk.seq = LastSeq + 1 /\ chunk.start = Written
      /\ chunk.from = kept.from /\ chunk.to = kept.to
    BY <1>1, <1>3, <1>4, <1>5, <1>6, <1>7 DEF Chunks
<1>9. Size(chunk) = Size(kept)
    BY <1>8 DEF Size
<1> QED
    BY <1>1, <1>3, <1>6, <1>8, <1>9 DEF chunk

\* The ring gets the new chunk and drops old ones.
LEMMA DataKeepsRing ==
    ASSUME MarksInv, RingInv, NEW cuts \in Cuts, PtyData(cuts)
    PROVE  /\ RingInv'
           /\ \E n \in 0 .. Len(outputChunks) :
                 outputChunks' = Without(Append(outputChunks, NewChunk(cuts)), n)
<1> DEFINE chunk == NewChunk(cuts)
           ring == Append(outputChunks, chunk)
           evicted == Evicted(ring, Bytes(ring))
           N == Len(outputChunks)
<1>1. /\ chunk \in Chunks /\ chunk.seq = LastSeq + 1 /\ chunk.start = Written
      /\ chunk.to = Max(cuts) /\ Size(chunk) <= MaxScrollbackBytes
    BY NewChunkFits
<1>2. ends' = Append(ends, Max(cuts)) /\ Max(cuts) \in Nat /\ ends \in Seq(Nat) /\ ends' # <<>>
    BY DataArrives DEF MarksInv
<1>3. Bytes(ring) = outputChunkBytes + Size(chunk)
    BY <1>1, BytesAppend, ChunksHaveSizes DEF RingInv
<1>4. /\ outputChunks' = Without(ring, evicted)
      /\ outputChunkBytes' = Bytes(ring) - Bytes(SubSeq(ring, 1, evicted))
    <2> DEFINE piece == [from |-> Written, to |-> Max(cuts)]
               marks == boundaries \union cuts
               kept == TakeLast(piece, MaxScrollbackBytes, marks)
               sum == outputChunkBytes + Size(kept)
    <2>0. AppendOutputChunk(piece, marks)
        BY DEF PtyData
    <2>1. chunk = [seq |-> LastSeq + 1, from |-> kept.from, to |-> kept.to, start |-> piece.from]
        BY DEF NewChunk
    <2> HIDE DEF piece, marks, chunk
    <2>2. outputChunks' = Without(ring, Evicted(ring, sum)) /\ outputChunkBytes' = sum - Bytes(SubSeq(ring, 1, Evicted(ring, sum)))
        BY <2>0, <2>1, Zenon DEF AppendOutputChunk
    <2> HIDE DEF ring
    <2>3. sum = Bytes(ring)
        <3>1. Size(kept) = Size(chunk)
            BY <2>1 DEF Size
        <3> QED
            BY <1>3, <3>1
    <2> HIDE DEF sum
    <2> QED
        BY <2>2, <2>3
<1> HIDE DEF chunk
<1>5. /\ ring \in Seq(Chunks) /\ ring # <<>> /\ Len(ring) = N + 1 /\ ring[Len(ring)] = chunk
      /\ N \in Nat
    BY <1>1 DEF RingInv
<1>6. Numbered(ring, ends')
    <2>1. chunk.start = At(ends, Len(ends)) /\ chunk.seq = Len(ends) + 1
        BY <1>1, WrittenIsEnd DEF LastSeq
    <2> QED
        BY <1>1, <1>2, <2>1, NumberedAppend DEF RingInv, LastSeq
<1> HIDE DEF ring
<1>7. evicted \in 0..N /\ evicted \in 0..Len(ring)
    <2>1. evicted \in 0 .. Len(ring) - 1
        BY <1>1, <1>5, EvictedKeepsLast
    <2> HIDE DEF evicted
    <2> QED
        BY <1>5, <2>1
<1> HIDE DEF evicted
<1>8. /\ outputChunks' \in Seq(Chunks) /\ Len(outputChunks') = Len(ring) - evicted
      /\ Numbered(outputChunks', ends')
    <2>1. ends' \in Seq(Nat)
        BY <1>2
    <2> QED
        BY <1>4, <1>5, <1>6, <1>7, <2>1, WithoutPieces, NumberedWithout
<1>9. outputChunkBytes' = Bytes(outputChunks')
    <2>1. Bytes(ring) = Bytes(SubSeq(ring, 1, evicted)) + Bytes(Without(ring, evicted))
        BY <1>5, <1>7, BytesSplit, ChunksHaveSizes
    <2>2. Bytes(SubSeq(ring, 1, evicted)) \in Nat /\ Bytes(Without(ring, evicted)) \in Nat
        <3>1. SubSeq(ring, 1, evicted) \in Seq(Chunks)
            BY <1>5, <1>7
        <3>2. Without(ring, evicted) \in Seq(Chunks)
            BY <1>4, <1>8
        <3> QED
            BY <3>1, <3>2, BytesNatural, ChunksHaveSizes
    <2> QED
        BY <1>4, <2>1, <2>2
<1>10. outputChunks' # <<>> /\ Len(outputChunks') <= LastSeq'
    <2>1. LastSeq' = LastSeq + 1 /\ LastSeq \in Nat
        BY <1>2 DEF LastSeq
    <2>2. Len(outputChunks') = N + 1 - evicted /\ N <= LastSeq
        <3>1. N <= LastSeq
            BY DEF RingInv
        <3> QED
            BY <1>5, <1>7, <1>8, <3>1
    <2>3. Len(outputChunks') # 0
        BY <1>5, <1>7, <2>2
    <2> QED
        BY <1>5, <1>7, <1>8, <2>1, <2>2, <2>3
<1> QED
    BY <1>4, <1>7, <1>8, <1>9, <1>10 DEF RingInv, ring, chunk

-----------------------------------------------------------------------------
(* Polls *)

\* The chunks continue the output from one offset to another.
Follow(chunks, from, to) ==
    /\ chunks \in Seq(Chunks)
    /\ \A i \in 1 .. Len(chunks) - 1 : chunks[i].to = chunks[i + 1].start
    /\ IF chunks = <<>> THEN from = to
       ELSE chunks[1].start = from /\ chunks[Len(chunks)].to = to

Missing(chunks) == [n \in DOMAIN chunks |-> Truncated(chunks[n])]

\* What is not there and what is sent add up to the stretch the chunks follow.
LEMMA ChunkSums ==
    ASSUME NEW from \in Nat, NEW to \in Nat, NEW chunks, Follow(chunks, from, to)
    PROVE  /\ Bytes(Missing(chunks)) \in Nat /\ Bytes(chunks) \in Nat
           /\ Bytes(Missing(chunks)) + Bytes(chunks) = to - from
<1> DEFINE N == Len(chunks)
           missing == Missing(chunks)
<1>1. /\ chunks \in Seq(Chunks) /\ N \in Nat /\ DOMAIN chunks = 1..N
      /\ \A i \in 1..N : chunks[i] \in Chunks
    BY DEF Follow
<1>2. missing = [n \in 1..N |-> Truncated(chunks[n])]
    BY <1>1 DEF Missing
<1>3. \A x \in Chunks : Truncated(x) \in Pieces /\ Size(Truncated(x)) = x.from - x.start
    BY ChunksHaveSizes DEF Truncated, Pieces, Size
<1> HIDE DEF missing
<1>4. missing \in Seq(Pieces) /\ Len(missing) = N /\ \A i \in 1..N : missing[i] = Truncated(chunks[i])
    BY <1>1, <1>2, <1>3
<1>5. PICK p \in [0..Len(chunks) -> Nat] :
          p[0] = 0 /\ (\A n \in 1..Len(chunks) : p[n] = p[n - 1] + Size(chunks[n]))
          /\ p[Len(chunks)] = Bytes(chunks)
    BY <1>1, BytesSums, ChunksHaveSizes
<1>6. PICK r \in [0..Len(missing) -> Nat] :
          r[0] = 0 /\ (\A n \in 1..Len(missing) : r[n] = r[n - 1] + Size(missing[n]))
          /\ r[Len(missing)] = Bytes(missing)
    BY <1>4, BytesSums, PiecesHaveSizes
<1>7. Bytes(missing) \in Nat /\ Bytes(chunks) \in Nat
    BY <1>1, <1>4, BytesNatural, ChunksHaveSizes, PiecesHaveSizes
<1>8. CASE N = 0
    <2>1. chunks = <<>> /\ from = to
        BY <1>1, <1>8 DEF Follow
    <2>2. missing = <<>>
        BY <1>4, <1>8
    <2> QED
        BY <2>1, <2>2, BytesEmpty DEF missing
<1>9. CASE N # 0
    <2> DEFINE d == [n \in 0..N |-> p[n] + r[n]]
               q == [n \in 0..N |-> IF n = 0 THEN 0 ELSE chunks[n].to - chunks[1].start]
    <2>1. chunks[1].start = from /\ chunks[N].to = to /\ 1 \in 1..N /\ N \in 1..N /\ N \in 0..N /\ 0 \in 0..N
        BY <1>1, <1>9 DEF Follow
    <2>2. \A n \in 0..N : p[n] \in Nat /\ r[n] \in Nat
        BY <1>4, <1>5, <1>6
    <2>3. \A n \in 1..N : chunks[n].to \in Nat
        BY <1>1, ChunksHaveSizes
    <2>4. \A n \in 0..N : d[n] \in Int /\ q[n] \in Int
        <3>1. \A n \in 0..N : d[n] = p[n] + r[n]
            OBVIOUS
        <3>2. \A n \in 0..N : q[n] = IF n = 0 THEN 0 ELSE chunks[n].to - from
            BY <2>1
        <3> HIDE DEF d, q
        <3>3. ASSUME NEW n \in 0..N PROVE d[n] \in Int
            <4>1. d[n] = p[n] + r[n] /\ p[n] \in Nat /\ r[n] \in Nat
                BY <2>2, <3>1
            <4> QED
                BY <4>1
        <3>4. ASSUME NEW n \in 0..N PROVE q[n] \in Int
            <4>1. n # 0 => n \in 1..N
                BY <1>1
            <4>2. n # 0 => chunks[n].to \in Nat
                BY <2>3, <4>1
            <4>3. q[n] = IF n = 0 THEN 0 ELSE chunks[n].to - from
                BY <3>2
            <4> QED
                BY <4>2, <4>3
        <3> QED
            BY <3>3, <3>4
    <2>5. ASSUME NEW n \in 1..N PROVE d[n] - d[n - 1] = q[n] - q[n - 1]
        <3> DEFINE j == n - 1
                   x == chunks[n]
        <3>1. n \in 0..N /\ j \in 0..N /\ n # 0
            BY <1>1
        <3>2. x \in Chunks /\ missing[n] = Truncated(x)
            BY <1>1, <1>4
        <3>3. p[n] = p[j] + Size(x) /\ r[n] = r[j] + (x.from - x.start)
            <4>1. p[n] = p[j] + Size(x)
                BY <1>5
            <4>2. r[n] = r[j] + Size(missing[n])
                BY <1>4, <1>6
            <4> QED
                BY <1>3, <3>2, <4>1, <4>2
        <3>4. Size(x) = x.to - x.from /\ x.to \in Nat /\ x.from \in Nat /\ x.start \in Nat
            BY <3>2, ChunksHaveSizes DEF Size
        <3>5. d[n] = p[n] + r[n] /\ d[j] = p[j] + r[j] /\ p[j] \in Nat /\ r[j] \in Nat
            BY <2>2, <3>1
        <3>6. q[n] = x.to - from
            BY <2>1, <3>1
        <3>7. q[j] = x.start - from
            <4>1. CASE j = 0
                <5>1. n = 1 /\ q[j] = 0 /\ x.start = from
                    BY <2>1, <3>1, <4>1
                <5> QED
                    BY <5>1
            <4>2. CASE j # 0
                <5>1. j \in 1 .. N - 1 /\ j + 1 = n
                    BY <1>1, <4>2
                <5>2. chunks[j].to = x.start
                    BY <5>1 DEF Follow
                <5>3. q[j] = chunks[j].to - chunks[1].start
                    BY <3>1, <4>2
                <5> QED
                    BY <2>1, <5>2, <5>3
            <4> QED
                BY <4>1, <4>2
        <3> HIDE DEF d, q, x
        <3>8. d[n] - d[j] = x.to - x.start
            <4> DEFINE a == p[j]
                       b == r[j]
            <4>1. a \in Nat /\ b \in Nat /\ d[j] = a + b
                BY <3>5
            <4>2. d[n] = (a + (x.to - x.from)) + (b + (x.from - x.start))
                BY <3>3, <3>4, <3>5
            <4> DEFINE t == x.to
                       f == x.from
                       o == x.start
                       dn == d[n]
                       dj == d[j]
            <4>3. t \in Nat /\ f \in Nat /\ o \in Nat
                BY <3>4
            <4> HIDE DEF a, b, j
            <4>4. dj = a + b /\ dn = (a + (t - f)) + (b + (f - o))
                BY <4>1, <4>2
            <4> HIDE DEF t, f, o, dn, dj
            <4>5. dn - dj = t - o
                BY <4>1, <4>3, <4>4
            <4> QED
                BY <4>5 DEF dn, dj, t, o
        <3>9. q[n] - q[j] = x.to - x.start
            <4> HIDE DEF j
            <4> QED
                BY <3>4, <3>6, <3>7
        <3> QED
            BY <3>8, <3>9
    <2>6. d[0] = 0 /\ q[0] = 0 /\ d[N] = p[N] + r[N] /\ q[N] = to - from
        <3>1. d[0] = p[0] + r[0] /\ d[N] = p[N] + r[N] /\ q[0] = 0 /\ q[N] = chunks[N].to - chunks[1].start
            BY <1>9, <2>1
        <3> QED
            BY <1>5, <1>6, <2>1, <3>1
    <2> HIDE DEF d, q
    <2>7. SameTerms(d, q, N)
        BY <2>4, <2>5, <2>6 DEF SameTerms
    <2>8. d[N] = q[N]
        BY <1>1, <2>7, SumsAgree
    <2>9. Bytes(missing) + Bytes(chunks) = to - from
        BY <1>4, <1>5, <1>6, <1>7, <2>6, <2>8
    <2> QED
        BY <1>7, <2>9 DEF missing
<1> QED
    BY <1>7, <1>8, <1>9 DEF missing

LEMMA BytesZero ==
    ASSUME NEW S, \A x \in S : Size(x) \in Nat, NEW s \in Seq(S), Bytes(s) = 0,
           NEW n \in 1..Len(s)
    PROVE  Size(s[n]) = 0
<1> DEFINE m == n - 1
           head == SubSeq(s, 1, m)
           more == SubSeq(s, 1, m + 1)
<1>1. m \in 0 .. Len(s) - 1 /\ m + 1 = n /\ n \in 0..Len(s) /\ m \in 0..Len(s)
    OBVIOUS
<1>2. Bytes(more) = Bytes(head) + Size(s[m + 1])
    BY <1>1, BytesPrefix
<1>3. Bytes(s) = Bytes(SubSeq(s, 1, n)) + Bytes(Without(s, n))
    BY <1>1, BytesSplit
<1>4. head \in Seq(S) /\ SubSeq(s, 1, n) \in Seq(S) /\ Without(s, n) \in Seq(S) /\ s[n] \in S
    BY <1>1, WithoutPieces
<1>5. Bytes(head) \in Nat /\ Bytes(SubSeq(s, 1, n)) \in Nat /\ Bytes(Without(s, n)) \in Nat
      /\ Size(s[n]) \in Nat
    BY <1>4, BytesNatural
<1>6. Bytes(SubSeq(s, 1, n)) = Bytes(head) + Size(s[n])
    BY <1>1, <1>2
<1> QED
    BY <1>3, <1>5, <1>6

\* If nothing is missing, the chunks are joined.
LEMMA WholeChunks ==
    ASSUME NEW from \in Nat, NEW to \in Nat, NEW chunks, Follow(chunks, from, to),
           Bytes(Missing(chunks)) = 0
    PROVE  Joined(chunks) /\ (chunks # <<>> => chunks[1].from = from)
<1> DEFINE N == Len(chunks)
           missing == Missing(chunks)
<1>1. /\ chunks \in Seq(Chunks) /\ N \in Nat /\ DOMAIN chunks = 1..N
      /\ \A i \in 1..N : chunks[i] \in Chunks
    BY DEF Follow
<1>2. \A x \in Chunks : Truncated(x) \in Pieces /\ Size(Truncated(x)) = x.from - x.start
    BY ChunksHaveSizes DEF Truncated, Pieces, Size
<1>3. missing \in Seq(Pieces) /\ Len(missing) = N /\ \A i \in 1..N : missing[i] = Truncated(chunks[i])
    BY <1>1, <1>2 DEF Missing
<1> HIDE DEF missing
<1>4. ASSUME NEW i \in 1..N PROVE chunks[i].from = chunks[i].start
    <2>1. Size(missing[i]) = 0
        <3>1. Bytes(missing) = 0
            BY DEF missing
        <3> QED
            BY <1>3, <3>1, BytesZero, PiecesHaveSizes
    <2>2. chunks[i].from - chunks[i].start = 0 /\ chunks[i].from \in Nat /\ chunks[i].start \in Nat
        BY <1>1, <1>2, <1>3, <2>1, ChunksHaveSizes
    <2> QED
        BY <2>2
<1>5. ASSUME NEW i \in 1 .. N - 1 PROVE chunks[i].to = chunks[i + 1].from
    <2> DEFINE k == i + 1
    <2>1. k \in 1..N
        BY <1>1
    <2>2. chunks[i].to = chunks[k].start
        BY DEF Follow
    <2> HIDE DEF k
    <2>3. chunks[k].from = chunks[k].start
        BY <1>4, <2>1
    <2> QED
        BY <2>2, <2>3 DEF k
<1>6. chunks # <<>> => chunks[1].from = from
    <2>1. chunks # <<>> => 1 \in 1..N
        BY <1>1
    <2> QED
        BY <1>4, <2>1 DEF Follow
<1> QED
    BY <1>5, <1>6 DEF Joined

\* A poll of a cursor the ring still reaches sends what follows it.
LEMMA UnseenFollow ==
    ASSUME MarksInv, RingInv, NEW afterSeq \in 0..LastSeq, ~StaleCursor(afterSeq)
    PROVE  /\ Follow(Without(outputChunks, Seen(afterSeq)), EndOf(afterSeq), Written)
           /\ EndOf(afterSeq) \in Nat
           /\ Seen(afterSeq) \in 0..Len(outputChunks)
<1> DEFINE N == Len(outputChunks)
           L == Len(ends)
           seen == afterSeq - (L - N)
           T == {n \in 0..N : n = 0 \/ outputChunks[n].seq <= afterSeq}
           chunks == Without(outputChunks, seen)
           K == L - afterSeq
<1>1. /\ N \in Nat /\ L \in Nat /\ N <= L /\ afterSeq \in Nat /\ afterSeq <= L /\ LastSeq = L
      /\ outputChunks \in Seq(Chunks) /\ ends \in Seq(Nat) /\ Numbered(outputChunks, ends)
    BY DEF RingInv, MarksInv, LastSeq
<1>2. \A i \in 1..N : outputChunks[i].seq = L - N + i
    BY DEF RingInv, Numbered
<1>3. seen \in 0..N
    <2>1. CASE outputChunks = <<>>
        <3>1. N = 0 /\ L = 0
            BY <1>1, <2>1 DEF RingInv
        <3> QED
            BY <1>1, <3>1
    <2>2. CASE outputChunks # <<>>
        <3>1. 1 \in 1..N
            BY <1>1, <2>2
        <3>2. outputChunks[1].seq = L - N + 1
            BY <1>2, <3>1
        <3>3. ~(afterSeq + 1 < outputChunks[1].seq)
            BY <2>2 DEF StaleCursor, FirstSeq
        <3> QED
            BY <1>1, <3>2, <3>3
    <2> QED
        BY <2>1, <2>2
<1>4. Seen(afterSeq) = seen
    <2>1. seen \in T
        <3>1. CASE seen = 0
            BY <1>3, <3>1
        <3>2. CASE seen # 0
            <4>1. seen \in 1..N /\ L - N + seen = afterSeq
                BY <1>1, <1>3, <3>2
            <4> HIDE DEF seen
            <4>2. outputChunks[seen].seq = afterSeq
                BY <1>2, <4>1
            <4> QED
                BY <1>1, <1>3, <4>2
        <3> QED
            BY <3>1, <3>2
    <2>2. ASSUME NEW n \in T PROVE n <= seen
        <3>1. CASE n = 0
            BY <1>3, <3>1
        <3>2. CASE n # 0
            <4>1. n \in 1..N /\ outputChunks[n].seq <= afterSeq
                BY <3>2
            <4>2. outputChunks[n].seq = L - N + n
                BY <1>2, <4>1
            <4> QED
                BY <1>1, <4>1, <4>2
        <3> QED
            BY <3>1, <3>2
    <2>3. T \subseteq 0..N
        OBVIOUS
    <2> HIDE DEF T, seen
    <2>4. Max(T) \in T /\ seen <= Max(T)
        BY <1>1, <2>1, <2>3, MaxIsGreatest
    <2>5. Max(T) <= seen /\ Max(T) \in Nat /\ seen \in Nat
        <3>1. Max(T) <= seen
            BY <2>2, <2>4
        <3>2. Max(T) \in 0..N
            BY <2>3, <2>4
        <3> QED
            BY <1>3, <3>1, <3>2
    <2>6. Max(T) = seen
        BY <2>4, <2>5
    <2> QED
        BY <2>6 DEF Seen, T
<1>5. K \in Nat /\ N - seen = K
    BY <1>1
<1> HIDE DEF seen, T
<1>6. chunks \in Seq(Chunks) /\ Len(chunks) = K
    BY <1>1, <1>3, <1>5, WithoutPieces
<1>7. Numbered(chunks, ends)
    BY <1>1, <1>3, NumberedWithout
<1> HIDE DEF chunks
<1>8. ASSUME NEW i \in 1..K
      PROVE  /\ chunks[i].seq = afterSeq + i
             /\ chunks[i].start = At(ends, afterSeq + i - 1)
             /\ chunks[i].to = At(ends, afterSeq + i)
    <2>1. chunks[i].seq = L - K + i /\ chunks[i].start = At(ends, chunks[i].seq - 1)
          /\ chunks[i].to = At(ends, chunks[i].seq)
        BY <1>6, <1>7 DEF Numbered
    <2>2. L - K + i = afterSeq + i
        BY <1>1
    <2> QED
        BY <2>1, <2>2
<1>9. At(ends, L) = Written /\ EndOf(afterSeq) = At(ends, afterSeq)
    BY <1>1, WrittenIsEnd DEF EndOf, At
<1>10. ASSUME NEW i \in 1 .. K - 1 PROVE chunks[i].to = chunks[i + 1].start
    <2> DEFINE k == i + 1
    <2>1. i \in 1..K /\ k \in 1..K /\ afterSeq + k - 1 = afterSeq + i
        BY <1>1, <1>5
    <2>2. chunks[i].to = At(ends, afterSeq + i)
        BY <1>8, <2>1
    <2>3. chunks[k].start = At(ends, afterSeq + k - 1)
        BY <1>8, <2>1
    <2> HIDE DEF k
    <2>4. chunks[i].to = chunks[k].start
        BY <2>1, <2>2, <2>3
    <2> QED
        BY <2>4 DEF k
<1>11. CASE K = 0
    <2>1. chunks = <<>> /\ afterSeq = L
        BY <1>1, <1>6, <1>11
    <2>2. EndOf(afterSeq) = Written
        BY <1>9, <2>1
    <2>3. Follow(chunks, EndOf(afterSeq), Written)
        BY <1>6, <1>10, <2>1, <2>2 DEF Follow
    <2> QED
        BY <1>3, <1>4, <2>2, <2>3 DEF chunks, MarksInv
<1>12. CASE K # 0
    <2>1. chunks # <<>> /\ 1 \in 1..K /\ K \in 1..K /\ afterSeq + 1 - 1 = afterSeq /\ afterSeq + K = L
        BY <1>1, <1>5, <1>6, <1>12
    <2>2. chunks[1].start = At(ends, afterSeq + 1 - 1) /\ chunks[1] \in Chunks
        BY <1>6, <1>8, <2>1
    <2>3. chunks[K].to = At(ends, afterSeq + K)
        BY <1>8, <2>1
    <2> HIDE DEF K
    <2>4. chunks[1].start = EndOf(afterSeq) /\ chunks[K].to = Written
        BY <1>9, <2>1, <2>2, <2>3
    <2>5. EndOf(afterSeq) \in Nat
        BY <2>2, <2>4, ChunksHaveSizes
    <2>6. Follow(chunks, EndOf(afterSeq), Written)
        BY <1>6, <1>10, <2>1, <2>4 DEF Follow
    <2> QED
        BY <1>3, <1>4, <2>5, <2>6 DEF chunks
<1> QED
    BY <1>11, <1>12

-----------------------------------------------------------------------------
(* The log *)

LogInv == MarksInv /\ ScrollInv /\ RingInv

LEMMA LogInit == Init => LogInv
<1> SUFFICES ASSUME Init PROVE LogInv
    OBVIOUS
<1> USE DEF Init
<1>1. MarksInv
    BY DEF MarksInv, Written
<1>2. ScrollInv
    BY BytesEmpty DEF ScrollInv
<1>3. RingInv
    BY BytesEmpty DEF RingInv, Numbered, LastSeq
<1> QED
    BY <1>1, <1>2, <1>3 DEF LogInv

LEMMA LogStep == LogInv /\ [Next]_vars => LogInv'
<1> SUFFICES ASSUME LogInv, [Next]_vars PROVE LogInv'
    OBVIOUS
<1>1. ASSUME NEW cuts \in Cuts, PtyData(cuts) PROVE LogInv'
    BY <1>1, DataArrives, DataKeepsScroll, DataKeepsRing DEF LogInv
<1>2. ASSUME UNCHANGED <<boundaries, ends, scrollback, totalBytes, outputChunks, outputChunkBytes>>
      PROVE  LogInv'
    <2> USE <1>2
    <2>1. Written' = Written /\ LastSeq' = LastSeq
        BY DEF Written, LastSeq
    <2>2. MarksInv'
        BY <2>1 DEF LogInv, MarksInv
    <2>3. ScrollInv'
        BY <2>1 DEF LogInv, ScrollInv
    <2>4. RingInv'
        BY <2>1 DEF LogInv, RingInv
    <2> QED
        BY <2>2, <2>3, <2>4 DEF LogInv
<1>3. CASE PtyExit
    BY <1>2, <1>3 DEF PtyExit
<1>4. CASE ViewStep
    BY <1>2, <1>4 DEF ViewStep, AttachView, SendPoll, AnswerPoll, ReceivePoll, LosePoll, logVars
<1>5. CASE UNCHANGED vars
    BY <1>2, <1>5 DEF vars, logVars
<1> QED
    BY <1>1, <1>3, <1>4, <1>5 DEF Next, Cuts

\* The buffers keep what they are meant to: the scrollback covers the output from
\* the cut on, the ring holds the last chunks under their numbers, and both byte
\* counts are right, for output of any length in chunks of any sizes.
THEOREM LogInvariant == Spec => []LogInv
BY LogInit, LogStep, PTL DEF Spec

\* The scrollback of BoundedTextBuffer is the longest aligned suffix of the output
\* that fits, for any limit and any way to cut the output into chunks.
THEOREM ScrollbackExact == Spec => []ScrollbackIsLongestSuffix
<1>1. ASSUME LogInv PROVE ScrollbackIsLongestSuffix
    <2> DEFINE cut == CutOf(boundaries, Written)
    <2>0. MarksInv /\ ScrollInv
        BY <1>1 DEF LogInv
    <2>1. CASE ends = <<>>
        <3>1. scrollback = <<>> /\ totalBytes = 0 /\ Written = 0 /\ totalBytes = Bytes(scrollback)
            BY <2>0, <2>1, BytesEmpty DEF ScrollInv, Written
        <3>2. cut = 0
            <4>1. boundaries \in SUBSET Nat /\ Written \in boundaries
                BY <2>0 DEF MarksInv
            <4>2. cut \in boundaries /\ cut <= Written
                BY <4>1, CutIsLeast
            <4> HIDE DEF cut
            <4> QED
                BY <3>1, <4>1, <4>2
        <3> QED
            BY <3>1, <3>2 DEF ScrollbackIsLongestSuffix, CutOf, Joined
    <2>2. CASE ends # <<>>
        <3>1. Covers(scrollback, boundaries, cut, Written) /\ totalBytes = Bytes(scrollback)
            BY <2>0, <2>2 DEF ScrollInv
        <3> HIDE DEF cut
        <3>2. Bytes(scrollback) = Written - cut
            BY <3>1, CoversBytes
        <3>3. Joined(scrollback) /\ Last(scrollback).to = Written
            BY <3>1 DEF Covers, Last
        <3> QED
            BY <3>1, <3>2, <3>3 DEF ScrollbackIsLongestSuffix, CutOf, cut
    <2> QED
        BY <2>1, <2>2
<1> QED
    BY <1>1, LogInvariant, PTL

\* What pollSession answers, by cursor.
LEMMA PollAnswers ==
    ASSUME MarksInv, RingInv, NEW afterSeq \in 0..LastSeq, ~StaleCursor(afterSeq)
    PROVE  LET poll == PollSession(afterSeq)
               chunks == Without(outputChunks, Seen(afterSeq))
           IN  /\ poll.pieces = chunks
               /\ poll.nextSeq = LastSeq
               /\ poll.truncatedBytes = Bytes(Missing(chunks))
               /\ poll.reset = (Bytes(Missing(chunks)) > 0)
               /\ poll.snapshot = FALSE
               /\ poll.exited = exited
<1>1. ~CursorAhead(afterSeq)
    BY WrittenIsEnd DEF CursorAhead
<1> QED
    BY <1>1 DEF PollSession, Missing

LEMMA SnapshotAnswers ==
    ASSUME NEW afterSeq, StaleCursor(afterSeq) \/ CursorAhead(afterSeq)
    PROVE  PollSession(afterSeq) = SnapshotPoll
BY DEF PollSession

\* Whatever cursor a client sends, the answer is exact: it continues the output
\* where the cursor stands, or it resets the client and counts what is missing.
THEOREM PollsGapless == Spec => []PollIsGapless
<1>1. ASSUME LogInv, NEW afterSeq \in 0 .. LastSeq + 1
      PROVE  LET poll == PollSession(afterSeq)
                 sent == Bytes(poll.pieces)
             IN  /\ afterSeq > LastSeq => poll.snapshot
                 /\ ~poll.reset =>
                       /\ sent = Written - EndOf(afterSeq)
                       /\ Joined(poll.pieces)
                       /\ poll.pieces # <<>> => poll.pieces[1].from = EndOf(afterSeq)
                 /\ poll.reset /\ ~poll.snapshot =>
                       poll.truncatedBytes + sent = Written - EndOf(afterSeq)
    <2> DEFINE poll == PollSession(afterSeq)
    <2>0. MarksInv /\ RingInv /\ LastSeq \in Nat /\ Written \in Nat
        BY <1>1, WrittenIsEnd DEF LogInv, MarksInv
    <2>1. CASE StaleCursor(afterSeq) \/ afterSeq > LastSeq
        <3>1. poll = SnapshotPoll
            BY <2>1, SnapshotAnswers DEF CursorAhead
        <3>2. poll.reset = TRUE /\ poll.snapshot = TRUE
            BY <3>1 DEF SnapshotPoll
        <3> HIDE DEF poll
        <3> QED
            BY <3>2, Zenon DEF poll
    <2>2. CASE ~StaleCursor(afterSeq) /\ ~(afterSeq > LastSeq)
        <3> DEFINE chunks == Without(outputChunks, Seen(afterSeq))
                   lost == Bytes(Missing(chunks))
        <3>1. afterSeq \in 0..LastSeq
            BY <2>0, <2>2
        <3>2. Follow(chunks, EndOf(afterSeq), Written) /\ EndOf(afterSeq) \in Nat
            BY <2>0, <2>2, <3>1, UnseenFollow
        <3>3. /\ poll.pieces = chunks /\ poll.truncatedBytes = lost
              /\ poll.reset = (lost > 0) /\ poll.snapshot = FALSE
            BY <2>0, <2>2, <3>1, PollAnswers
        <3> HIDE DEF poll, chunks
        <3>4. lost \in Nat /\ Bytes(chunks) \in Nat /\ lost + Bytes(chunks) = Written - EndOf(afterSeq)
            BY <2>0, <3>2, ChunkSums
        <3>5. lost = 0 => Joined(chunks) /\ (chunks # <<>> => chunks[1].from = EndOf(afterSeq))
            BY <2>0, <3>2, WholeChunks
        <3> HIDE DEF lost
        <3>6. ~poll.reset => lost = 0
            <4>1. lost # 0 => lost > 0
                BY <3>4
            <4>2. lost > 0 => poll.reset
                <5>1. poll.reset = (lost > 0)
                    BY <3>3, Zenon
                <5> QED
                    BY <5>1, Zenon
            <4> QED
                BY <4>1, <4>2, Zenon
        <3>7. ~poll.reset => Bytes(poll.pieces) = Written - EndOf(afterSeq)
            BY <3>3, <3>4, <3>6
        <3> QED
            BY <2>2, <3>3, <3>4, <3>5, <3>6, <3>7 DEF poll
    <2> QED
        BY <2>1, <2>2
<1>2. ASSUME LogInv PROVE PollIsGapless
    BY <1>1, <1>2 DEF PollIsGapless
<1> QED
    BY <1>2, LogInvariant, PTL

-----------------------------------------------------------------------------
(* The view *)

\* A scrollback that holds any code point never cuts a chunk away completely.
NonEmpty(pieces) == \A i \in 1..Len(pieces) : pieces[i].from < pieces[i].to

LEMMA DataKeepsNonEmpty ==
    ASSUME MaxCodePoint <= MaxScrollbackBytes,
           MarksInv, RingInv, NonEmpty(outputChunks), NEW cuts \in Cuts, PtyData(cuts)
    PROVE  NonEmpty(outputChunks)'
<1> DEFINE chunk == NewChunk(cuts)
           ring == Append(outputChunks, chunk)
           to == Max(cuts)
           N == Len(outputChunks)
<1>1. /\ cuts \subseteq boundaries' /\ boundaries' \subseteq Nat /\ Written \in boundaries'
      /\ Written \in Nat /\ to \in Nat /\ Written < to
    BY DataArrives DEF MarksInv
<1>2. to \in cuts /\ \A c \in cuts : Written < c
    <2>1. cuts \in (SUBSET (Written + 1 .. MaxOutput)) /\ cuts # {}
        BY DEF Cuts
    <2>2. cuts \subseteq 0..MaxOutput /\ MaxOutput \in Nat /\ \A c \in cuts : Written < c
        BY <1>1, <2>1, LogAssumption
    <2> QED
        BY <2>1, <2>2, MaxIsGreatest
<1>3. PICK b \in cuts \union {Written} : b < to /\ to <= b + MaxCodePoint
    BY <1>2 DEF PtyData
<1> HIDE DEF to
<1>4. b \in boundaries' /\ Written <= b /\ b < to /\ to <= b + MaxScrollbackBytes
    <2>1. b \in Nat /\ b \in boundaries' /\ Written <= b
        BY <1>1, <1>2
    <2>2. MaxCodePoint \in Nat /\ MaxScrollbackBytes \in Nat /\ MaxCodePoint <= MaxScrollbackBytes
        BY LogAssumption
    <2> HIDE DEF to
    <2> QED
        BY <1>1, <1>3, <2>1, <2>2
<1>5. chunk.from < chunk.to /\ chunk \in Chunks
    BY <1>4, NewChunkFits DEF to
<1> HIDE DEF chunk
<1>6. /\ ring \in Seq(Chunks) /\ Len(ring) = N + 1 /\ N \in Nat
      /\ ring[N + 1] = chunk /\ \A i \in 1..N : ring[i] = outputChunks[i]
    BY <1>5 DEF RingInv
<1> HIDE DEF ring
<1>7. ASSUME NEW i \in 1 .. N + 1 PROVE ring[i].from < ring[i].to
    <2>1. CASE i = N + 1
        BY <1>5, <1>6, <2>1
    <2>2. CASE i # N + 1
        <3>1. i \in 1..N
            BY <1>6, <2>2
        <3> QED
            BY <1>6, <3>1 DEF NonEmpty
    <2> QED
        BY <2>1, <2>2
<1>8. PICK n \in 0..N : outputChunks' = Without(ring, n)
    BY DataKeepsRing DEF ring, chunk
<1>9. ASSUME NEW i \in 1 .. N + 1 - n
      PROVE  outputChunks'[i].from < outputChunks'[i].to
    <2> DEFINE k == n + i
    <2>1. k \in 1 .. N + 1
        BY <1>6
    <2>2. outputChunks'[i] = ring[k]
        <3>1. n \in 0..Len(ring) /\ i \in 1 .. Len(ring) - n
            BY <1>6
        <3> QED
            BY <1>6, <1>8, <3>1, WithoutPieces
    <2> HIDE DEF k
    <2> QED
        BY <1>7, <2>1, <2>2
<1>10. Len(outputChunks') = N + 1 - n
    <2>1. n \in 0..Len(ring)
        BY <1>6
    <2>2. Len(outputChunks') = Len(ring) - n
        BY <1>6, <1>8, <2>1, WithoutPieces
    <2> QED
        BY <1>6, <2>2
<1> QED
    BY <1>9, <1>10 DEF NonEmpty

Views == [stage : {"detached", "first", "polling", "stopped", "failed"},
          cursor : Nat, from : Nat, to : Nat, gap : BOOLEAN]

Stretches == Pieces \union Chunks

LEMMA StretchesHaveSizes ==
    ASSUME NEW x \in Stretches
    PROVE  x.from \in Nat /\ x.to \in Nat /\ x.from <= x.to /\ Size(x) \in Nat
           /\ (Size(x) = 0 <=> x.from = x.to)
<1>1. x.from \in Nat /\ x.to \in Nat /\ x.from <= x.to
    BY DEF Stretches, Pieces, Chunks
<1> QED
    BY <1>1 DEF Size

\* What Show does to the fields of the view.
LEMMA ShowEffect ==
    ASSUME NEW v \in Views, NEW x \in Stretches
    PROVE  /\ Show(v, x) \in Views
           /\ x.from = x.to => Show(v, x) = v
           /\ x.from # x.to => Show(v, x).to = x.to
           /\ x.from # x.to /\ v.from = v.to => Show(v, x).gap = v.gap
           /\ x.from # x.to /\ v.to = x.from => Show(v, x).gap = v.gap
<1>1. x.from \in Nat /\ x.to \in Nat /\ (Size(x) = 0 <=> x.from = x.to)
    BY StretchesHaveSizes
<1>2. CASE x.from = x.to
    BY <1>1, <1>2 DEF Show
<1>3. CASE x.from # x.to /\ v.from = v.to
    <2>1. Show(v, x) = [v EXCEPT !.from = x.from, !.to = x.to]
        BY <1>1, <1>3 DEF Show
    <2> QED
        BY <1>1, <1>3, <2>1 DEF Views
<1>4. CASE x.from # x.to /\ v.from # v.to
    <2>1. PICK b \in BOOLEAN : b = (v.gap \/ v.to # x.from)
        OBVIOUS
    <2>2. Show(v, x) = [v EXCEPT !.to = x.to, !.gap = b]
        BY <1>1, <1>4, <2>1 DEF Show
    <2>3. v.to = x.from => b = v.gap
        <3>1. v.gap \in BOOLEAN
            BY DEF Views
        <3> QED
            BY <2>1, <3>1
    <2>4. Show(v, x) \in Views /\ Show(v, x).to = x.to /\ Show(v, x).gap = b
        BY <1>1, <2>2 DEF Views
    <2> QED
        BY <1>4, <2>3, <2>4
<1> QED
    BY <1>2, <1>3, <1>4

\* FoldLeft shows the pieces one by one.
LEMMA ShowsInTurn ==
    ASSUME NEW v \in Views, NEW s \in Seq(Stretches)
    PROVE  \E p \in [0..Len(s) -> Views] :
              /\ p[0] = v
              /\ \A n \in 1..Len(s) : p[n] = Show(p[n - 1], s[n])
              /\ p[Len(s)] = FoldLeft(Show, v, s)
<1> DEFINE N == Len(s)
           F == [x \in Views \X (1..N) |-> Show(x[1], s[x[2]])]
           Eq(h) == h = [t \in SUBSET DOMAIN s |->
                           IF t = {} THEN v ELSE Show(h[t \ {Max(t)}], s[Max(t)])]
           iter == CHOOSE h : Eq(h)
<1>1. N \in Nat /\ DOMAIN s = 1..N /\ \A n \in 1..N : s[n] \in Stretches
    OBVIOUS
<1>2. FoldLeft(Show, v, s) = iter[1..N]
    BY <1>1 DEF FoldLeft, MapThenFoldSet
<1>3. F \in Steps(Views, N)
    BY <1>1, ShowEffect DEF Steps
<1>4. \A m \in Views, n \in 1..N : F[<<m, n>>] = Show(m, s[n])
    OBVIOUS
<1> HIDE DEF F, N
<1>5. ASSUME NEW t \in SUBSET (1..N), t # {}
      PROVE  Max(t) \in 1..N /\ t \ {Max(t)} \in SUBSET (1..N)
    <2>1. t \subseteq 0..N
        BY <1>1
    <2> QED
        BY <1>1, <1>5, <2>1, MaxIsGreatest
<1>6. PICK g : IsFold(g, Views, v, N, F)
    BY <1>1, <1>3, FoldExists
<1>7. Eq(g)
    <2>1. ASSUME NEW t \in SUBSET (1..N)
          PROVE  g[t] = IF t = {} THEN v ELSE Show(g[t \ {Max(t)}], s[Max(t)])
        BY <1>4, <1>5, <1>6 DEF IsFold
    <2> QED
        BY <1>1, <1>6, <2>1 DEF IsFold
<1>8. Eq(iter)
    <2> HIDE DEF Eq
    <2> QED
        BY <1>7
<1> HIDE DEF iter
<1>9. ASSUME NEW t \in SUBSET (1..N)
      PROVE  iter[t] = IF t = {} THEN v ELSE Show(iter[t \ {Max(t)}], s[Max(t)])
    BY <1>1, <1>8
<1>10. Recurs(iter, Views, v, N, F)
    BY <1>4, <1>5, <1>9 DEF Recurs
<1>11. PICK p : Partials(p, Views, v, N, F) /\ p[N] = iter[1..N]
    BY <1>1, <1>3, <1>10, FoldPartials
<1>12. p \in [0..N -> Views] /\ p[0] = v
    BY <1>11 DEF Partials
<1>13. ASSUME NEW n \in 1..N PROVE p[n] = Show(p[n - 1], s[n])
    <2>1. n - 1 \in 0..N
        BY <1>1
    <2> QED
        BY <1>4, <1>11, <1>12, <2>1 DEF Partials
<1> QED
    BY <1>2, <1>11, <1>12, <1>13 DEF N

\* Joined pieces leave no gap if they start where the transcript ends.
LEMMA JoinedShowNoGap ==
    ASSUME NEW v \in Views, NEW s \in Seq(Stretches), Joined(s),
           s # <<>> => v.from = v.to \/ v.to = s[1].from
    PROVE  LET shown == FoldLeft(Show, v, s)
           IN  /\ shown \in Views /\ shown.gap = v.gap
               /\ s = <<>> => shown = v
               /\ s # <<>> => shown.from = shown.to \/ shown.to = s[Len(s)].to
<1> DEFINE N == Len(s)
<1>1. PICK p \in [0..N -> Views] :
          p[0] = v /\ (\A n \in 1..N : p[n] = Show(p[n - 1], s[n])) /\ p[N] = FoldLeft(Show, v, s)
    BY ShowsInTurn
<1> DEFINE T == {n \in Nat : n <= N =>
                    /\ p[n].gap = v.gap
                    /\ n # 0 => p[n].from = p[n].to \/ p[n].to = s[n].to}
<1>2. N \in Nat /\ (s = <<>> <=> N = 0)
    OBVIOUS
<1>3. 0 \in T
    BY <1>1
<1>4. ASSUME NEW n \in T PROVE n + 1 \in T
    <2> DEFINE m == n + 1
    <2>1. SUFFICES ASSUME m <= N
                   PROVE  p[m].gap = v.gap /\ (p[m].from = p[m].to \/ p[m].to = s[m].to)
        OBVIOUS
    <2> DEFINE w == p[n]
               x == s[m]
    <2>2. m \in 1..N /\ n \in 0..N /\ m - 1 = n /\ n \in Nat
        BY <2>1
    <2>3. w.gap = v.gap /\ (n # 0 => w.from = w.to \/ w.to = s[n].to)
        BY <2>2
    <2> HIDE DEF T
    <2>4. w.from = w.to \/ w.to = x.from
        <3>1. CASE n = 0
            <4>1. m = 1 /\ s # <<>> /\ w = v
                BY <1>1, <1>2, <2>2, <3>1
            <4> QED
                BY <4>1
        <3>2. CASE n # 0
            <4>1. n \in 1 .. N - 1
                BY <2>2, <3>2
            <4>2. s[n].to = s[n + 1].from
                BY <4>1 DEF Joined
            <4> QED
                BY <2>3, <3>2, <4>2
        <3> QED
            BY <3>1, <3>2
    <2>5. w \in Views /\ x \in Stretches
        BY <1>1, <2>2
    <2>6. p[m] = Show(w, x)
        <3> HIDE DEF m
        <3>1. p[m] = Show(p[m - 1], s[m])
            BY <1>1, <2>2
        <3> QED
            BY <2>2, <3>1
    <2> HIDE DEF w, x, m
    <2>7. CASE x.from = x.to
        BY <2>3, <2>4, <2>5, <2>6, <2>7, ShowEffect DEF x
    <2>8. CASE x.from # x.to
        BY <2>3, <2>4, <2>5, <2>6, <2>8, ShowEffect DEF x
    <2> QED
        BY <2>7, <2>8
<1>5. T \subseteq Nat
    OBVIOUS
<1>6. T = Nat
    <2> HIDE DEF T
    <2> QED
        BY <1>3, <1>4, <1>5, NaturalInduction
<1>7. p[N] \in Views /\ p[N].gap = v.gap /\ (N # 0 => p[N].from = p[N].to \/ p[N].to = s[N].to)
    BY <1>1, <1>2, <1>6
<1>8. s = <<>> => p[N] = v
    BY <1>1, <1>2
<1> QED
    BY <1>1, <1>2, <1>7, <1>8

\* Pieces that are not empty move the end of the transcript to their end.
LEMMA NonEmptyShowEnd ==
    ASSUME NEW v \in Views, NEW s \in Seq(Stretches), NonEmpty(s)
    PROVE  LET shown == FoldLeft(Show, v, s)
           IN  /\ shown \in Views
               /\ s = <<>> => shown = v
               /\ s # <<>> => shown.to = s[Len(s)].to
<1> DEFINE N == Len(s)
           k == N - 1
<1>1. PICK p \in [0..N -> Views] :
          p[0] = v /\ (\A n \in 1..N : p[n] = Show(p[n - 1], s[n])) /\ p[N] = FoldLeft(Show, v, s)
    BY ShowsInTurn
<1>2. N \in Nat /\ (s = <<>> <=> N = 0) /\ N \in 0..N
    OBVIOUS
<1>3. p[N] \in Views /\ (s = <<>> => p[N] = v)
    BY <1>1, <1>2
<1>4. ASSUME s # <<>> PROVE p[N].to = s[N].to
    <2>1. N \in 1..N /\ k \in 0..N
        BY <1>2, <1>4
    <2>2. p[N] = Show(p[k], s[N]) /\ p[k] \in Views /\ s[N] \in Stretches
        <3>1. p[N] = Show(p[k], s[N])
            BY <1>1, <2>1
        <3>2. p[k] \in Views
            BY <1>1, <2>1
        <3>3. s[N] \in Stretches
            BY <2>1
        <3> QED
            BY <3>1, <3>2, <3>3
    <2>3. s[N].from # s[N].to
        <3>1. s[N].from < s[N].to
            BY <2>1 DEF NonEmpty
        <3>2. s[N].from \in Nat
            BY <2>2, StretchesHaveSizes
        <3> QED
            BY <3>1, <3>2
    <2> DEFINE w == p[k]
               x == s[N]
    <2>4. p[N] = Show(w, x) /\ w \in Views /\ x \in Stretches /\ x.from # x.to
        BY <2>2, <2>3
    <2> HIDE DEF w, x
    <2>5. p[N].to = x.to
        BY <2>4, ShowEffect
    <2> QED
        BY <2>5 DEF x
<1> QED
    BY <1>1, <1>3, <1>4

\* An answer as the view may rely on it, by the end of the output its cursor stands for.
Reliable(answer, cursor, chunkEnds) ==
    /\ answer.pieces \in Seq(Stretches)
    /\ answer.nextSeq \in 0..Len(chunkEnds)
    /\ answer.reset \in BOOLEAN
    /\ answer.truncatedBytes \in Nat
    /\ answer.pieces # <<>> =>
          answer.pieces[Len(answer.pieces)].to = At(chunkEnds, answer.nextSeq)
    /\ IF answer.truncatedBytes = 0 THEN Joined(answer.pieces)
       ELSE answer.reset /\ NonEmpty(answer.pieces)
    /\ ~answer.reset =>
          IF answer.pieces = <<>> THEN At(chunkEnds, answer.nextSeq) = At(chunkEnds, cursor)
          ELSE answer.pieces[1].from = At(chunkEnds, cursor)

\* The transcript ends where the cursor of the view stands, and so does the call
\* under way.
CursorInv ==
    /\ NonEmpty(outputChunks)
    /\ view \in Views
    /\ view.cursor <= LastSeq
    /\ view.from = view.to \/ view.to = At(ends, view.cursor)
    /\ call # NoPoll =>
          /\ call = [afterSeq |-> view.cursor, answer |-> call.answer]
          /\ call.answer # NoPoll => Reliable(call.answer, view.cursor, ends)

LEMMA EmptySeqIn == ASSUME NEW S PROVE <<>> \in Seq(S)
OBVIOUS

\* pollSession answers reliably.
LEMMA PollIsReliable ==
    ASSUME LogInv, NonEmpty(outputChunks), NEW cursor \in 0..LastSeq
    PROVE  Reliable(PollSession(cursor), cursor, ends)
<1> DEFINE answer == PollSession(cursor)
<1>0. /\ MarksInv /\ ScrollInv /\ RingInv /\ LastSeq \in Nat /\ Written \in Nat
      /\ At(ends, LastSeq) = Written /\ EndOf(cursor) = At(ends, cursor) /\ LastSeq = Len(ends)
    BY WrittenIsEnd DEF LogInv, MarksInv, EndOf, At, LastSeq
<1>1. CASE StaleCursor(cursor)
    <2>1. answer = SnapshotPoll
        BY <1>1, SnapshotAnswers
    <2>2. /\ answer.pieces = scrollback /\ answer.nextSeq = LastSeq /\ answer.reset = TRUE
          /\ answer.truncatedBytes = 0
        BY <2>1 DEF SnapshotPoll
    <2> HIDE DEF answer
    <2>5. answer.reset \in BOOLEAN /\ answer.reset
        BY <2>2
    <2>6. /\ answer.nextSeq \in 0..LastSeq /\ answer.truncatedBytes \in Nat
          /\ answer.truncatedBytes = 0
        BY <1>0, <2>2
    <2>3. CASE ends = <<>>
        <3>1. scrollback = <<>> /\ scrollback \in Seq(Stretches) /\ Joined(scrollback)
            BY <1>0, <2>3, EmptySeqIn DEF ScrollInv, Joined
        <3>2. Reliable(answer, cursor, ends)
            BY <1>0, <2>2, <2>5, <2>6, <3>1 DEF Reliable
        <3> QED
            BY <3>2 DEF answer
    <2>4. CASE ends # <<>>
        <3>1. Covers(scrollback, boundaries, CutOf(boundaries, Written), Written)
            BY <1>0, <2>4 DEF ScrollInv
        <3>2. /\ scrollback \in Seq(Stretches) /\ Joined(scrollback)
              /\ scrollback[Len(scrollback)].to = Written
            BY <3>1 DEF Covers, Stretches
        <3>3. Reliable(answer, cursor, ends)
            BY <1>0, <2>2, <2>5, <2>6, <3>2 DEF Reliable
        <3> QED
            BY <3>3 DEF answer
    <2> QED
        BY <2>3, <2>4
<1>2. CASE ~StaleCursor(cursor)
    <2> DEFINE chunks == Without(outputChunks, Seen(cursor))
               lost == Bytes(Missing(chunks))
    <2>1. Follow(chunks, EndOf(cursor), Written) /\ EndOf(cursor) \in Nat /\ Seen(cursor) \in 0..Len(outputChunks)
        BY <1>0, <1>2, UnseenFollow
    <2>2. /\ answer.pieces = chunks /\ answer.nextSeq = LastSeq /\ answer.truncatedBytes = lost
          /\ answer.reset = (lost > 0)
        BY <1>0, <1>2, PollAnswers
    <2>3. NonEmpty(chunks)
        <3> DEFINE n == Seen(cursor)
                   N == Len(outputChunks)
        <3>1. outputChunks \in Seq(Chunks) /\ n \in 0..N /\ N \in Nat
            BY <1>0, <2>1 DEF RingInv
        <3> HIDE DEF n
        <3>2. Len(chunks) = N - n /\ \A i \in 1 .. N - n : chunks[i] = outputChunks[n + i]
            BY <3>1, WithoutPieces DEF n
        <3> HIDE DEF chunks, N
        <3>3. ASSUME NEW i \in 1 .. N - n PROVE chunks[i].from < chunks[i].to
            <4> DEFINE k == n + i
            <4>1. k \in 1..N /\ chunks[i] = outputChunks[k]
                BY <3>1, <3>2
            <4> HIDE DEF k
            <4> QED
                BY <4>1 DEF NonEmpty, N
        <3> QED
            BY <3>2, <3>3 DEF NonEmpty
    <2> HIDE DEF answer, chunks
    <2>4. lost \in Nat
        BY <1>0, <2>1, ChunkSums
    <2>5. lost = 0 => Joined(chunks) /\ (chunks # <<>> => chunks[1].from = EndOf(cursor))
        BY <1>0, <2>1, WholeChunks
    <2>6. /\ chunks \in Seq(Stretches)
          /\ chunks # <<>> => chunks[Len(chunks)].to = Written
          /\ chunks = <<>> => EndOf(cursor) = Written
        BY <2>1 DEF Follow, Stretches
    <2> HIDE DEF lost
    <2>7. answer.reset \in BOOLEAN /\ (lost # 0 => answer.reset) /\ (~answer.reset => lost = 0)
        <3>1. lost # 0 => lost > 0
            BY <2>4
        <3>2. answer.reset = (lost > 0)
            BY <2>2, Zenon
        <3> QED
            <4>1. answer.reset \in BOOLEAN
                <5>1. lost > 0 \/ ~(lost > 0)
                    OBVIOUS
                <5>2. CASE lost > 0
                    BY <3>2, <5>2
                <5>3. CASE ~(lost > 0)
                    BY <3>2, <5>3
                <5> QED
                    BY <5>1, <5>2, <5>3
            <4>2. lost # 0 => answer.reset
                BY <3>1, <3>2, Zenon
            <4> QED
                BY <4>1, <4>2, Zenon
    <2>8. Reliable(answer, cursor, ends)
        BY <1>0, <2>2, <2>3, <2>4, <2>5, <2>6, <2>7 DEF Reliable
    <2> QED
        BY <2>8 DEF answer
<1> QED
    BY <1>1, <1>2

\* More output changes nothing of an answer already given.
LEMMA ReliableLater ==
    ASSUME NEW chunkEnds \in Seq(Nat), NEW x \in Nat, NEW answer, NEW cursor \in 0..Len(chunkEnds),
           Reliable(answer, cursor, chunkEnds)
    PROVE  Reliable(answer, cursor, Append(chunkEnds, x))
<1> DEFINE now == Append(chunkEnds, x)
           L == Len(chunkEnds)
<1>1. Len(now) = L + 1 /\ L \in Nat /\ \A n \in 0..L : At(now, n) = At(chunkEnds, n)
    BY DEF At
<1>2. answer.nextSeq \in 0..L /\ cursor \in 0..L
    BY DEF Reliable
<1>3. answer.nextSeq \in 0..(L + 1)
    BY <1>1, <1>2
<1> HIDE DEF now, L
<1>4. Reliable(answer, cursor, now)
    BY <1>1, <1>2, <1>3 DEF Reliable
<1> QED
    BY <1>4 DEF now

\* What the transcript is after an answer.
LEMMA AnswerShown ==
    ASSUME NEW v \in Views, NEW answer, NEW cursor, NEW chunkEnds,
           Reliable(answer, cursor, chunkEnds),
           v.from = v.to \/ v.to = At(chunkEnds, cursor)
    PROVE  LET shown == FoldLeft(Show, IF answer.reset THEN Cleared(v) ELSE v, answer.pieces)
           IN  /\ shown \in Views
               /\ shown.from = shown.to \/ shown.to = At(chunkEnds, answer.nextSeq)
               /\ answer.truncatedBytes = 0 => (shown.gap => v.gap)
<1> DEFINE base == IF answer.reset THEN Cleared(v) ELSE v
           s == answer.pieces
           shown == FoldLeft(Show, base, s)
<1>1. /\ base \in Views
      /\ answer.reset => base.from = base.to /\ base.gap = FALSE
      /\ ~answer.reset => base = v
    BY DEF Views, Cleared
<1> HIDE DEF base
<1>2. s \in Seq(Stretches)
    BY DEF Reliable
<1>3. base.gap => v.gap
    <2>1. base.gap \in BOOLEAN /\ v.gap \in BOOLEAN
        BY <1>1 DEF Views
    <2> QED
        BY <1>1, <2>1
<1>4. CASE answer.truncatedBytes = 0
    <2>1. Joined(s)
        BY <1>4 DEF Reliable
    <2>2. s # <<>> => base.from = base.to \/ base.to = s[1].from
        BY <1>1 DEF Reliable
    <2>3. /\ shown \in Views /\ shown.gap = base.gap
          /\ s = <<>> => shown = base
          /\ s # <<>> => shown.from = shown.to \/ shown.to = s[Len(s)].to
        BY <1>1, <1>2, <2>1, <2>2, JoinedShowNoGap
    <2> HIDE DEF shown
    <2>4. shown.from = shown.to \/ shown.to = At(chunkEnds, answer.nextSeq)
        BY <1>1, <2>3 DEF Reliable
    <2>5. shown.gap => v.gap
        BY <1>3, <2>3, Zenon
    <2> QED
        BY <2>3, <2>4, <2>5 DEF shown, base
<1>5. CASE answer.truncatedBytes # 0
    <2>1. answer.reset /\ NonEmpty(s)
        BY <1>5 DEF Reliable
    <2>2. /\ shown \in Views
          /\ s = <<>> => shown = base
          /\ s # <<>> => shown.to = s[Len(s)].to
        BY <1>1, <1>2, <2>1, NonEmptyShowEnd
    <2> HIDE DEF shown
    <2>3. shown.from = shown.to \/ shown.to = At(chunkEnds, answer.nextSeq)
        BY <1>1, <2>1, <2>2 DEF Reliable
    <2> QED
        BY <1>5, <2>2, <2>3 DEF shown, base
<1> QED
    BY <1>4, <1>5

LEMMA CursorInit == Init => CursorInv
BY DEF Init, CursorInv, NewView, Views, NonEmpty, LastSeq

\* Every step keeps the cursor and the transcript together, and a step that
\* breaks the transcript is the receipt of an answer that says so.
LEMMA CursorStep ==
    ASSUME MaxCodePoint <= MaxScrollbackBytes, LogInv, CursorInv, [Next]_vars
    PROVE  CursorInv' /\ (view'.gap /\ ~view.gap => call.answer.truncatedBytes > 0)
<1> DEFINE Told == view'.gap /\ ~view.gap => call.answer.truncatedBytes > 0
<1>0. /\ NonEmpty(outputChunks) /\ view \in Views /\ view.cursor \in 0..LastSeq
      /\ MarksInv /\ RingInv /\ LastSeq \in Nat
      /\ view.from = view.to \/ view.to = At(ends, view.cursor)
    BY WrittenIsEnd DEF CursorInv, LogInv, Views
<1>1. ASSUME view' = view PROVE Told
    BY <1>1
<1>2. ASSUME NEW cuts \in Cuts, PtyData(cuts) PROVE CursorInv' /\ Told
    <2>1. view' = view /\ call' = call
        BY <1>2 DEF PtyData
    <2>2. ends \in Seq(Nat) /\ ends' = Append(ends, Max(cuts)) /\ Max(cuts) \in Nat
        BY <1>0, <1>2, DataArrives DEF MarksInv
    <2>3. NonEmpty(outputChunks)'
        BY <1>0, <1>2, DataKeepsNonEmpty
    <2>4. LastSeq' = LastSeq + 1 /\ At(ends', view.cursor) = At(ends, view.cursor)
        BY <1>0, <2>2 DEF LastSeq, At
    <2>5. call # NoPoll /\ call.answer # NoPoll => Reliable(call.answer, view.cursor, ends')
        <3>1. view.cursor \in 0..Len(ends)
            BY <1>0 DEF LastSeq
        <3> QED
            BY <2>2, <3>1, ReliableLater DEF CursorInv
    <2>6. view.cursor <= LastSeq'
        BY <1>0, <2>4
    <2>7. CursorInv'
        BY <1>0, <2>1, <2>3, <2>4, <2>5, <2>6 DEF CursorInv
    <2> QED
        BY <1>1, <2>1, <2>7
<1>3. CASE PtyExit
    BY <1>1, <1>3 DEF PtyExit, CursorInv, LastSeq, NonEmpty
<1>4. CASE AttachView
    <2>1. /\ view' = [NewView EXCEPT !.stage = "first"] /\ call' = NoPoll
          /\ ends' = ends /\ outputChunks' = outputChunks
        BY <1>4 DEF AttachView, logVars
    <2>2. view' \in Views /\ view'.cursor = 0 /\ view'.from = view'.to /\ view'.gap = FALSE
        BY <2>1 DEF NewView, Views
    <2>3. CursorInv'
        BY <1>0, <2>1, <2>2 DEF CursorInv, NonEmpty, LastSeq
    <2> QED
        BY <2>2, <2>3
<1>5. CASE SendPoll
    <2>1. /\ view' = view /\ call' = [afterSeq |-> view.cursor, answer |-> NoPoll]
          /\ ends' = ends /\ outputChunks' = outputChunks
        BY <1>5 DEF SendPoll, logVars
    <2>2. CursorInv'
        BY <1>0, <2>1 DEF CursorInv, NonEmpty, LastSeq
    <2> QED
        BY <1>1, <2>1, <2>2
<1>6. CASE AnswerPoll
    <2> DEFINE answer == PollSession(view.cursor)
    <2>1. /\ view' = view /\ ends' = ends /\ outputChunks' = outputChunks
          /\ call # NoPoll /\ call' = [call EXCEPT !.answer = PollSession(call.afterSeq)]
        BY <1>6 DEF AnswerPoll, logVars
    <2>2. call = [afterSeq |-> view.cursor, answer |-> call.answer]
        BY <2>1 DEF CursorInv
    <2>3. Reliable(answer, view.cursor, ends)
        BY <1>0, PollIsReliable
    <2>4. call.afterSeq = view.cursor
        BY <2>2
    <2>5. call' = [call EXCEPT !.answer = answer]
        BY <2>1, <2>4
    <2> HIDE DEF answer
    <2>6. call' = [afterSeq |-> view.cursor, answer |-> answer]
        BY <2>2, <2>5
    <2>7. CursorInv'
        BY <1>0, <2>1, <2>3, <2>6 DEF CursorInv, NonEmpty, LastSeq
    <2> QED
        BY <1>1, <2>1, <2>7
<1>7. CASE ReceivePoll
    <2> DEFINE answer == call.answer
               shown == FoldLeft(Show, IF answer.reset THEN Cleared(view) ELSE view, answer.pieces)
               stage == IF answer.exited /\ view.stage = "polling" THEN "stopped" ELSE "polling"
    <2>1. /\ view' = [shown EXCEPT !.cursor = answer.nextSeq, !.stage = stage]
          /\ call' = NoPoll /\ ends' = ends /\ outputChunks' = outputChunks
          /\ call # NoPoll /\ answer # NoPoll
        BY <1>7 DEF ReceivePoll, logVars
    <2>2. Reliable(answer, view.cursor, ends)
        BY <2>1 DEF CursorInv
    <2>3. /\ shown \in Views
          /\ shown.from = shown.to \/ shown.to = At(ends, answer.nextSeq)
          /\ answer.truncatedBytes = 0 => (shown.gap => view.gap)
        BY <1>0, <2>2, AnswerShown
    <2>4. stage \in {"stopped", "polling"}
        OBVIOUS
    <2> HIDE DEF shown, stage, answer
    <2>5. answer.nextSeq \in 0..LastSeq /\ answer.truncatedBytes \in Nat
        BY <2>2 DEF Reliable, LastSeq
    <2>6. /\ view' \in Views /\ view'.cursor = answer.nextSeq /\ view'.from = shown.from
          /\ view'.to = shown.to /\ view'.gap = shown.gap
        <3>1. /\ shown.from \in Nat /\ shown.to \in Nat /\ shown.gap \in BOOLEAN
              /\ answer.nextSeq \in Nat
            BY <1>0, <2>3, <2>5 DEF Views
        <3>2. view' = [stage |-> stage, cursor |-> answer.nextSeq, from |-> shown.from,
                       to |-> shown.to, gap |-> shown.gap]
            BY <2>1, <2>3 DEF Views
        <3>3. view' \in Views
            BY <2>4, <3>1, <3>2 DEF Views
        <3>4. view'.gap = shown.gap
            BY <3>2
        <3> QED
            BY <3>2, <3>3, <3>4
    <2>7. CursorInv'
        BY <1>0, <2>1, <2>3, <2>5, <2>6 DEF CursorInv, NonEmpty, LastSeq
    <2>8. answer.truncatedBytes = 0 => (view'.gap => view.gap)
        BY <2>3, <2>6, Zenon
    <2>9. answer.truncatedBytes # 0 => answer.truncatedBytes > 0
        BY <2>5
    <2> QED
        BY <2>7, <2>8, <2>9 DEF answer
<1>8. CASE LosePoll
    <2>1. PICK st \in {"failed", "first", "polling", "stopped", "detached"} : view' = [view EXCEPT !.stage = st]
        BY <1>0, <1>8 DEF LosePoll, Views
    <2>2. call' = NoPoll /\ ends' = ends /\ outputChunks' = outputChunks
        BY <1>8 DEF LosePoll, logVars
    <2>3. /\ view' \in Views /\ view'.cursor = view.cursor /\ view'.from = view.from
          /\ view'.to = view.to /\ view'.gap = view.gap
        BY <1>0, <2>1 DEF Views
    <2>4. CursorInv'
        BY <1>0, <2>2, <2>3 DEF CursorInv, NonEmpty, LastSeq
    <2> QED
        BY <2>3, <2>4
<1>9. CASE UNCHANGED vars
    BY <1>1, <1>9 DEF vars, logVars, CursorInv, NonEmpty, LastSeq
<1> QED
    BY <1>2, <1>3, <1>4, <1>5, <1>6, <1>7, <1>8, <1>9 DEF Next, ViewStep, Cuts

\* With a scrollback that holds any code point, the transcript of a view gets a hole
\* or a repetition only from an answer that announces truncation, whatever polls get
\* lost.  (With a narrower one a chunk may be cut away as a whole, and its hole
\* shows only with the next answer.)
THEOREM GapsAnnounced ==
    ASSUME MaxCodePoint <= MaxScrollbackBytes
    PROVE  Spec => GapsAreAnnounced
<1>1. Init => LogInv /\ CursorInv
    BY LogInit, CursorInit
<1>2. LogInv /\ CursorInv /\ [Next]_vars
      => /\ LogInv' /\ CursorInv'
         /\ [view'.gap /\ ~view.gap => call.answer.truncatedBytes > 0]_vars
    BY LogStep, CursorStep
<1> QED
    BY <1>1, <1>2, PTL DEF Spec, GapsAreAnnounced
=============================================================================
