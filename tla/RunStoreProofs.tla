--------------------------- MODULE RunStoreProofs ---------------------------
(***************************************************************************)
(* Machine-checked results about RunStore.  For any number of processes    *)
(* and any of its faults: an entry of the index has its record, a          *)
(* tombstone has none, the two halves of the in-memory index agree, and    *)
(* half-written lines bound what is lost.  For one process that has the    *)
(* store to itself: the order of its prunes, the limit it keeps, and that  *)
(* what is on record is a RunHistory.                                      *)
(***************************************************************************)
EXTENDS MCRunStore, FiniteSetTheorems, SequenceTheorems, TLAPS

----------------------------------------------------------------------------
(* The inductive invariant                                                 *)

RunSet  == [model : Models, spawn : Times]
LineSet == [kind : {"entry", "tomb", "junk"}, id : Nat]
Busy    == {"file", "index", "prune", "evict", "compare", "done"}

\* The state is well formed.
TypeOK ==
  /\ runs \in Seq(RunSet)
  /\ files \in [DOMAIN files -> {"whole", "torn"}]
  /\ index \in Seq(LineSet) /\ frag \in BOOLEAN
  /\ pc \in [Writers -> Busy \cup {"down", "idle"}]
  /\ cur \in [Writers -> Nat]
  /\ by_model \in [Writers -> [Models -> Seq(Nat)]]
  /\ by_id \in [Writers -> SUBSET Nat]
  /\ buf \in [Writers -> Seq(LineSet)]
  /\ todo \in [Writers -> Seq(Nat)] /\ gone \in [Writers -> Seq(Nat)]

\* No two processes append the same run.
CurInv ==
  \A w \in Writers :
    /\ cur[w] \in 0 .. Len(runs)
    /\ pc[w] \in Busy => cur[w] # NoRun
    /\ \A v \in Writers : v # w /\ cur[v] = cur[w] => cur[w] = NoRun

\* The append of r has got past its file, or has failed to.
Started(r) == r \in 1 .. Len(runs) /\ \A w \in Writers : ~(pc[w] = "file" /\ cur[w] = r)

\* The lines on disk and those that a BufWriter holds.
Held == Lines \cup UNION {Ids(buf[w]) : w \in Writers}

\* Nothing names a run before its record has been written.
NamedInv ==
  /\ \A l \in Held : l.kind # "junk" => Started(l.id)
  /\ \A w \in Writers :
       /\ \A m \in Models : \A r \in Ids(by_model[w][m]) : Started(r) /\ runs[r].model = m
       /\ \A r \in Ids(todo[w]) : Started(r) /\ runs[r].model = runs[cur[w]].model
       /\ \A r \in Ids(gone[w]) : Started(r)
       /\ pc[w] # "evict" => todo[w] = <<>> /\ gone[w] = <<>>

\* Every element of s occurs once.
NoDup(s) == \A i, j \in 1 .. Len(s) : s[i] = s[j] => i = j

\* Every entry in s occurs once.
EntriesOnce(s) == \A i, j \in 1 .. Len(s) : s[i].kind = "entry" /\ s[i] = s[j] => i = j

\* No entry is in both.
NoCommonEntry(S, T) == \A l \in S \cap T : l.kind # "entry"

\* Each run has one entry at most, on disk or in one buffer.
OnceInv ==
  /\ EntriesOnce(index)
  /\ \A w \in Writers :
       /\ EntriesOnce(buf[w])
       /\ NoCommonEntry(Ids(index), Ids(buf[w]))
       /\ \A v \in Writers : v # w => NoCommonEntry(Ids(buf[v]), Ids(buf[w]))
       /\ pc[w] \in {"file", "index"} => Entry(cur[w]) \notin Held

\* The two halves of the in-memory index, which the run in flight is not in.
MemInv ==
  \A w \in Writers :
    /\ by_id[w] = UNION {Ids(by_model[w][m]) : m \in Models}
    /\ \A m \in Models : NoDup(by_model[w][m])
    /\ pc[w] \in {"file", "index"} => cur[w] \notin by_id[w]

\* The record of r is there, or was.
Recorded(r) == Readable(r) \/ r \in pruned

\* What the lines say of the files.
DiskInv ==
  /\ \A r \in Nat : Entry(r) \in Held => Recorded(r)
  /\ \A r \in Nat : Tomb(r) \in Held => r \notin DOMAIN files
  /\ \A w \in Writers : /\ pc[w] = "index" => Recorded(cur[w])
                        /\ \A r \in Ids(gone[w]) : r \notin DOMAIN files

StoreInv == TypeOK /\ CurInv /\ NamedInv /\ OnceInv /\ MemInv /\ DiskInv

----------------------------------------------------------------------------
(* Rank in a finite ordered set                                            *)

\* The members of S that come before x.
Below(S, R, x) == {y \in S : <<y, x>> \in R}

\* R orders S strictly and totally.
Orders(R, S) ==
  /\ \A x \in S : <<x, x>> \notin R
  /\ \A x, y \in S : x # y => <<x, y>> \in R \/ <<y, x>> \in R
  /\ \A x, y, z \in S : <<x, y>> \in R /\ <<y, z>> \in R => <<x, z>> \in R

\* The ranks are the numbers below the cardinality, each taken once, and
\* follow the order.
Ranked(R, S) ==
  /\ Cardinality(S) \in Nat
  /\ \A x \in S : Cardinality(Below(S, R, x)) \in 0 .. Cardinality(S) - 1
  /\ \A x, y \in S : Cardinality(Below(S, R, x)) = Cardinality(Below(S, R, y)) => x = y
  /\ \A x, y \in S : <<x, y>> \in R => Cardinality(Below(S, R, x)) < Cardinality(Below(S, R, y))
  /\ \A n \in 1 .. Cardinality(S) : \E x \in S : Cardinality(Below(S, R, x)) = n - 1

\* They are so in every finite set that R orders strictly and totally.
LEMMA Ranks == ASSUME NEW S, IsFiniteSet(S), NEW R, Orders(R, S) PROVE Ranked(R, S)
<1> DEFINE n == Cardinality(S)
           T == 0 .. n - 1
           f == [x \in S |-> Cardinality(Below(S, R, x))]
<1>1. n \in Nat
  BY FS_CardinalityType
<1>2. ASSUME NEW x \in S PROVE Cardinality(Below(S, R, x)) \in T
  <2>1. IsFiniteSet(S \ {x}) /\ Cardinality(S \ {x}) = n - 1
    BY FS_RemoveElement
  <2>2. Below(S, R, x) \in SUBSET (S \ {x})
    BY DEF Below, Orders
  <2>3. IsFiniteSet(Below(S, R, x)) /\ Cardinality(Below(S, R, x)) <= n - 1
    BY <2>1, <2>2, FS_Subset
  <2>4. Cardinality(Below(S, R, x)) \in Nat
    BY <2>3, FS_CardinalityType
  <2>5. QED BY <1>1, <2>3, <2>4
<1>3. ASSUME NEW x \in S, NEW y \in S, <<x, y>> \in R
      PROVE  Cardinality(Below(S, R, x)) < Cardinality(Below(S, R, y))
  <2>1. Below(S, R, x) \in SUBSET Below(S, R, y)
    BY <1>3 DEF Below, Orders
  <2>2. x \in Below(S, R, y) /\ x \notin Below(S, R, x)
    BY <1>3 DEF Below, Orders
  <2>3. IsFiniteSet(Below(S, R, y))
    BY FS_Subset DEF Below
  <2>4. /\ Cardinality(Below(S, R, x)) <= Cardinality(Below(S, R, y))
        /\ Cardinality(Below(S, R, x)) # Cardinality(Below(S, R, y))
    BY <2>1, <2>2, <2>3, FS_Subset
  <2>5. Cardinality(Below(S, R, x)) \in Nat /\ Cardinality(Below(S, R, y)) \in Nat
    BY <1>1, <1>2
  <2>6. QED BY <2>4, <2>5
<1>4. \A x, y \in S : Cardinality(Below(S, R, x)) = Cardinality(Below(S, R, y)) => x = y
  <2>1. \A x \in S : Cardinality(Below(S, R, x)) \in Nat
    BY <1>1, <1>2
  <2>2. \A x, y \in S : x # y => <<x, y>> \in R \/ <<y, x>> \in R
    BY DEF Orders
  <2>3. \A x, y \in S : <<x, y>> \in R => Cardinality(Below(S, R, x)) < Cardinality(Below(S, R, y))
    BY <1>3
  <2> DEFINE rank(x) == Cardinality(Below(S, R, x))
  <2> HIDE DEF rank
  <2>4. /\ \A x \in S : rank(x) \in Nat
        /\ \A x, y \in S : <<x, y>> \in R => rank(x) < rank(y)
    BY <2>1, <2>3 DEF rank
  <2>5. ASSUME NEW x \in S, NEW y \in S, rank(x) = rank(y), x # y PROVE FALSE
    <3>1. rank(x) < rank(y) \/ rank(y) < rank(x)
      BY <2>2, <2>4, <2>5, Zenon
    <3>2. rank(x) \in Nat /\ rank(y) \in Nat
      BY <2>4
    <3>3. QED BY <2>5, <3>1, <3>2
  <2>6. QED BY <2>5 DEF rank
<1>5. f \in Injection(S, T)
  BY <1>2, <1>4 DEF Injection, IsInjective
<1>6. IsFiniteSet(T) /\ Cardinality(T) = n
  <2>1. 0 \in Int /\ n - 1 \in Int
    BY <1>1
  <2>2. IsFiniteSet(T) /\ Cardinality(T) = IF 0 > n - 1 THEN 0 ELSE (n - 1) - 0 + 1
    BY <2>1, FS_Interval
  <2>3. QED BY <1>1, <2>2
<1> HIDE DEF f, T
<1>7. f \in Surjection(S, T)
  BY <1>5, <1>6, FS_Injection
<1>8. ASSUME NEW k \in 1 .. n PROVE \E x \in S : Cardinality(Below(S, R, x)) = k - 1
  <2>1. k - 1 \in T
    BY <1>1 DEF T
  <2>2. \E x \in S : f[x] = k - 1
    BY <1>7, <2>1 DEF Surjection
  <2>3. QED BY <2>2 DEF f
<1>9. QED BY <1>1, <1>2, <1>3, <1>4, <1>8 DEF T, Ranked

\* K has the elements at the places P of s, each place once.
Filtered(K, s, P) ==
  /\ Ids(K) = {s[i] : i \in P}
  /\ (\A i, j \in P : s[i] = s[j] => i = j) =>
       \A a, b \in 1 .. Len(K) : K[a] = K[b] => a = b

\* So has what a filter keeps.
LEMMA KeptProperties ==
  ASSUME NEW X, NEW s \in Seq(X), NEW P \in SUBSET (1 .. Len(s))
  PROVE  Kept(s, P) \in Seq(X) /\ Filtered(Kept(s, P), s, P)
<1> DEFINE R == {e \in P \X P : e[1] < e[2]}
           rank(i) == Cardinality({j \in P : j < i})
           n == Cardinality(P)
           place(k) == CHOOSE i \in P : rank(i) = k - 1
           K == Kept(s, P)
<1>1. IsFiniteSet(P) /\ P \subseteq Int
  <2>1. Len(s) \in Nat
    OBVIOUS
  <2>2. IsFiniteSet(1 .. Len(s))
    BY <2>1, FS_Interval
  <2>3. IsFiniteSet(P)
    BY <2>2, FS_Subset
  <2>4. QED BY <2>3
<1>2. \A i \in P : Below(P, R, i) = {j \in P : j < i}
  BY DEF Below
<1>3. Orders(R, P)
  BY <1>1 DEF Orders
<1> HIDE DEF R
<1>4. /\ n \in Nat
      /\ \A i \in P : rank(i) \in 0 .. n - 1
      /\ \A i, j \in P : rank(i) = rank(j) => i = j
      /\ \A k \in 1 .. n : \E i \in P : rank(i) = k - 1
  <2>0. Ranked(R, P)
    BY <1>1, <1>3, Ranks
  <2>1. /\ n \in Nat
        /\ \A i \in P : Cardinality(Below(P, R, i)) \in 0 .. n - 1
        /\ \A i, j \in P : Cardinality(Below(P, R, i)) = Cardinality(Below(P, R, j)) => i = j
        /\ \A k \in 1 .. n : \E i \in P : Cardinality(Below(P, R, i)) = k - 1
    BY <2>0, Zenon DEF Ranked
  <2>2. \A i \in P : rank(i) = Cardinality(Below(P, R, i))
    BY <1>2
  <2> HIDE DEF rank, n
  <2>3. QED BY <2>1, <2>2
<1> HIDE DEF rank, n
<1>5. \A k \in 1 .. n : place(k) \in P /\ rank(place(k)) = k - 1
  BY <1>4
<1>6. K = [k \in 1 .. n |-> s[place(k)]]
  BY DEF Kept, rank, n
<1> HIDE DEF place, K
<1>7. \A k \in 1 .. n : K[k] = s[place(k)] /\ s[place(k)] \in X
  <2>1. \A i \in P : s[i] \in X
    OBVIOUS
  <2>2. QED BY <1>5, <1>6, <2>1
<1>8. K \in Seq(X) /\ Len(K) = n
  BY <1>4, <1>6, <1>7
<1>9. ASSUME NEW i \in P PROVE \E k \in 1 .. n : place(k) = i
  <2>1. rank(i) + 1 \in 1 .. n
    BY <1>4
  <2>2. rank(place(rank(i) + 1)) = rank(i) /\ place(rank(i) + 1) \in P
    BY <1>4, <1>5, <2>1
  <2>3. QED BY <1>4, <2>1, <2>2
<1>10. Ids(K) = {s[i] : i \in P}
  <2>1. ASSUME NEW x \in Ids(K) PROVE x \in {s[i] : i \in P}
    BY <1>5, <1>7, <1>8 DEF Ids
  <2>2. ASSUME NEW i \in P PROVE s[i] \in Ids(K)
    <3>1. PICK k \in 1 .. n : place(k) = i
      BY <1>9
    <3>2. K[k] = s[i]
      BY <1>7, <3>1
    <3>3. QED BY <1>8, <3>2 DEF Ids
  <2>3. QED BY <2>1, <2>2
<1>11. ASSUME \A i, j \in P : s[i] = s[j] => i = j,
              NEW a \in 1 .. Len(K), NEW b \in 1 .. Len(K), K[a] = K[b]
       PROVE  a = b
  <2>1. place(a) = place(b)
    BY <1>5, <1>7, <1>8, <1>11
  <2>2. a - 1 = b - 1 /\ a \in Int /\ b \in Int
    BY <1>5, <1>8, <2>1
  <2>3. QED BY <2>2
<1>12. QED BY <1>8, <1>10, <1>11 DEF K, Filtered

----------------------------------------------------------------------------
(* Lemmas about sequences and lines                                        *)

\* A sequence without repetition is as long as its set of elements.
LEMMA NoDupCardinality ==
  ASSUME NEW X, NEW s \in Seq(X), NoDup(s)
  PROVE  IsFiniteSet(Ids(s)) /\ Cardinality(Ids(s)) = Len(s)
<1>1. Len(s) \in Nat /\ s \in [1 .. Len(s) -> Ids(s)]
  BY DEF Ids
<1>2. s \in Bijection(1 .. Len(s), Ids(s))
  BY <1>1 DEF Bijection, Injection, Surjection, IsInjective, NoDup, Ids
<1>3. ExistsBijection(1 .. Len(s), Ids(s))
  BY <1>2 DEF ExistsBijection
<1>4. IsFiniteSet(Ids(s))
  BY <1>1, <1>3, FS_NatBijection
<1>5. Cardinality(Ids(s)) = Len(s)
  BY <1>1, <1>3, FS_CountingElements
<1>6. QED BY <1>4, <1>5

\* A concatenation, place by place.
LEMMA ConcatAt ==
  ASSUME NEW X, NEW s \in Seq(X), NEW t \in Seq(X)
  PROVE  /\ s \o t \in Seq(X) /\ Len(s \o t) = Len(s) + Len(t)
         /\ Len(s) \in Nat /\ Len(t) \in Nat
         /\ \A i \in 1 .. Len(s) + Len(t) :
              (s \o t)[i] = IF i <= Len(s) THEN s[i] ELSE t[i - Len(s)]
  BY ConcatProperties, SMT

\* The elements of a sequence.
LEMMA IdsProperties ==
  ASSUME NEW X, NEW s \in Seq(X), NEW t \in Seq(X), NEW x \in X
  PROVE  /\ Ids(<<>>) = {} /\ Ids(s) \subseteq X
         /\ Append(s, x) \in Seq(X) /\ Ids(Append(s, x)) = Ids(s) \cup {x}
         /\ s \o t \in Seq(X) /\ Ids(s \o t) = Ids(s) \cup Ids(t)
         /\ s # <<>> => /\ Head(s) \in Ids(s) /\ Tail(s) \in Seq(X)
                        /\ Ids(Tail(s)) \subseteq Ids(s)
<1>1. Ids(<<>>) = {} /\ Ids(s) \subseteq X
  BY DEF Ids
<1>2. Append(s, x) \in Seq(X) /\ Ids(Append(s, x)) = Ids(s) \cup {x}
  <2> DEFINE a == Append(s, x)
  <2>1. /\ a \in Seq(X) /\ Len(a) = Len(s) + 1 /\ Len(s) \in Nat
        /\ \A i \in 1 .. Len(s) : a[i] = s[i]
        /\ a[Len(s) + 1] = x
    BY AppendProperties, SMT
  <2> HIDE DEF a
  <2>2. Ids(a) = Ids(s) \cup {x}
    BY <2>1 DEF Ids
  <2>3. QED BY <2>1, <2>2 DEF a
<1>3. s \o t \in Seq(X) /\ Ids(s \o t) = Ids(s) \cup Ids(t)
  <2> DEFINE c == s \o t
  <2>1. /\ c \in Seq(X) /\ Len(c) = Len(s) + Len(t) /\ Len(s) \in Nat /\ Len(t) \in Nat
        /\ \A i \in 1 .. Len(s) + Len(t) : c[i] = IF i <= Len(s) THEN s[i] ELSE t[i - Len(s)]
    BY ConcatProperties, SMT
  <2> HIDE DEF c
  <2>2. ASSUME NEW i \in 1 .. Len(c) PROVE c[i] \in Ids(s) \cup Ids(t)
    BY <2>1 DEF Ids
  <2>3. ASSUME NEW i \in 1 .. Len(s) PROVE s[i] \in Ids(c)
    <3>1. i \in 1 .. Len(c) /\ c[i] = s[i]
      BY <2>1
    <3>2. QED BY <3>1 DEF Ids
  <2>4. ASSUME NEW i \in 1 .. Len(t) PROVE t[i] \in Ids(c)
    <3>1. Len(s) + i \in 1 .. Len(c) /\ c[Len(s) + i] = t[i]
      BY <2>1
    <3>2. QED BY <3>1 DEF Ids
  <2>5. Ids(c) = Ids(s) \cup Ids(t)
    BY <2>2, <2>3, <2>4 DEF Ids
  <2>6. QED BY <2>1, <2>5 DEF c
<1>4. ASSUME s # <<>>
      PROVE  Head(s) \in Ids(s) /\ Tail(s) \in Seq(X) /\ Ids(Tail(s)) \subseteq Ids(s)
  <2>1. /\ Len(s) \in Nat \ {0} /\ Head(s) = s[1] /\ Tail(s) \in Seq(X)
        /\ Len(Tail(s)) = Len(s) - 1
        /\ \A i \in 1 .. Len(s) - 1 : Tail(s)[i] = s[i + 1]
    BY <1>4, HeadTailProperties, SMT
  <2>2. QED BY <2>1 DEF Ids
<1>5. QED BY <1>1, <1>2, <1>3, <1>4

\* The lines of the model are lines, and told apart.
LEMMA LineTypes ==
  /\ \A r \in Nat : /\ Entry(r) \in LineSet /\ Entry(r).kind = "entry" /\ Entry(r).id = r
                    /\ Tomb(r) \in LineSet /\ Tomb(r).kind = "tomb" /\ Tomb(r).id = r
  /\ Junk \in LineSet /\ Junk.kind = "junk"
  /\ \A l \in LineSet : l.kind = "entry" => l = Entry(l.id) /\ l.id \in Nat
  BY DEF Entry, Tomb, Junk, LineSet, NoRun

\* The tombstones of a sequence of runs.
LEMMA TombsProperties ==
  ASSUME NEW s \in Seq(Nat)
  PROVE  /\ Tombs(s) \in Seq(LineSet)
         /\ Ids(Tombs(s)) = {Tomb(r) : r \in Ids(s)}
         /\ \A l \in Ids(Tombs(s)) : l.kind = "tomb"
<1>1. /\ Len(s) \in Nat /\ \A i \in 1 .. Len(s) : s[i] \in Nat
  OBVIOUS
<1>2. \A i \in 1 .. Len(s) : Tomb(s[i]) \in LineSet /\ Tomb(s[i]).kind = "tomb"
  BY <1>1, LineTypes
<1>3. Tombs(s) = [i \in 1 .. Len(s) |-> Tomb(s[i])]
  BY DEF Tombs
<1>4. Tombs(s) \in Seq(LineSet) /\ Len(Tombs(s)) = Len(s)
  BY <1>1, <1>2, <1>3
<1>5. \A i \in 1 .. Len(s) : Tombs(s)[i] = Tomb(s[i])
  BY <1>3
<1>6. QED BY <1>2, <1>4, <1>5 DEF Ids

\* Two sequences that share no entry, put together.
LEMMA OnceConcat ==
  ASSUME NEW s \in Seq(LineSet), NEW t \in Seq(LineSet),
         EntriesOnce(s), EntriesOnce(t), NoCommonEntry(Ids(s), Ids(t))
  PROVE  EntriesOnce(s \o t)
<1> DEFINE c == s \o t
<1>1. /\ c \in Seq(LineSet) /\ Len(c) = Len(s) + Len(t)
      /\ Len(s) \in Nat /\ Len(t) \in Nat
      /\ \A i \in 1 .. Len(s) + Len(t) : c[i] = IF i <= Len(s) THEN s[i] ELSE t[i - Len(s)]
  BY ConcatAt
<1> HIDE DEF c
<1> SUFFICES ASSUME NEW i \in 1 .. Len(c), NEW j \in 1 .. Len(c), c[i].kind = "entry", c[i] = c[j]
             PROVE  i = j
  BY DEF EntriesOnce, c
<1>2. \A k \in 1 .. Len(c) :
        \/ k \in 1 .. Len(s) /\ c[k] = s[k]
        \/ k - Len(s) \in 1 .. Len(t) /\ c[k] = t[k - Len(s)] /\ ~(k \in 1 .. Len(s))
  BY <1>1
<1>3. CASE i \in 1 .. Len(s) /\ j \in 1 .. Len(s)
  BY <1>2, <1>3 DEF EntriesOnce
<1>4. CASE i \notin 1 .. Len(s) /\ j \notin 1 .. Len(s)
  <2>1. i - Len(s) = j - Len(s)
    BY <1>2, <1>4 DEF EntriesOnce
  <2>2. QED BY <1>1, <2>1
<1>5. CASE i \in 1 .. Len(s) /\ j \notin 1 .. Len(s)
  <2>1. c[i] \in Ids(s) /\ c[j] \in Ids(t)
    BY <1>2, <1>5 DEF Ids
  <2>2. QED BY <2>1 DEF NoCommonEntry
<1>6. CASE i \notin 1 .. Len(s) /\ j \in 1 .. Len(s)
  <2>1. c[j] \in Ids(s) /\ c[i] \in Ids(t)
    BY <1>2, <1>6 DEF Ids
  <2>2. QED BY <2>1 DEF NoCommonEntry
<1>7. QED BY <1>3, <1>4, <1>5, <1>6

\* One more line, which is no entry or a new one.
LEMMA OnceAppend ==
  ASSUME NEW s \in Seq(LineSet), EntriesOnce(s), NEW l \in LineSet, l \notin Ids(s)
  PROVE  EntriesOnce(Append(s, l))
<1> DEFINE a == Append(s, l)
<1>1. /\ a \in Seq(LineSet) /\ Len(a) = Len(s) + 1 /\ Len(s) \in Nat
      /\ \A i \in 1 .. Len(s) : a[i] = s[i]
      /\ a[Len(s) + 1] = l
  BY AppendProperties, SMT
<1> HIDE DEF a
<1>2. \A k \in 1 .. Len(a) :
        \/ k \in 1 .. Len(s) /\ a[k] = s[k]
        \/ k = Len(s) + 1 /\ a[k] = l
  BY <1>1
<1>3. QED BY <1>2 DEF EntriesOnce, Ids, a

\* A sequence of tombstones has no entry.
LEMMA OnceTombs ==
  ASSUME NEW s \in Seq(Nat), NEW S
  PROVE  EntriesOnce(Tombs(s)) /\ NoCommonEntry(S, Ids(Tombs(s)))
  BY TombsProperties DEF EntriesOnce, NoCommonEntry, Ids

\* What lands: the lines, but that the first may be swallowed.
LEMMA LandedProperties ==
  ASSUME NEW lines \in Seq(LineSet)
  PROVE  /\ Landed(lines) \in Seq(LineSet)
         /\ Ids(Landed(lines)) \subseteq Ids(lines) \cup {Junk}
         /\ EntriesOnce(lines) => EntriesOnce(Landed(lines))
<1>1. CASE frag /\ lines # <<>>
  <2> DEFINE t == Tail(lines)
             L == <<Junk>> \o t
  <2>1. /\ t \in Seq(LineSet) /\ Len(t) = Len(lines) - 1 /\ Len(lines) \in Nat \ {0}
        /\ \A i \in 1 .. Len(lines) - 1 : t[i] = lines[i + 1]
    BY <1>1, HeadTailProperties, SMT
  <2>2. <<Junk>> \in Seq(LineSet) /\ Len(<<Junk>>) = 1 /\ <<Junk>>[1] = Junk
    BY LineTypes
  <2> HIDE DEF t
  <2>3. /\ L \in Seq(LineSet) /\ Len(L) = Len(<<Junk>>) + Len(t)
        /\ \A i \in 1 .. Len(<<Junk>>) + Len(t) :
             L[i] = IF i <= Len(<<Junk>>) THEN <<Junk>>[i] ELSE t[i - Len(<<Junk>>)]
    <3>1. t \in Seq(LineSet) /\ <<Junk>> \in Seq(LineSet)
      BY <2>1, <2>2
    <3>2. QED BY <3>1, ConcatAt
  <2> HIDE DEF L
  <2>4. /\ Len(L) = Len(lines)
        /\ L[1] = Junk
        /\ \A i \in 2 .. Len(lines) : L[i] = lines[i]
    <3>1. Len(L) = Len(lines) /\ L[1] = Junk
      BY <2>1, <2>2, <2>3
    <3>2. ASSUME NEW i \in 2 .. Len(lines) PROVE L[i] = lines[i]
      <4>1. i \in 1 .. 1 + Len(t) /\ ~(i <= 1) /\ i - 1 \in 1 .. Len(lines) - 1 /\ (i - 1) + 1 = i
        BY <2>1
      <4>2. L[i] = t[i - 1]
        BY <2>2, <2>3, <4>1
      <4>3. t[i - 1] = lines[i]
        BY <2>1, <4>1
      <4>4. QED BY <4>2, <4>3
    <3>3. QED BY <3>1, <3>2
  <2>5. Ids(L) \subseteq Ids(lines) \cup {Junk}
    BY <2>1, <2>4 DEF Ids
  <2>6. EntriesOnce(lines) => EntriesOnce(L)
    <3>1. Junk.kind # "entry"
      BY LineTypes
    <3>2. QED BY <2>1, <2>4, <3>1 DEF EntriesOnce
  <2>7. Landed(lines) = L
    BY <1>1 DEF Landed, L, t
  <2>8. QED BY <2>3, <2>5, <2>6, <2>7
<1>2. CASE ~(frag /\ lines # <<>>)
  BY <1>2 DEF Landed
<1>3. QED BY <1>1, <1>2

\* What the index file is after a write.
LEMMA WrittenProperties ==
  ASSUME TypeOK, NEW lines \in Seq(LineSet), Written(lines)
  PROVE  /\ index' \in Seq(LineSet) /\ frag' \in BOOLEAN
         /\ Lines' \subseteq Lines \cup Ids(lines) \cup {Junk}
         /\ EntriesOnce(index) /\ EntriesOnce(lines) /\ NoCommonEntry(Ids(index), Ids(lines))
              => EntriesOnce(index')
<1> DEFINE L == Landed(lines)
<1>1. index' = index \o L /\ frag' \in BOOLEAN
  BY DEF Written, TypeOK
<1>2. /\ L \in Seq(LineSet) /\ Ids(L) \subseteq Ids(lines) \cup {Junk}
      /\ EntriesOnce(lines) => EntriesOnce(L)
  BY LandedProperties
<1> HIDE DEF L
<1>3. index \in Seq(LineSet) /\ Junk \in LineSet /\ Junk.kind # "entry"
  BY LineTypes DEF TypeOK
<1>4. index \o L \in Seq(LineSet) /\ Ids(index \o L) = Ids(index) \cup Ids(L)
  BY <1>2, <1>3, IdsProperties
<1>5. Lines' = Ids(index') /\ Lines = Ids(index)
  BY DEF Lines, Ids
<1>6. Lines' \subseteq Lines \cup Ids(lines) \cup {Junk}
  BY <1>1, <1>2, <1>4, <1>5
<1>7. ASSUME EntriesOnce(index), EntriesOnce(lines), NoCommonEntry(Ids(index), Ids(lines))
      PROVE  EntriesOnce(index')
  <2>1. NoCommonEntry(Ids(index), Ids(L))
    BY <1>2, <1>3, <1>7 DEF NoCommonEntry
  <2>2. QED BY <1>1, <1>2, <1>3, <1>7, <2>1, OnceConcat
<1>8. QED BY <1>1, <1>4, <1>6, <1>7

\* load_index gives the runs of a model that have an entry and no tombstone,
\* each once.
LEMMA LoadedProperties ==
  ASSUME TypeOK, EntriesOnce(index), NEW m
  PROVE  /\ LoadedModel(m) \in Seq(Nat) /\ NoDup(LoadedModel(m))
         /\ Ids(LoadedModel(m)) =
              {l.id : l \in {x \in Lines : Indexed(x) /\ runs[x.id].model = m}}
<1> DEFINE P == {i \in 1 .. Len(index) : Indexed(index[i]) /\ runs[index[i].id].model = m}
           K == Kept(index, P)
           s == [i \in 1 .. Len(K) |-> K[i].id]
<1>1. index \in Seq(LineSet) /\ P \in SUBSET (1 .. Len(index))
  BY DEF TypeOK
<1>2. LoadedModel(m) = s
  BY DEF LoadedModel
<1>3. \A i, j \in P : index[i] = index[j] => i = j
  BY DEF EntriesOnce, Indexed
<1>4. \A x \in {index[i] : i \in P} : x.kind = "entry"
  BY DEF Indexed
<1>5. {index[i] : i \in P} = {x \in Lines : Indexed(x) /\ runs[x.id].model = m}
  BY DEF Lines
<1> HIDE DEF P
<1>k. K \in Seq(LineSet) /\ Filtered(K, index, P)
  BY <1>1, KeptProperties, Zenon
<1> HIDE DEF K
<1>6. K \in Seq(LineSet) /\ Ids(K) = {index[i] : i \in P}
  BY <1>k, Zenon DEF Filtered
<1>7. \A a, b \in 1 .. Len(K) : K[a] = K[b] => a = b
  BY <1>3, <1>k, Zenon DEF Filtered
<1>8. Len(K) \in Nat /\ \A i \in 1 .. Len(K) : K[i] \in LineSet /\ K[i].kind = "entry"
  <2>1. Len(K) \in Nat /\ \A i \in 1 .. Len(K) : K[i] \in LineSet
    BY <1>6
  <2>2. \A i \in 1 .. Len(K) : K[i] \in Ids(K)
    BY DEF Ids
  <2>3. QED BY <1>4, <1>6, <2>1, <2>2
<1>9. \A i \in 1 .. Len(K) : K[i].id \in Nat /\ K[i] = Entry(K[i].id)
  BY <1>8, LineTypes
<1>10. s \in Seq(Nat) /\ Len(s) = Len(K) /\ \A i \in 1 .. Len(K) : s[i] = K[i].id
  BY <1>8, <1>9
<1> HIDE DEF s
<1>11. NoDup(s)
  BY <1>7, <1>9, <1>10 DEF NoDup
<1>12. Ids(s) = {l.id : l \in Ids(K)}
  BY <1>10 DEF Ids
<1>13. QED BY <1>2, <1>5, <1>6, <1>10, <1>11, <1>12

\* What process w has indexed of the model of its run in flight.
Own(w) == by_model[w][runs[cur[w]].model]

\* A run that was created has a model and a spawn time.
LEMMA RunTypes ==
  ASSUME TypeOK, NEW r \in 1 .. Len(runs)
  PROVE  runs[r].model \in Models /\ runs[r].spawn \in Nat
<1>1. runs \in Seq(RunSet)
  BY DEF TypeOK
<1>2. runs[r] \in RunSet
  BY <1>1
<1>3. QED BY <1>2, StoreAssumption DEF RunSet

\* The candidates of a prune are runs of the model in flight, each once, as
\* many as there are over the limit, and those that come first.
LEMMA CandidatesProperties ==
  ASSUME StoreInv, NEW w \in Writers, pc[w] = "prune"
  PROVE  /\ Candidates(w) \in Seq(Nat)
         /\ Ids(Candidates(w)) \subseteq Ids(Own(w))
         /\ NoDup(Candidates(w))
         /\ Len(Candidates(w)) = IF Len(Own(w)) > Limit THEN Len(Own(w)) - Limit ELSE 0
         /\ \A i \in 1 .. Len(Candidates(w)) : \A x \in Ids(Own(w)) :
              \/ \E j \in 1 .. i - 1 : x = Candidates(w)[j]
              \/ ~Before(w, Own(w), x, Candidates(w)[i])
<1> DEFINE m == runs[cur[w]].model
           s == by_model[w][m]
           S == Ids(s)
           R == {e \in S \X S : Before(w, s, e[1], e[2])}
           rank(r) == Cardinality({x \in S : Before(w, s, x, r)})
           n == Len(s) - Limit
           pick(i) == CHOOSE r \in S : rank(r) = i - 1
           C == Candidates(w)
           key(r) == IF Get(w, r) THEN runs[r].spawn ELSE -1
<1>1. m \in Models /\ s \in Seq(Nat)
  <2>1. cur[w] \in 1 .. Len(runs)
    BY DEF StoreInv, TypeOK, CurInv, Busy, NoRun
  <2>2. m \in Models
    BY <2>1, RunTypes DEF StoreInv
  <2>3. QED BY <2>2 DEF StoreInv, TypeOK
<1> HIDE DEF m
<1>2. NoDup(s)
  BY <1>1 DEF StoreInv, MemInv
<1>3. \A r \in S : r \in 1 .. Len(runs)
  BY <1>1 DEF StoreInv, NamedInv, Started
<1>4. \A r \in S : key(r) \in Int
  <2>1. \A r \in S : runs[r].spawn \in Nat
    BY <1>3, RunTypes DEF StoreInv
  <2>2. QED BY <2>1
<1>5. \A a, b \in S : Before(w, s, a, b) <=>
        key(a) < key(b) \/ (key(a) = key(b) /\ Place(s, a) < Place(s, b))
  BY DEF Before
<1> HIDE DEF s
<1>6. \A r \in S : Place(s, r) \in 1 .. Len(s) /\ s[Place(s, r)] = r
  BY DEF Place, Ids
<1> HIDE DEF key, S
<1>7. Len(s) \in Nat
  BY <1>1
<1>8. \A r \in S : Place(s, r) \in Int
  BY <1>6, <1>7
<1>9. \A a, b \in S : Place(s, a) = Place(s, b) => a = b
  BY <1>6
<1>10. Orders(R, S)
  BY <1>4, <1>5, <1>8, <1>9 DEF Orders
<1>11. \A r \in S : Below(S, R, r) = {x \in S : Before(w, s, x, r)}
  BY DEF Below
<1>12. IsFiniteSet(S) /\ Cardinality(S) = Len(s)
  BY <1>1, <1>2, NoDupCardinality DEF S
<1> HIDE DEF R
<1>13. Ranked(R, S)
  BY <1>10, <1>12, Ranks
<1>14. /\ \A i \in 1 .. Len(s) : \E r \in S : rank(r) = i - 1
       /\ \A r \in S : rank(r) \in 0 .. Len(s) - 1
       /\ \A a, b \in S : rank(a) = rank(b) => a = b
       /\ \A a, b \in S : <<a, b>> \in R => rank(a) < rank(b)
  <2>1. /\ \A i \in 1 .. Cardinality(S) : \E r \in S : Cardinality(Below(S, R, r)) = i - 1
        /\ \A r \in S : Cardinality(Below(S, R, r)) \in 0 .. Cardinality(S) - 1
        /\ \A a, b \in S : Cardinality(Below(S, R, a)) = Cardinality(Below(S, R, b)) => a = b
        /\ \A a, b \in S : <<a, b>> \in R => Cardinality(Below(S, R, a)) < Cardinality(Below(S, R, b))
    BY <1>13, Zenon DEF Ranked
  <2>2. \A r \in S : rank(r) = Cardinality(Below(S, R, r))
    BY <1>11
  <2> HIDE DEF rank
  <2>3. QED BY <1>12, <2>1, <2>2
<1>15. C = [i \in 1 .. n |-> pick(i)]
  BY DEF Candidates, s, S, m
<1> HIDE DEF rank, C
<1>16. \A i \in 1 .. n : pick(i) \in S /\ rank(pick(i)) = i - 1
  <2>1. \A i \in 1 .. n : i \in 1 .. Len(s)
    BY <1>7, StoreAssumption
  <2>2. QED BY <1>14, <2>1
<1> HIDE DEF pick
<1>17. S \subseteq Nat
  BY <1>1 DEF S, Ids
<1> DEFINE k == IF Len(s) > Limit THEN n ELSE 0
<1>18. k \in Nat /\ 1 .. k = 1 .. n
  BY <1>7, StoreAssumption
<1> HIDE DEF k, n
<1>19. C = [i \in 1 .. k |-> pick(i)] /\ \A i \in 1 .. k : pick(i) \in S /\ pick(i) \in Nat
  BY <1>15, <1>16, <1>17, <1>18
<1>20. C \in Seq(Nat) /\ Len(C) = k /\ \A i \in 1 .. k : C[i] = pick(i) /\ C[i] \in S
  BY <1>18, <1>19
<1>21. Ids(C) \subseteq S
  BY <1>20 DEF Ids
<1>22. \A i \in 1 .. k : rank(C[i]) = i - 1
  BY <1>16, <1>18, <1>20
<1>23. NoDup(C)
  <2> SUFFICES ASSUME NEW i \in 1 .. k, NEW j \in 1 .. k, C[i] = C[j] PROVE i = j
    BY <1>20 DEF NoDup
  <2>1. i - 1 = j - 1 /\ i \in Int /\ j \in Int
    BY <1>18, <1>22
  <2>2. QED BY <2>1
<1>24. ASSUME NEW i \in 1 .. k, NEW x \in S, Before(w, s, x, C[i])
       PROVE  \E j \in 1 .. i - 1 : x = C[j]
  <2>1. <<x, C[i]>> \in R
    BY <1>20, <1>24 DEF R
  <2>2. rank(x) < rank(C[i])
    BY <1>14, <1>20, <2>1
  <2>3. rank(x) + 1 \in 1 .. i - 1 /\ rank(x) + 1 \in 1 .. k /\ (rank(x) + 1) - 1 = rank(x)
    BY <1>7, <1>14, <1>18, <1>22, <2>2
  <2>4. rank(C[rank(x) + 1]) = rank(x) /\ C[rank(x) + 1] \in S
    BY <1>20, <1>22, <2>3
  <2>5. x = C[rank(x) + 1]
    BY <1>14, <2>4
  <2>6. QED BY <2>3, <2>5
<1>25. Own(w) = s /\ Ids(Own(w)) = S
  BY DEF Own, s, S, m
<1>26. /\ C \in Seq(Nat) /\ Ids(C) \subseteq Ids(Own(w)) /\ NoDup(C)
       /\ Len(C) = IF Len(Own(w)) > Limit THEN Len(Own(w)) - Limit ELSE 0
       /\ \A i \in 1 .. Len(C) : \A x \in Ids(Own(w)) :
            (\E j \in 1 .. i - 1 : x = C[j]) \/ ~Before(w, Own(w), x, C[i])
  BY <1>20, <1>21, <1>23, <1>24, <1>25 DEF k, n
<1>27. QED BY <1>26 DEF C

----------------------------------------------------------------------------
(* What a step may do                                                      *)

\* What a process holds in memory.
Same(v) == /\ pc'[v] = pc[v] /\ cur'[v] = cur[v]
           /\ by_model'[v] = by_model[v] /\ by_id'[v] = by_id[v]
           /\ buf'[v] = buf[v] /\ todo'[v] = todo[v] /\ gone'[v] = gone[v]

\* A step of one process leaves the memory of the others alone.
LEMMA FrameStep ==
  ASSUME TypeOK, NEW w \in Writers, Step(w), NEW v \in Writers, v # w
  PROVE  Same(v)
<1> USE DEF TypeOK, Same, procVars, diskVars, ghosts
<1>1. CASE Open(w)
  BY <1>1 DEF Open
<1>2. CASE \E m \in Models, t \in Times : Begin(w, m, t)
  BY <1>2 DEF Begin
<1>3. CASE WriteRecord(w) \/ WriteRecordFails(w)
  BY <1>3 DEF WriteRecord, WriteRecordFails
<1>4. CASE AppendIndex(w)
  BY <1>4 DEF AppendIndex, Remember
<1>5. CASE AppendIndexFails(w)
  BY <1>5 DEF AppendIndexFails
<1>6. CASE SelectVictims(w)
  BY <1>6 DEF SelectVictims
<1>7. CASE EvictOne(w)
  BY <1>7 DEF EvictOne, RemoveFromIndex
<1>8. CASE EvictFails(w)
  BY <1>8 DEF EvictFails
<1>9. CASE EndPrune(w)
  BY <1>9 DEF EndPrune
<1>10. CASE Compare(w)
  BY <1>10 DEF Compare
<1>11. CASE Close(w)
  BY <1>11 DEF Close, Forget
<1>12. CASE Crash(w)
  BY <1>12 DEF Crash, Forget
<1>13. QED BY <1>1, <1>2, <1>3, <1>4, <1>5, <1>6, <1>7, <1>8, <1>9, <1>10, <1>11, <1>12, Zenon
           DEF Step

\* Where a process goes, and which run it is busy with.
LEMMA PcStep ==
  ASSUME TypeOK, NEW w \in Writers, Step(w)
  PROVE  /\ \/ runs' = runs /\ pc'[w] # "file"
            \/ \E m \in Models, t \in Times : Begin(w, m, t)
         /\ pc'[w] = "index" => pc[w] = "file" /\ WriteRecord(w)
         /\ \/ cur'[w] = cur[w] /\ (pc'[w] \in Busy => pc[w] \in Busy)
            \/ cur'[w] = NoRun /\ pc'[w] = "down" 
            \/ cur'[w] = Len(runs) + 1 /\ Len(runs') = Len(runs) + 1
<1> USE DEF TypeOK, Busy, procVars, diskVars, ghosts
<1>1. CASE Open(w)
  BY <1>1 DEF Open
<1>2. CASE \E m \in Models, t \in Times : Begin(w, m, t)
  BY <1>2 DEF Begin
<1>3. CASE WriteRecord(w) \/ WriteRecordFails(w)
  BY <1>3 DEF WriteRecord, WriteRecordFails, Return
<1>4. CASE AppendIndex(w)
  BY <1>4 DEF AppendIndex, Remember
<1>5. CASE AppendIndexFails(w)
  BY <1>5 DEF AppendIndexFails, Return
<1>6. CASE SelectVictims(w)
  BY <1>6 DEF SelectVictims
<1>7. CASE EvictOne(w)
  BY <1>7 DEF EvictOne, RemoveFromIndex
<1>8. CASE EvictFails(w)
  BY <1>8 DEF EvictFails
<1>9. CASE EndPrune(w)
  BY <1>9 DEF EndPrune, Return
<1>10. CASE Compare(w)
  BY <1>10 DEF Compare
<1>11. CASE Close(w)
  BY <1>11 DEF Close, Forget
<1>12. CASE Crash(w)
  BY <1>12 DEF Crash, Forget
<1>13. QED BY <1>1, <1>2, <1>3, <1>4, <1>5, <1>6, <1>7, <1>8, <1>9, <1>10, <1>11, <1>12, Zenon
           DEF Step

\* Runs are only added, at the end.
LEMMA RunsStep ==
  ASSUME TypeOK, NEW w \in Writers, Step(w)
  PROVE  /\ runs' \in Seq(RunSet) /\ Len(runs) \in Nat /\ Len(runs') \in Nat
         /\ Len(runs') >= Len(runs)
         /\ \A r \in 1 .. Len(runs) : runs'[r] = runs[r]
<1>0. runs \in Seq(RunSet)
  BY DEF TypeOK
<1>1. CASE runs' = runs
  BY <1>0, <1>1
<1>2. ASSUME NEW m \in Models, NEW t \in Times, Begin(w, m, t)
      PROVE  /\ runs' \in Seq(RunSet) /\ Len(runs) \in Nat /\ Len(runs') \in Nat
             /\ Len(runs') >= Len(runs)
             /\ \A r \in 1 .. Len(runs) : runs'[r] = runs[r]
  <2> DEFINE x == [model |-> m, spawn |-> t]
  <2>1. x \in RunSet /\ runs' = Append(runs, x)
    BY <1>2 DEF Begin, RunSet
  <2> HIDE DEF x
  <2>2. QED BY <1>0, <2>1, AppendProperties, SMT
<1>3. QED BY <1>1, <1>2, PcStep

\* A run stays started, and what it is.
LEMMA StartedStable ==
  ASSUME TypeOK, NEW w \in Writers, Step(w), NEW r, Started(r)
  PROVE  Started(r)' /\ runs'[r] = runs[r]
<1>1. r \in 1 .. Len(runs)
  BY DEF Started
<1>2. runs'[r] = runs[r] /\ r \in 1 .. Len(runs')
  BY <1>1, RunsStep
<1>3. ASSUME NEW v \in Writers, pc'[v] = "file", cur'[v] = r PROVE FALSE
  <2>1. CASE v # w
    BY <1>3, <2>1, FrameStep DEF Started, Same
  <2>2. CASE v = w
    <3>1. PICK m \in Models, t \in Times : Begin(w, m, t)
      BY <1>3, <2>2, PcStep
    <3>2. cur'[w] = Len(runs) + 1 /\ Len(runs) \in Nat
      BY <3>1, RunsStep DEF Begin, TypeOK
    <3>3. QED BY <1>1, <1>3, <2>2, <3>2
  <2>3. QED BY <2>1, <2>2
<1>4. QED BY <1>2, <1>3 DEF Started

\* The run in flight is started once its file is written.
LEMMA CurStarted ==
  ASSUME TypeOK, CurInv, NEW w \in Writers, pc[w] \in Busy \ {"file"}
  PROVE  Started(cur[w]) /\ cur[w] \in 1 .. Len(runs)
<1>1. Len(runs) \in Nat /\ cur[w] \in 1 .. Len(runs)
  BY DEF TypeOK, CurInv, NoRun
<1>2. ASSUME NEW v \in Writers, pc[v] = "file", cur[v] = cur[w] PROVE FALSE
  BY <1>2 DEF CurInv, Busy
<1>3. QED BY <1>1, <1>2 DEF Started

LEMMA CurStep ==
  ASSUME TypeOK, CurInv, NEW w \in Writers, Step(w)
  PROVE  CurInv'
<1>1. /\ Len(runs) \in Nat /\ Len(runs') \in Nat /\ Len(runs') >= Len(runs)
  BY RunsStep
<1>2. \A v \in Writers : v # w => pc'[v] = pc[v] /\ cur'[v] = cur[v]
  BY FrameStep DEF Same
<1>3. \A v \in Writers : /\ cur[v] \in 0 .. Len(runs)
                         /\ pc[v] \in Busy => cur[v] # NoRun
                         /\ \A u \in Writers : u # v /\ cur[u] = cur[v] => cur[v] = NoRun
  BY DEF CurInv
<1>4. \/ cur'[w] = cur[w] /\ (pc'[w] \in Busy => pc[w] \in Busy)
      \/ cur'[w] = NoRun /\ pc'[w] \notin Busy
      \/ cur'[w] = Len(runs) + 1 /\ Len(runs') = Len(runs) + 1
  BY PcStep DEF Busy
<1>5. \A v \in Writers : cur'[v] \in 0 .. Len(runs') /\ (pc'[v] \in Busy => cur'[v] # NoRun)
  BY <1>1, <1>2, <1>3, <1>4 DEF NoRun
<1>6. ASSUME NEW v \in Writers, NEW u \in Writers, u # v, cur'[u] = cur'[v]
      PROVE  cur'[v] = NoRun
  BY <1>1, <1>2, <1>3, <1>4, <1>6 DEF NoRun
<1>7. QED BY <1>5, <1>6 DEF CurInv

\* The lines that a step adds: the entry of the run in flight, or the
\* tombstones of what was deleted.
New(w, l) == \/ l = Junk
             \/ pc[w] = "index" /\ l = Entry(cur[w])
             \/ pc[w] = "evict" /\ \E r \in Ids(gone[w]) : l = Tomb(r)

LEMMA HeldStep ==
  ASSUME TypeOK, NEW w \in Writers, Step(w), NEW l \in Held'
  PROVE  l \in Held \/ New(w, l)
<1>1. l \in Lines' \/ \E v \in Writers : l \in Ids(buf'[v])
  BY DEF Held, Ids
<1>2. ASSUME NEW v \in Writers, v # w PROVE Ids(buf'[v]) \subseteq Held
  <2>1. buf'[v] = buf[v]
    BY <1>2, FrameStep DEF Same
  <2>2. QED BY <2>1 DEF Held
<1>3. /\ Lines \subseteq Held /\ Ids(buf[w]) \subseteq Held /\ Ids(<<>>) = {}
  BY DEF Held, Ids
<1>4. buf[w] \in Seq(LineSet) /\ gone[w] \in Seq(Nat) /\ cur[w] \in Nat
  BY DEF TypeOK
<1>5. Entry(cur[w]) \in LineSet /\ Tombs(gone[w]) \in Seq(LineSet)
      /\ Ids(Tombs(gone[w])) = {Tomb(r) : r \in Ids(gone[w])}
  BY <1>4, LineTypes, TombsProperties
<1>6. /\ Append(buf[w], Entry(cur[w])) \in Seq(LineSet)
      /\ Ids(Append(buf[w], Entry(cur[w]))) = Ids(buf[w]) \cup {Entry(cur[w])}
      /\ buf[w] \o Tombs(gone[w]) \in Seq(LineSet)
      /\ Ids(buf[w] \o Tombs(gone[w])) = Ids(buf[w]) \cup Ids(Tombs(gone[w]))
  BY <1>4, <1>5, IdsProperties
<1>7. CASE index' = index /\ buf'[w] = buf[w]
  BY <1>1, <1>2, <1>3, <1>7 DEF Lines
<1>8. CASE AppendIndex(w)
  <2>1. pc[w] = "index" /\ buf'[w] = <<>> /\ Written(Append(buf[w], Entry(cur[w])))
    BY <1>8 DEF AppendIndex, TypeOK
  <2>2. Lines' \subseteq Lines \cup Ids(Append(buf[w], Entry(cur[w]))) \cup {Junk}
    BY <1>6, <2>1, WrittenProperties
  <2>3. QED BY <1>1, <1>2, <1>3, <1>6, <2>1, <2>2 DEF New
<1>9. CASE AppendIndexFails(w)
  <2>1. pc[w] = "index" /\ buf'[w] = Append(buf[w], Entry(cur[w])) /\ index' = index
    BY <1>9 DEF AppendIndexFails, diskVars, TypeOK
  <2>2. Lines' = Lines
    BY <2>1 DEF Lines
  <2>3. QED BY <1>1, <1>2, <1>3, <1>6, <2>1, <2>2 DEF New
<1>10. CASE EndPrune(w)
  <2>1. pc[w] = "evict"
    BY <1>10 DEF EndPrune
  <2>2. CASE Written(buf[w] \o Tombs(gone[w])) /\ buf'[w] = <<>>
    <3>1. Lines' \subseteq Lines \cup Ids(buf[w] \o Tombs(gone[w])) \cup {Junk}
      BY <1>6, <2>2, WrittenProperties
    <3>2. QED BY <1>1, <1>2, <1>3, <1>5, <1>6, <2>1, <2>2, <3>1 DEF New
  <2>3. CASE index' = index /\ buf'[w] = buf[w] \o Tombs(gone[w])
    <3>1. Lines' = Lines
      BY <2>3 DEF Lines
    <3>2. QED BY <1>1, <1>2, <1>3, <1>5, <1>6, <2>1, <2>3, <3>1 DEF New
  <2>4. QED BY <1>10, <2>2, <2>3 DEF EndPrune, TypeOK
<1>11. CASE Close(w)
  <2>1. Written(buf[w]) /\ buf'[w] = <<>>
    BY <1>11 DEF Close, Forget, TypeOK
  <2>2. Lines' \subseteq Lines \cup Ids(buf[w]) \cup {Junk}
    BY <1>4, <2>1, WrittenProperties
  <2>3. QED BY <1>1, <1>2, <1>3, <2>1, <2>2 DEF New
<1>12. CASE Crash(w)
  <2>1. index' = index /\ buf'[w] = <<>>
    BY <1>12 DEF Crash, Forget, TypeOK
  <2>2. Lines' = Lines
    BY <2>1 DEF Lines
  <2>3. QED BY <1>1, <1>2, <1>3, <2>1, <2>2
<1>13. QED
  BY <1>7, <1>8, <1>9, <1>10, <1>11, <1>12
  DEF Step, Open, Begin, WriteRecord, WriteRecordFails, SelectVictims, EvictOne, EvictFails,
      Compare, diskVars

\* What a step may do to the record of a run that is past its own write: a
\* prune removes it and says so, and nothing brings it back.
LEMMA FilesStep ==
  ASSUME TypeOK, NEW w \in Writers, Step(w), NEW r, Started(r)
  PROVE  /\ Recorded(r) => Recorded(r)'
         /\ r \notin DOMAIN files => r \notin DOMAIN files'
         /\ Readable(r)' => Readable(r)
<1>1. CASE files' = files /\ pruned' = pruned
  BY <1>1 DEF Recorded, Readable
<1>2. CASE pc[w] = "file" /\ pruned' = pruned
           /\ \E c \in {"whole", "torn"} : files' = FileWith(cur[w], c)
  <2>1. r # cur[w]
    BY <1>2 DEF Started
  <2>2. QED BY <1>2, <2>1 DEF Recorded, Readable, FileWith
<1>3. CASE EvictOne(w)
  <2> DEFINE h == Head(todo[w])
  <2>1. /\ files' = [x \in DOMAIN files \ {h} |-> files[x]]
        /\ pruned' = pruned \cup ({h} \cap DOMAIN files)
    BY <1>3 DEF EvictOne
  <2> HIDE DEF h
  <2>2. QED BY <2>1 DEF Recorded, Readable
<1>4. CASE WriteRecord(w)
  BY <1>2, <1>4 DEF WriteRecord, ghosts
<1>5. CASE WriteRecordFails(w)
  BY <1>1, <1>2, <1>5 DEF WriteRecordFails, ghosts
<1>6. CASE Crash(w)
  BY <1>1, <1>2, <1>6 DEF Crash, ghosts
<1>7. CASE EndPrune(w)
  BY <1>1, <1>7 DEF EndPrune
<1>8. CASE Close(w)
  BY <1>1, <1>8 DEF Close, ghosts
<1>9. QED
  BY <1>1, <1>3, <1>4, <1>5, <1>6, <1>7, <1>8
  DEF Step, Open, Begin, AppendIndex, AppendIndexFails, SelectVictims, EvictFails, Compare,
      diskVars, ghosts

----------------------------------------------------------------------------
(* The invariant is inductive                                              *)

LEMMA InitInv == Init => StoreInv
<1> SUFFICES ASSUME Init PROVE StoreInv
  OBVIOUS
<1> USE DEF Init
<1>1. TypeOK
  <2>1. files \in [DOMAIN files -> {"whole", "torn"}]
    OBVIOUS
  <2>2. runs \in Seq(RunSet) /\ index \in Seq(LineSet)
    OBVIOUS
  <2>f. frag \in BOOLEAN
    BY Zenon
  <2>3. /\ pc \in [Writers -> Busy \cup {"down", "idle"}] /\ cur \in [Writers -> Nat]
        /\ by_model \in [Writers -> [Models -> Seq(Nat)]]
        /\ by_id \in [Writers -> SUBSET Nat] /\ buf \in [Writers -> Seq(LineSet)]
        /\ todo \in [Writers -> Seq(Nat)] /\ gone \in [Writers -> Seq(Nat)]
    BY DEF NoRun
  <2>4. QED BY <2>1, <2>2, <2>f, <2>3, Zenon DEF TypeOK
<1>2. CurInv
  BY DEF CurInv, Busy, NoRun
<1>3. /\ Held = {}
      /\ \A w \in Writers : Ids(todo[w]) = {} /\ Ids(gone[w]) = {} /\ by_id[w] = {}
      /\ \A w \in Writers : \A m \in Models : Ids(by_model[w][m]) = {}
  BY DEF Held, Lines, Ids
<1>4. NamedInv
  BY <1>3 DEF NamedInv
<1>5. OnceInv
  BY <1>3 DEF OnceInv, EntriesOnce, NoCommonEntry, Ids
<1>6. MemInv
  BY <1>3 DEF MemInv, NoDup
<1>7. DiskInv
  BY <1>3 DEF DiskInv
<1>8. QED BY <1>1, <1>2, <1>4, <1>5, <1>6, <1>7 DEF StoreInv

\* The files are whole or torn, whatever happens to them.
LEMMA FilesType ==
  ASSUME TypeOK, NEW w \in Writers, Step(w)
  PROVE  files' \in [DOMAIN files' -> {"whole", "torn"}]
<1>0. files \in [DOMAIN files -> {"whole", "torn"}]
  BY DEF TypeOK
<1>1. CASE files' = files
  BY <1>0, <1>1
<1>2. CASE \E c \in {"whole", "torn"} : files' = FileWith(cur[w], c)
  BY <1>0, <1>2 DEF FileWith
<1>3. CASE EvictOne(w)
  <2>1. PICK h : files' = [x \in DOMAIN files \ {h} |-> files[x]]
    BY <1>3 DEF EvictOne
  <2>2. QED BY <1>0, <2>1
<1>4. CASE WriteRecord(w) \/ WriteRecordFails(w)
  BY <1>1, <1>2, <1>4 DEF WriteRecord, WriteRecordFails
<1>5. CASE Crash(w)
  BY <1>1, <1>2, <1>5 DEF Crash
<1>6. QED
  BY <1>1, <1>3, <1>4, <1>5
  DEF Step, Open, Begin, AppendIndex, AppendIndexFails, SelectVictims, EvictFails, EndPrune, Compare,
      Close, diskVars

LEMMA TypeStep ==
  ASSUME StoreInv, NEW w \in Writers, Step(w)
  PROVE  TypeOK'
<1>0. TypeOK /\ runs' \in Seq(RunSet) /\ files' \in [DOMAIN files' -> {"whole", "torn"}]
  BY RunsStep, FilesType DEF StoreInv
<1>a. /\ index \in Seq(LineSet) /\ frag \in BOOLEAN
      /\ pc \in [Writers -> Busy \cup {"down", "idle"}]
      /\ cur \in [Writers -> Nat]
      /\ by_model \in [Writers -> [Models -> Seq(Nat)]]
      /\ by_id \in [Writers -> SUBSET Nat]
      /\ buf \in [Writers -> Seq(LineSet)]
      /\ todo \in [Writers -> Seq(Nat)] /\ gone \in [Writers -> Seq(Nat)]
  BY <1>0 DEF TypeOK
<1>b. Return(w) \in Busy
  BY DEF Return, Busy
<1>c. Entry(cur[w]) \in LineSet /\ Tombs(gone[w]) \in Seq(LineSet)
  BY <1>a, LineTypes, TombsProperties
<1>d. /\ Append(buf[w], Entry(cur[w])) \in Seq(LineSet)
      /\ buf[w] \o Tombs(gone[w]) \in Seq(LineSet)
      /\ todo[w] # <<>> => Head(todo[w]) \in Nat /\ Tail(todo[w]) \in Seq(Nat)
                           /\ Append(gone[w], Head(todo[w])) \in Seq(Nat)
  <2>1. buf[w] \in Seq(LineSet) /\ todo[w] \in Seq(Nat) /\ gone[w] \in Seq(Nat)
    BY <1>a
  <2>2. QED BY <1>c, <2>1
<1>e. \A lines \in Seq(LineSet) : Written(lines) => index' \in Seq(LineSet) /\ frag' \in BOOLEAN
  BY <1>0, WrittenProperties
<1>f. Busy \cup {"down", "idle"} = {"file", "index", "prune", "evict", "compare", "done", "down", "idle"}
  BY DEF Busy
<1>g. <<>> \in Seq(Nat) /\ <<>> \in Seq(LineSet) /\ NoRun \in Nat
  BY DEF NoRun
<1> DEFINE Rest == /\ index' \in Seq(LineSet) /\ frag' \in BOOLEAN
                   /\ pc' \in [Writers -> Busy \cup {"down", "idle"}]
                   /\ cur' \in [Writers -> Nat]
                   /\ by_model' \in [Writers -> [Models -> Seq(Nat)]]
                   /\ by_id' \in [Writers -> SUBSET Nat]
                   /\ buf' \in [Writers -> Seq(LineSet)]
                   /\ todo' \in [Writers -> Seq(Nat)] /\ gone' \in [Writers -> Seq(Nat)]
<1> SUFFICES Rest
  BY <1>0 DEF TypeOK
<1>1. CASE Open(w)
  <2>1. [m \in Models |-> LoadedModel(m)] \in [Models -> Seq(Nat)]
    BY <1>0, LoadedProperties DEF StoreInv, OnceInv
  <2>2. LoadedIds \in SUBSET Nat
    <3>1. \A x \in Lines : x \in LineSet
      BY <1>a DEF Lines
    <3>2. QED BY <3>1 DEF LoadedIds, LineSet
  <2> DEFINE bm == [m \in Models |-> LoadedModel(m)]
  <2> HIDE DEF bm
  <2>3. by_model' = [by_model EXCEPT ![w] = bm] /\ bm \in [Models -> Seq(Nat)]
    BY <1>1, <2>1 DEF Open, bm
  <2>4. by_model' \in [Writers -> [Models -> Seq(Nat)]]
    BY <1>a, <2>3
  <2>5. QED BY <1>1, <1>a, <1>f, <2>2, <2>4 DEF Open, diskVars
<1>2. CASE \E m \in Models, t \in Times : Begin(w, m, t)
  <2>1. Len(runs) + 1 \in Nat
    BY <1>0, RunsStep
  <2>2. QED BY <1>2, <1>a, <1>f, <2>1 DEF Begin, diskVars
<1>3. CASE WriteRecord(w) \/ WriteRecordFails(w)
  BY <1>3, <1>a, <1>b, <1>f DEF WriteRecord, WriteRecordFails
<1>4. CASE AppendIndex(w)
  <2>1. by_model' \in [Writers -> [Models -> Seq(Nat)]] /\ by_id' \in [Writers -> SUBSET Nat]
    <3>1. cur[w] \in Nat /\ cur[w] \in 1 .. Len(runs)
      BY <1>4, <1>a, CurStarted DEF AppendIndex, StoreInv, Busy
    <3>2. runs[cur[w]].model \in Models
      BY <1>0, <3>1, RunTypes
    <3> DEFINE m == runs[cur[w]].model
    <3> HIDE DEF m
    <3>3. by_model' = [by_model EXCEPT ![w][m] = Append(@, cur[w])] /\ m \in Models
          /\ by_id' = [by_id EXCEPT ![w] = @ \cup {cur[w]}]
      BY <1>4, <3>2 DEF AppendIndex, Remember, m
    <3>4. by_model[w][m] \in Seq(Nat)
      BY <1>a, <3>3
    <3>5. Append(by_model[w][m], cur[w]) \in Seq(Nat)
      BY <3>1, <3>4
    <3>6. QED BY <1>a, <3>1, <3>3, <3>5
  <2>2. index' \in Seq(LineSet) /\ frag' \in BOOLEAN
    BY <1>4, <1>d, <1>e DEF AppendIndex
  <2>3. QED BY <1>4, <1>a, <1>f, <1>g, <2>1, <2>2 DEF AppendIndex
<1>5. CASE AppendIndexFails(w)
  BY <1>5, <1>a, <1>b, <1>d DEF AppendIndexFails, diskVars
<1>6. CASE SelectVictims(w)
  <2>1. Candidates(w) \in Seq(Nat)
    BY <1>6, CandidatesProperties DEF SelectVictims
  <2>2. QED BY <1>6, <1>a, <1>f, <2>1 DEF SelectVictims, diskVars
<1>7. CASE EvictOne(w)
  <2>1. by_model' \in [Writers -> [Models -> Seq(Nat)]] /\ by_id' \in [Writers -> SUBSET Nat]
    <3>1. cur[w] \in 1 .. Len(runs)
      BY <1>7, CurStarted DEF EvictOne, StoreInv, Busy
    <3>2. runs[cur[w]].model \in Models
      BY <1>0, <3>1, RunTypes
    <3> DEFINE m == runs[cur[w]].model
               h == Head(todo[w])
               s == by_model[w][m]
               K == Kept(s, {i \in 1 .. Len(s) : s[i] # h})
    <3>3. s \in Seq(Nat)
      BY <1>a, <3>2
    <3>4. K \in Seq(Nat)
      <4> DEFINE P == {i \in 1 .. Len(s) : s[i] # h}
      <4>1. P \in SUBSET (1 .. Len(s))
        OBVIOUS
      <4> HIDE DEF P, s
      <4>2. Kept(s, P) \in Seq(Nat)
        BY <3>3, <4>1, KeptProperties, Zenon
      <4>3. QED BY <4>2 DEF P
    <3>5. /\ m \in Models
          /\ by_model' = [by_model EXCEPT ![w][m] = K]
          /\ by_id' = [by_id EXCEPT ![w] = @ \ {h}]
      BY <1>7, <1>a, <3>2 DEF EvictOne, RemoveFromIndex
    <3> HIDE DEF m, h, K
    <3>6. QED BY <1>a, <3>4, <3>5
  <2>2. QED BY <1>7, <1>a, <1>d, <2>1 DEF EvictOne
<1>8. CASE EvictFails(w)
  BY <1>8, <1>a, <1>d DEF EvictFails, diskVars
<1>9. CASE EndPrune(w)
  <2>1. index' \in Seq(LineSet) /\ frag' \in BOOLEAN
    BY <1>9, <1>a, <1>d, <1>e DEF EndPrune
  <2>2. QED BY <1>9, <1>a, <1>b, <1>d, <1>g, <2>1 DEF EndPrune
<1>10. CASE Compare(w)
  BY <1>10, <1>a, <1>f DEF Compare, diskVars
<1>h. ASSUME Forget(w)
      PROVE  /\ pc' \in [Writers -> Busy \cup {"down", "idle"}]
             /\ cur' \in [Writers -> Nat]
             /\ by_model' \in [Writers -> [Models -> Seq(Nat)]]
             /\ by_id' \in [Writers -> SUBSET Nat]
             /\ buf' \in [Writers -> Seq(LineSet)]
             /\ todo' \in [Writers -> Seq(Nat)] /\ gone' \in [Writers -> Seq(Nat)]
  BY <1>h, <1>a, <1>f, <1>g DEF Forget
<1>11. CASE Close(w)
  BY <1>11, <1>h, <1>a, <1>e DEF Close
<1>12. CASE Crash(w)
  BY <1>12, <1>h, <1>a DEF Crash
<1> HIDE DEF Rest
<1>13. QED BY <1>1, <1>2, <1>3, <1>4, <1>5, <1>6, <1>7, <1>8, <1>9, <1>10, <1>11, <1>12, Zenon
           DEF Step

LEMMA NamedStep ==
  ASSUME StoreInv, NEW w \in Writers, Step(w)
  PROVE  NamedInv'
<1>0. TypeOK /\ CurInv /\ NamedInv
  BY DEF StoreInv
<1>1. \A r : Started(r) => Started(r)' /\ runs'[r] = runs[r]
  BY <1>0, StartedStable
<1>2. pc[w] \in Busy \ {"file"} => Started(cur[w])
  BY <1>0, CurStarted
<1>3. ASSUME NEW l \in Held', l.kind # "junk" PROVE Started(l.id)'
  <2>1. l \in Held \/ New(w, l)
    BY <1>0, HeldStep
  <2>2. CASE l \in Held
    BY <1>0, <1>1, <1>3, <2>2 DEF NamedInv
  <2>3. CASE pc[w] = "index" /\ l = Entry(cur[w])
    BY <1>1, <1>2, <2>3 DEF Entry, Busy
  <2>4. CASE pc[w] = "evict" /\ \E r \in Ids(gone[w]) : l = Tomb(r)
    BY <1>0, <1>1, <2>4 DEF Tomb, NamedInv
  <2>5. QED BY <1>3, <2>1, <2>2, <2>3, <2>4, LineTypes DEF New
<1> DEFINE
     Mem(v)  == \A m \in Models : \A r \in Ids(by_model[v][m]) : Started(r) /\ runs[r].model = m
     Todo(v) == \A r \in Ids(todo[v]) : Started(r) /\ runs[r].model = runs[cur[v]].model
     Gone(v) == \A r \in Ids(gone[v]) : Started(r)
     Rest(v) == pc[v] # "evict" => todo[v] = <<>> /\ gone[v] = <<>>
<1>4. \A v \in Writers : Mem(v) /\ Todo(v) /\ Gone(v) /\ Rest(v)
  BY <1>0 DEF NamedInv
<1>c. \A v \in Writers : cur[v] = NoRun \/ cur[v] \in 1 .. Len(runs)
  BY <1>0 DEF CurInv, TypeOK, NoRun
<1>5. ASSUME NEW v \in Writers, v # w PROVE (Mem(v) /\ Todo(v) /\ Gone(v) /\ Rest(v))'
  <2>1. Same(v) /\ Mem(v) /\ Todo(v) /\ Gone(v) /\ Rest(v)
    BY <1>0, <1>4, <1>5, FrameStep
  <2>2. Mem(v)' /\ Gone(v)' /\ Rest(v)'
    BY <1>1, <2>1 DEF Same
  <2>3. Todo(v)'
    <3>1. CASE Ids(todo[v]) = {}
      BY <2>1, <3>1 DEF Same
    <3>2. CASE Ids(todo[v]) # {}
      <4>1. pc[v] = "evict"
        BY <2>1, <3>2 DEF Ids
      <4>2. Started(cur[v])
        BY <1>0, <4>1, CurStarted DEF Busy
      <4>3. QED BY <1>1, <2>1, <4>2 DEF Same
    <3>3. QED BY <3>1, <3>2
  <2>4. QED BY <2>2, <2>3
<1>6. /\ by_model'[w] = by_model[w] => Mem(w)'
      /\ Ids(todo'[w]) \subseteq Ids(todo[w]) /\ cur'[w] = cur[w] /\ pc[w] = "evict" => Todo(w)'
      /\ Ids(gone'[w]) \subseteq Ids(gone[w]) => Gone(w)'
      /\ todo'[w] = <<>> /\ gone'[w] = <<>> => Todo(w)' /\ Gone(w)' /\ Rest(w)'
  <2>1. by_model'[w] = by_model[w] => Mem(w)'
    BY <1>1, <1>4
  <2>2. ASSUME Ids(todo'[w]) \subseteq Ids(todo[w]), cur'[w] = cur[w], pc[w] = "evict" PROVE Todo(w)'
    BY <1>1, <1>2, <1>4, <2>2 DEF Busy
  <2>3. Ids(gone'[w]) \subseteq Ids(gone[w]) => Gone(w)'
    BY <1>1, <1>4
  <2>4. todo'[w] = <<>> /\ gone'[w] = <<>> => Todo(w)' /\ Gone(w)' /\ Rest(w)'
    BY DEF Ids
  <2>5. QED BY <2>1, <2>2, <2>3, <2>4
<1>e. pc[w] # "evict" => todo[w] = <<>> /\ gone[w] = <<>>
  BY <1>4
<1>s. todo[w] \in Seq(Nat) /\ gone[w] \in Seq(Nat) /\ by_model[w] \in [Models -> Seq(Nat)]
  BY <1>0 DEF TypeOK
<1>7. Mem(w)' /\ Todo(w)' /\ Gone(w)' /\ Rest(w)'
  <2>1. CASE by_model'[w] = by_model[w] /\ todo'[w] = todo[w] /\ gone'[w] = gone[w] /\ pc[w] # "evict"
    BY <1>6, <1>e, <2>1
  <2>2. CASE Open(w)
    <3>1. todo'[w] = todo[w] /\ gone'[w] = gone[w] /\ by_model'[w] = [m \in Models |-> LoadedModel(m)]
          /\ pc[w] # "evict"
      BY <1>0, <2>2 DEF Open, TypeOK
    <3>2. ASSUME NEW m \in Models, NEW r \in Ids(LoadedModel(m)) PROVE Started(r) /\ runs[r].model = m
      <4>1. PICK x \in Lines : Indexed(x) /\ runs[x.id].model = m /\ r = x.id
        BY <1>0, LoadedProperties DEF StoreInv, OnceInv
      <4>2. x \in Held /\ x.kind # "junk"
        BY <4>1 DEF Held, Indexed
      <4>3. QED BY <1>0, <4>1, <4>2 DEF NamedInv
    <3>3. Mem(w)'
      <4> SUFFICES ASSUME NEW m \in Models, NEW r \in Ids(by_model'[w][m])
                   PROVE  Started(r)' /\ runs'[r].model = m
        OBVIOUS
      <4>1. r \in Ids(LoadedModel(m))
        BY <3>1
      <4>2. QED BY <1>1, <3>2, <4>1
    <3>4. QED BY <1>6, <1>e, <3>1, <3>3
  <2>3. CASE AppendIndex(w)
    <3> DEFINE m0 == runs[cur[w]].model
    <3>1. pc[w] = "index" /\ todo'[w] = todo[w] /\ gone'[w] = gone[w]
      BY <1>0, <2>3 DEF AppendIndex, TypeOK
    <3>2. Started(cur[w]) /\ cur[w] \in 1 .. Len(runs)
      BY <1>0, <3>1, CurStarted DEF Busy
    <3>3. m0 \in Models /\ cur[w] \in Nat
      BY <1>0, <3>2, RunTypes DEF TypeOK
    <3> HIDE DEF m0
    <3>4. \A m \in Models : by_model'[w][m] = IF m = m0 THEN Append(by_model[w][m], cur[w])
                                                      ELSE by_model[w][m]
      BY <1>0, <2>3, <3>3 DEF AppendIndex, Remember, TypeOK, m0
    <3>5. Mem(w)'
      <4> SUFFICES ASSUME NEW m \in Models, NEW r \in Ids(by_model'[w][m])
                   PROVE  Started(r)' /\ runs'[r].model = m
        OBVIOUS
      <4>1. by_model[w][m] \in Seq(Nat)
        BY <1>s
      <4>2. r \in Ids(by_model[w][m]) \/ (m = m0 /\ r = cur[w])
        BY <3>3, <3>4, <4>1, IdsProperties
      <4>3. QED BY <1>1, <1>4, <3>2, <4>2 DEF m0
    <3>6. QED BY <1>6, <1>e, <3>1, <3>5
  <2>4. CASE SelectVictims(w)
    <3>1. /\ pc[w] = "prune" /\ todo'[w] = Candidates(w) /\ gone'[w] = gone[w] /\ cur'[w] = cur[w]
          /\ pc'[w] = "evict" /\ by_model'[w] = by_model[w]
      BY <1>0, <2>4 DEF SelectVictims, TypeOK
    <3>2. Started(cur[w]) /\ cur[w] \in 1 .. Len(runs)
      BY <1>0, <3>1, CurStarted DEF Busy
    <3>3. runs[cur[w]].model \in Models
      BY <1>0, <3>2, RunTypes
    <3>4. Ids(Candidates(w)) \subseteq Ids(by_model[w][runs[cur[w]].model])
      BY <3>1, CandidatesProperties DEF Own
    <3>5. Todo(w)'
      BY <1>1, <1>4, <3>1, <3>2, <3>3, <3>4
    <3>6. Gone(w)' /\ Mem(w)' /\ Rest(w)'
      BY <1>6, <3>1
    <3>7. QED BY <3>5, <3>6
  <2>5. CASE EvictOne(w)
    <3> DEFINE m0 == runs[cur[w]].model
               h  == Head(todo[w])
               s  == by_model[w][m0]
               P  == {i \in 1 .. Len(s) : s[i] # h}
    <3>1. /\ pc[w] = "evict" /\ pc'[w] = pc[w] /\ cur'[w] = cur[w] /\ todo[w] # <<>>
          /\ todo'[w] = Tail(todo[w]) /\ gone'[w] = Append(gone[w], h)
      BY <1>0, <2>5 DEF EvictOne, TypeOK
    <3>2. Started(cur[w]) /\ cur[w] \in 1 .. Len(runs)
      BY <1>0, <3>1, CurStarted DEF Busy
    <3>3. m0 \in Models
      BY <1>0, <3>2, RunTypes
    <3>4. s \in Seq(Nat)
      BY <1>s, <3>3
    <3>5. by_model' = [by_model EXCEPT ![w][m0] = Kept(s, P)]
      BY <1>0, <2>5, <3>3 DEF EvictOne, RemoveFromIndex, TypeOK
    <3>6. Ids(Kept(s, P)) \subseteq Ids(s)
      <4>1. {s[i] : i \in P} \subseteq Ids(s)
        BY DEF Ids
      <4>2. P \in SUBSET (1 .. Len(s))
        OBVIOUS
      <4> HIDE DEF P, s
      <4>3. Ids(Kept(s, P)) = {s[i] : i \in P}
        <5>1. Filtered(Kept(s, P), s, P)
          BY <3>4, <4>2, KeptProperties, Zenon
        <5>2. QED BY <5>1, Zenon DEF Filtered
      <4>4. QED BY <4>1, <4>3
    <3>7. h \in Ids(todo[w]) /\ Ids(Tail(todo[w])) \subseteq Ids(todo[w]) /\ h \in Nat
      BY <1>s, <3>1, IdsProperties
    <3>8. Ids(Append(gone[w], h)) = Ids(gone[w]) \cup {h}
      BY <1>s, <3>7, IdsProperties
    <3> HIDE DEF m0, h, s, P
    <3>9. \A m \in Models : by_model'[w][m] = IF m = m0 THEN Kept(s, P) ELSE by_model[w][m]
      BY <1>0, <3>3, <3>5 DEF TypeOK
    <3>10. Mem(w)'
      <4> SUFFICES ASSUME NEW m \in Models, NEW r \in Ids(by_model'[w][m])
                   PROVE  Started(r)' /\ runs'[r].model = m
        OBVIOUS
      <4>1. r \in Ids(by_model[w][m])
        BY <3>6, <3>9 DEF s
      <4>2. QED BY <1>1, <1>4, <4>1
    <3>11. Todo(w)'
      BY <1>6, <3>1, <3>7
    <3>12. Gone(w)'
      BY <1>1, <1>4, <3>1, <3>7, <3>8
    <3>13. QED BY <3>1, <3>10, <3>11, <3>12
  <2>6. CASE EvictFails(w)
    <3>1. /\ pc[w] = "evict" /\ pc'[w] = pc[w] /\ cur'[w] = cur[w] /\ todo[w] # <<>>
          /\ todo'[w] = Tail(todo[w]) /\ gone'[w] = gone[w] /\ by_model'[w] = by_model[w]
      BY <1>0, <2>6 DEF EvictFails, TypeOK
    <3>2. Ids(Tail(todo[w])) \subseteq Ids(todo[w])
      BY <1>s, <3>1, IdsProperties
    <3>3. QED BY <1>6, <3>1, <3>2
  <2>7. CASE EndPrune(w)
    <3>1. todo'[w] = <<>> /\ gone'[w] = <<>> /\ by_model'[w] = by_model[w]
      BY <1>0, <2>7 DEF EndPrune, TypeOK
    <3>2. QED BY <1>6, <3>1
  <2>8. CASE Forget(w)
    <3>1. todo'[w] = <<>> /\ gone'[w] = <<>> /\ by_model'[w] = [m \in Models |-> <<>>]
      BY <1>0, <2>8 DEF Forget, TypeOK
    <3>2. \A m \in Models : Ids(by_model'[w][m]) = {}
      BY <3>1 DEF Ids
    <3>3. QED BY <1>6, <3>1, <3>2
  <2>9. CASE Close(w) \/ Crash(w)
    BY <2>8, <2>9 DEF Close, Crash
  <2>10. QED
    BY <2>1, <2>2, <2>3, <2>4, <2>5, <2>6, <2>7, <2>9
    DEF Step, Begin, WriteRecord, WriteRecordFails, AppendIndexFails, Compare
<1>8. QED
  <2>1. \A v \in Writers : Mem(v)' /\ Todo(v)' /\ Gone(v)' /\ Rest(v)'
    BY <1>5, <1>7
  <2>2. QED BY <1>3, <2>1 DEF NamedInv

\* Lines that process w may hold: each entry once, and none that is anywhere else.
Fits(w, lines) == /\ lines \in Seq(LineSet) /\ EntriesOnce(lines)
                  /\ NoCommonEntry(Ids(index), Ids(lines))
                  /\ \A v \in Writers : v # w => NoCommonEntry(Ids(buf[v]), Ids(lines))

\* A step changes what its process holds to lines that fit, or flushes them.
LEMMA FitStep ==
  ASSUME StoreInv, NEW w \in Writers, Step(w)
  PROVE  \/ index' = index /\ Fits(w, buf'[w])
         \/ \E lines : Fits(w, lines) /\ Written(lines) /\ buf'[w] = <<>>
<1>0. TypeOK /\ CurInv /\ OnceInv
  BY DEF StoreInv
<1>1. buf[w] \in Seq(LineSet) /\ gone[w] \in Seq(Nat) /\ cur[w] \in Nat
  BY <1>0 DEF TypeOK
<1>2. Entry(cur[w]) \in LineSet /\ Tombs(gone[w]) \in Seq(LineSet)
  BY <1>1, LineTypes, TombsProperties
<1>3. Fits(w, <<>>)
  BY DEF Fits, EntriesOnce, NoCommonEntry, Ids
<1>4. Fits(w, buf[w])
  BY <1>0, <1>1 DEF Fits, OnceInv
<1>5. ASSUME pc[w] = "index" PROVE Fits(w, Append(buf[w], Entry(cur[w])))
  <2> DEFINE a == Append(buf[w], Entry(cur[w]))
  <2>1. Entry(cur[w]) \notin Held
    BY <1>0, <1>5 DEF OnceInv
  <2>2. /\ Entry(cur[w]) \notin Ids(index)
        /\ \A v \in Writers : Entry(cur[w]) \notin Ids(buf[v])
    BY <2>1 DEF Held, Lines, Ids
  <2>3. a \in Seq(LineSet) /\ Ids(a) = Ids(buf[w]) \cup {Entry(cur[w])}
    BY <1>1, <1>2, IdsProperties
  <2>4. EntriesOnce(a)
    BY <1>1, <1>2, <1>4, <2>2, OnceAppend DEF Fits
  <2> HIDE DEF a
  <2>5. ASSUME NEW S, NoCommonEntry(S, Ids(buf[w])), Entry(cur[w]) \notin S
        PROVE  NoCommonEntry(S, Ids(a))
    BY <2>3, <2>5 DEF NoCommonEntry
  <2>6. QED BY <1>4, <2>2, <2>3, <2>4, <2>5 DEF Fits, a
<1>6. Fits(w, buf[w] \o Tombs(gone[w]))
  <2> DEFINE c == buf[w] \o Tombs(gone[w])
  <2>1. c \in Seq(LineSet) /\ Ids(c) = Ids(buf[w]) \cup Ids(Tombs(gone[w]))
    BY <1>1, <1>2, IdsProperties
  <2>2. /\ EntriesOnce(Tombs(gone[w]))
        /\ \A S : NoCommonEntry(S, Ids(Tombs(gone[w])))
    BY <1>1, OnceTombs
  <2>3. EntriesOnce(c)
    BY <1>1, <1>2, <1>4, <2>2, OnceConcat DEF Fits
  <2> HIDE DEF c
  <2>4. ASSUME NEW S, NoCommonEntry(S, Ids(buf[w])) PROVE NoCommonEntry(S, Ids(c))
    BY <2>1, <2>2, <2>4 DEF NoCommonEntry
  <2>5. QED BY <1>4, <2>1, <2>3, <2>4 DEF Fits, c
<1>7. CASE index' = index /\ buf'[w] = buf[w]
  BY <1>4, <1>7
<1>8. CASE AppendIndex(w)
  <2>1. pc[w] = "index" /\ buf'[w] = <<>> /\ Written(Append(buf[w], Entry(cur[w])))
    BY <1>0, <1>8 DEF AppendIndex, TypeOK
  <2>2. QED BY <1>5, <2>1
<1>9. CASE AppendIndexFails(w)
  <2>1. pc[w] = "index" /\ buf'[w] = Append(buf[w], Entry(cur[w])) /\ index' = index
    BY <1>0, <1>9 DEF AppendIndexFails, diskVars, TypeOK
  <2>2. QED BY <1>5, <2>1
<1>10. CASE EndPrune(w)
  <2>1. \/ Written(buf[w] \o Tombs(gone[w])) /\ buf'[w] = <<>>
        \/ index' = index /\ buf'[w] = buf[w] \o Tombs(gone[w])
    BY <1>0, <1>10 DEF EndPrune, TypeOK
  <2>2. QED BY <1>6, <2>1
<1>11. CASE Close(w)
  <2>1. Written(buf[w]) /\ buf'[w] = <<>>
    BY <1>0, <1>11 DEF Close, Forget, TypeOK
  <2>2. QED BY <1>4, <2>1
<1>12. CASE Crash(w)
  <2>1. index' = index /\ buf'[w] = <<>>
    BY <1>0, <1>12 DEF Crash, Forget, TypeOK
  <2>2. QED BY <1>3, <2>1
<1>13. QED
  BY <1>7, <1>8, <1>9, <1>10, <1>11, <1>12
  DEF Step, Open, Begin, WriteRecord, WriteRecordFails, SelectVictims, EvictOne, EvictFails,
      Compare, diskVars

LEMMA OnceStep ==
  ASSUME StoreInv, NEW w \in Writers, Step(w)
  PROVE  OnceInv'
<1>0. TypeOK /\ CurInv /\ NamedInv /\ OnceInv
  BY DEF StoreInv
<1>1. \A v \in Writers : v # w => buf'[v] = buf[v] /\ pc'[v] = pc[v] /\ cur'[v] = cur[v]
  BY <1>0, FrameStep DEF Same
<1>2. \A v \in Writers : v # w =>
        /\ EntriesOnce(buf[v]) /\ NoCommonEntry(Ids(index), Ids(buf[v]))
        /\ \A u \in Writers : u # v => NoCommonEntry(Ids(buf[u]), Ids(buf[v]))
  BY <1>0 DEF OnceInv
<1>s. \A S, T : NoCommonEntry(S, T) => NoCommonEntry(T, S)
  BY DEF NoCommonEntry
<1> DEFINE Apart(v) == /\ EntriesOnce(buf[v]) /\ NoCommonEntry(Ids(index), Ids(buf[v]))
                       /\ \A u \in Writers : u # v => NoCommonEntry(Ids(buf[u]), Ids(buf[v]))
<1>3. EntriesOnce(index') /\ \A v \in Writers : Apart(v)'
  <2>1. CASE index' = index /\ Fits(w, buf'[w])
    <3>1. EntriesOnce(index)
      BY <1>0 DEF OnceInv
    <3>2. Apart(w)'
      BY <1>1, <2>1 DEF Fits
    <3>3. ASSUME NEW v \in Writers, v # w PROVE Apart(v)'
      <4>1. NoCommonEntry(Ids(buf'[w]), Ids(buf[v]))
        BY <2>1, <3>3, <1>s DEF Fits
      <4>2. QED BY <1>1, <1>2, <2>1, <3>3, <4>1
    <3>4. QED BY <2>1, <3>1, <3>2, <3>3
  <2>2. ASSUME NEW lines, Fits(w, lines), Written(lines), buf'[w] = <<>>
        PROVE  EntriesOnce(index') /\ \A v \in Writers : Apart(v)'
    <3>1. /\ Lines' \subseteq Lines \cup Ids(lines) \cup {Junk}
          /\ EntriesOnce(index')
      <4>1. lines \in Seq(LineSet) /\ EntriesOnce(lines) /\ EntriesOnce(index)
            /\ NoCommonEntry(Ids(index), Ids(lines))
        BY <1>0, <2>2 DEF Fits, OnceInv
      <4>2. QED BY <1>0, <2>2, <4>1, WrittenProperties
    <3>2. Ids(index') \subseteq Ids(index) \cup Ids(lines) \cup {Junk}
      BY <3>1 DEF Lines, Ids
    <3>3. Ids(buf'[w]) = {} /\ EntriesOnce(buf'[w])
      BY <2>2 DEF Ids, EntriesOnce
    <3>4. Apart(w)'
      BY <3>3 DEF NoCommonEntry
    <3>5. ASSUME NEW v \in Writers, v # w PROVE Apart(v)'
      <4>1. NoCommonEntry(Ids(buf'[w]), Ids(buf[v]))
        BY <3>3 DEF NoCommonEntry
      <4>2. NoCommonEntry(Ids(index'), Ids(buf[v]))
        <5>1. NoCommonEntry(Ids(index), Ids(buf[v])) /\ NoCommonEntry(Ids(buf[v]), Ids(lines))
          BY <1>2, <2>2, <3>5 DEF Fits
        <5>2. Junk.kind # "entry"
          BY LineTypes
        <5>3. QED BY <3>2, <5>1, <5>2 DEF NoCommonEntry
      <4>3. QED BY <1>1, <1>2, <3>5, <4>1, <4>2
    <3>6. QED BY <3>1, <3>4, <3>5
  <2>3. QED BY <2>1, <2>2, FitStep
<1>4. ASSUME NEW v \in Writers, pc'[v] \in {"file", "index"}, Entry(cur'[v]) \in Held'
      PROVE  FALSE
  <2>0. \A r, q : /\ Entry(r) = Entry(q) => r = q
                  /\ Entry(r) # Tomb(q) /\ Entry(r) # Junk
                  /\ Entry(r).id = r /\ Entry(r).kind # "junk"
    BY DEF Entry, Tomb, Junk
  <2>1. Entry(cur'[v]) \in Held \/ New(w, Entry(cur'[v]))
    BY <1>0, <1>4, HeldStep
  <2>2. Entry(cur'[v]) \in Held \/ (pc[w] = "index" /\ cur'[v] = cur[w])
    BY <2>0, <2>1 DEF New
  <2>3. CASE v # w
    <3>1. pc[v] \in {"file", "index"} /\ cur'[v] = cur[v]
      BY <1>1, <1>4, <2>3
    <3>2. Entry(cur[v]) \notin Held
      BY <1>0, <3>1 DEF OnceInv
    <3>3. cur[v] # cur[w]
      BY <1>0, <2>3, <3>1 DEF CurInv, Busy
    <3>4. QED BY <2>2, <3>1, <3>2, <3>3
  <2>4. CASE v = w /\ pc'[w] = "file"
    <3>1. PICK m \in Models, t \in Times : Begin(w, m, t)
      BY <1>0, <2>4, PcStep
    <3>2. pc[w] = "idle" /\ cur'[w] = Len(runs) + 1
      BY <1>0, <3>1 DEF Begin, TypeOK
    <3>3. Entry(Len(runs) + 1) \in Held
      BY <2>2, <2>4, <3>2
    <3>4. Len(runs) + 1 \in 1 .. Len(runs)
      BY <1>0, <2>0, <3>3 DEF NamedInv, Started
    <3>5. QED BY <1>0, <3>4, RunsStep
  <2>5. CASE v = w /\ pc'[w] = "index"
    <3>1. WriteRecord(w)
      BY <1>0, <2>5, PcStep
    <3>2. pc[w] = "file" /\ cur'[w] = cur[w]
      BY <3>1 DEF WriteRecord
    <3>3. QED BY <1>0, <2>2, <2>5, <3>2 DEF OnceInv
  <2>6. QED BY <1>4, <2>3, <2>4, <2>5
<1>5. QED BY <1>3, <1>4 DEF OnceInv

LEMMA MemStep ==
  ASSUME StoreInv, NEW w \in Writers, Step(w)
  PROVE  MemInv'
<1>0. TypeOK /\ CurInv /\ NamedInv /\ MemInv
  BY DEF StoreInv
<1>1. \A v \in Writers : v # w => Same(v)
  BY <1>0, FrameStep
<1> DEFINE Agree(v) == /\ by_id[v] = UNION {Ids(by_model[v][m]) : m \in Models}
                       /\ \A m \in Models : NoDup(by_model[v][m])
<1>2. \A v \in Writers : /\ Agree(v)
                         /\ pc[v] \in {"file", "index"} => cur[v] \notin by_id[v]
  BY <1>0 DEF MemInv
<1>3. \A v \in Writers : v # w => /\ Agree(v)'
                                  /\ pc'[v] \in {"file", "index"} => cur'[v] \notin by_id'[v]
  BY <1>1, <1>2 DEF Same
<1>4. ASSUME pc'[w] \in {"file", "index"} PROVE cur'[w] \notin by_id'[w]
  <2>1. CASE pc'[w] = "file"
    <3>1. PICK m \in Models, t \in Times : Begin(w, m, t)
      BY <1>0, <2>1, PcStep
    <3>2. by_id'[w] = by_id[w] /\ cur'[w] = Len(runs) + 1
      BY <1>0, <3>1 DEF Begin, TypeOK
    <3>3. \A r \in by_id[w] : r \in 1 .. Len(runs)
      BY <1>0, <1>2 DEF NamedInv, Started
    <3>4. Len(runs) \in Nat
      BY <1>0, RunsStep
    <3>5. QED BY <3>2, <3>3, <3>4
  <2>2. CASE pc'[w] = "index"
    <3>1. WriteRecord(w)
      BY <1>0, <2>2, PcStep
    <3>2. pc[w] = "file" /\ cur'[w] = cur[w] /\ by_id'[w] = by_id[w]
      BY <3>1 DEF WriteRecord
    <3>3. QED BY <1>2, <3>2
  <2>3. QED BY <1>4, <2>1, <2>2
<1>s. by_model[w] \in [Models -> Seq(Nat)] /\ by_id[w] \in SUBSET Nat
  BY <1>0 DEF TypeOK
<1>5. Agree(w)'
  <2>1. CASE by_model'[w] = by_model[w] /\ by_id'[w] = by_id[w]
    BY <1>2, <2>1
  <2>2. CASE Open(w)
    <3>1. by_model'[w] = [m \in Models |-> LoadedModel(m)] /\ by_id'[w] = LoadedIds
      BY <1>0, <2>2 DEF Open, TypeOK
    <3>2. \A m \in Models : /\ NoDup(LoadedModel(m))
                            /\ Ids(LoadedModel(m)) =
                                 {l.id : l \in {x \in Lines : Indexed(x) /\ runs[x.id].model = m}}
      BY <1>0, LoadedProperties DEF StoreInv, OnceInv
    <3>3. \A x \in Lines : Indexed(x) => runs[x.id].model \in Models
      <4> SUFFICES ASSUME NEW x \in Lines, Indexed(x) PROVE runs[x.id].model \in Models
        OBVIOUS
      <4>1. x \in Held /\ x.kind # "junk"
        BY DEF Held, Indexed
      <4>2. x.id \in 1 .. Len(runs)
        BY <1>0, <4>1 DEF NamedInv, Started
      <4>3. QED BY <1>0, <4>2, RunTypes
    <3>4. LoadedIds = UNION {Ids(LoadedModel(m)) : m \in Models}
      <4>1. ASSUME NEW r \in LoadedIds PROVE \E m \in Models : r \in Ids(LoadedModel(m))
        BY <3>2, <3>3 DEF LoadedIds
      <4>2. ASSUME NEW m \in Models, NEW r \in Ids(LoadedModel(m)) PROVE r \in LoadedIds
        BY <3>2 DEF LoadedIds
      <4>3. QED BY <4>1, <4>2
    <3>5. \A m \in Models : by_model'[w][m] = LoadedModel(m)
      BY <3>1
    <3>6. QED BY <3>1, <3>2, <3>4, <3>5
  <2>3. CASE AppendIndex(w)
    <3> DEFINE m0 == runs[cur[w]].model
               s  == by_model[w][m0]
               a  == Append(s, cur[w])
    <3>1. pc[w] = "index" /\ cur[w] \in Nat
      BY <1>0, <2>3 DEF AppendIndex, TypeOK
    <3>2. cur[w] \in 1 .. Len(runs)
      BY <1>0, <3>1, CurStarted DEF Busy
    <3>3. m0 \in Models
      BY <1>0, <3>2, RunTypes
    <3> HIDE DEF m0
    <3>4. s \in Seq(Nat)
      BY <1>s, <3>3
    <3>5. /\ \A m \in Models : by_model'[w][m] = IF m = m0 THEN a ELSE by_model[w][m]
          /\ by_id'[w] = by_id[w] \cup {cur[w]}
      BY <1>0, <2>3, <3>3 DEF AppendIndex, Remember, TypeOK, m0
    <3>6. cur[w] \notin Ids(s) /\ NoDup(s)
      BY <1>2, <3>1, <3>3
    <3>7. Ids(a) = Ids(s) \cup {cur[w]}
      BY <3>1, <3>4, IdsProperties
    <3>8. NoDup(a)
      <4>1. /\ Len(a) = Len(s) + 1 /\ Len(s) \in Nat
            /\ \A i \in 1 .. Len(s) : a[i] = s[i]
            /\ a[Len(s) + 1] = cur[w]
        <5> HIDE DEF s
        <5>1. QED BY <3>1, <3>4, AppendProperties, SMT
      <4> HIDE DEF a, s
      <4>2. \A k \in 1 .. Len(a) :
              \/ k \in 1 .. Len(s) /\ a[k] = s[k] /\ s[k] # cur[w]
              \/ k = Len(s) + 1 /\ a[k] = cur[w]
        BY <3>6, <4>1 DEF Ids
      <4>3. QED BY <3>6, <4>2 DEF NoDup
    <3> HIDE DEF a
    <3>9. by_id'[w] = UNION {Ids(by_model'[w][m]) : m \in Models}
      BY <1>2, <3>3, <3>5, <3>7
    <3>10. \A m \in Models : NoDup(by_model'[w][m])
      BY <1>2, <3>5, <3>8
    <3>11. QED BY <3>9, <3>10
  <2>4. CASE EvictOne(w)
    <3> DEFINE m0 == runs[cur[w]].model
               h  == Head(todo[w])
               s  == by_model[w][m0]
               P  == {i \in 1 .. Len(s) : s[i] # h}
    <3>1. pc[w] = "evict" /\ todo[w] # <<>> /\ todo[w] \in Seq(Nat)
      BY <1>0, <2>4 DEF EvictOne, TypeOK
    <3>2. cur[w] \in 1 .. Len(runs)
      BY <1>0, <3>1, CurStarted DEF Busy
    <3>3. m0 \in Models
      BY <1>0, <3>2, RunTypes
    <3>4. s \in Seq(Nat)
      BY <1>s, <3>3
    <3>5. by_model' = [by_model EXCEPT ![w][m0] = Kept(s, P)] /\ by_id'[w] = by_id[w] \ {h}
      BY <1>0, <2>4, <3>3 DEF EvictOne, RemoveFromIndex, TypeOK
    <3>6. h \in Ids(todo[w])
      BY <3>1, IdsProperties
    <3>7. runs[h].model = m0
      BY <1>0, <3>6 DEF NamedInv
    <3>8. {s[i] : i \in P} = Ids(s) \ {h}
      BY DEF Ids
    <3>9. P \in SUBSET (1 .. Len(s)) /\ \A i, j \in P : s[i] = s[j] => i = j
      BY <1>2, <3>3 DEF NoDup
    <3> HIDE DEF m0, h, s, P
    <3>10. Ids(Kept(s, P)) = Ids(s) \ {h} /\ NoDup(Kept(s, P))
      <4>1. Filtered(Kept(s, P), s, P)
        BY <3>4, <3>9, KeptProperties, Zenon
      <4>2. QED BY <3>8, <3>9, <4>1, Zenon DEF Filtered, NoDup
    <3>11. \A m \in Models : by_model'[w][m] = IF m = m0 THEN Kept(s, P) ELSE by_model[w][m]
      BY <1>0, <3>3, <3>5 DEF TypeOK
    <3>12. \A m \in Models : m # m0 => h \notin Ids(by_model[w][m])
      BY <1>0, <3>7 DEF NamedInv
    <3>13. \A m \in Models : Ids(by_model'[w][m]) = Ids(by_model[w][m]) \ {h}
      BY <3>10, <3>11, <3>12 DEF s
    <3>14. by_id'[w] = UNION {Ids(by_model'[w][m]) : m \in Models}
      BY <1>2, <3>5, <3>13
    <3>15. QED BY <1>2, <3>10, <3>11, <3>14
  <2>5. CASE Forget(w)
    <3>1. by_model'[w] = [m \in Models |-> <<>>] /\ by_id'[w] = {}
      BY <1>0, <2>5 DEF Forget, TypeOK
    <3>2. \A m \in Models : Ids(by_model'[w][m]) = {} /\ NoDup(by_model'[w][m])
      BY <3>1 DEF Ids, NoDup
    <3>3. QED BY <3>1, <3>2
  <2>6. CASE Close(w) \/ Crash(w)
    BY <2>5, <2>6 DEF Close, Crash
  <2>7. CASE EndPrune(w)
    BY <2>1, <2>7 DEF EndPrune
  <2>8. QED
    BY <2>1, <2>2, <2>3, <2>4, <2>6, <2>7
    DEF Step, Begin, WriteRecord, WriteRecordFails, AppendIndexFails, SelectVictims, EvictFails,
        Compare
<1>6. QED BY <1>3, <1>4, <1>5 DEF MemInv

LEMMA DiskStep ==
  ASSUME StoreInv, NEW w \in Writers, Step(w)
  PROVE  DiskInv'
<1>0. TypeOK /\ CurInv /\ NamedInv /\ DiskInv
  BY DEF StoreInv
<1>1. \A r : Started(r) => /\ Recorded(r) => Recorded(r)'
                           /\ r \notin DOMAIN files => r \notin DOMAIN files'
  BY <1>0, FilesStep
<1>2. \A r, q : /\ Entry(r).id = r /\ Entry(r).kind # "junk" /\ Tomb(r).id = r /\ Tomb(r).kind # "junk"
                /\ Entry(r) = Entry(q) => r = q
                /\ Tomb(r) = Tomb(q) => r = q
                /\ Entry(r) # Tomb(q) /\ Entry(r) # Junk /\ Tomb(r) # Junk
  BY DEF Entry, Tomb, Junk
<1>3. ASSUME NEW r \in Nat, Entry(r) \in Held' PROVE Recorded(r)'
  <2>1. Entry(r) \in Held \/ (pc[w] = "index" /\ r = cur[w])
    BY <1>0, <1>2, <1>3, HeldStep DEF New
  <2>2. CASE Entry(r) \in Held
    <3>1. Started(r) /\ Recorded(r)
      BY <1>0, <1>2, <2>2 DEF NamedInv, DiskInv
    <3>2. QED BY <1>1, <3>1
  <2>3. CASE pc[w] = "index" /\ r = cur[w]
    <3>1. Started(r) /\ Recorded(r)
      BY <1>0, <2>3, CurStarted DEF DiskInv, Busy
    <3>2. QED BY <1>1, <3>1
  <2>4. QED BY <2>1, <2>2, <2>3
<1>4. ASSUME NEW r \in Nat, Tomb(r) \in Held' PROVE r \notin DOMAIN files'
  <2>1. Tomb(r) \in Held \/ (pc[w] = "evict" /\ r \in Ids(gone[w]))
    BY <1>0, <1>2, <1>4, HeldStep DEF New
  <2>2. CASE Tomb(r) \in Held
    <3>1. Started(r) /\ r \notin DOMAIN files
      BY <1>0, <1>2, <2>2 DEF NamedInv, DiskInv
    <3>2. QED BY <1>1, <3>1
  <2>3. CASE r \in Ids(gone[w])
    <3>1. Started(r) /\ r \notin DOMAIN files
      BY <1>0, <2>3 DEF NamedInv, DiskInv
    <3>2. QED BY <1>1, <3>1
  <2>4. QED BY <2>1, <2>2, <2>3
<1>5. ASSUME NEW v \in Writers, pc'[v] = "index" PROVE Recorded(cur[v])'
  <2>1. CASE v # w
    <3>1. pc[v] = "index" /\ cur'[v] = cur[v]
      BY <1>0, <1>5, <2>1, FrameStep DEF Same
    <3>2. Started(cur[v]) /\ Recorded(cur[v])
      BY <1>0, <3>1, CurStarted DEF DiskInv, Busy
    <3>3. QED BY <1>1, <3>1, <3>2
  <2>2. CASE v = w
    <3>1. WriteRecord(w)
      BY <1>0, <1>5, <2>2, PcStep
    <3>2. files' = FileWith(cur[w], "whole") /\ cur'[w] = cur[w]
      BY <3>1 DEF WriteRecord
    <3>3. QED BY <2>2, <3>2 DEF Recorded, Readable, FileWith
  <2>3. QED BY <2>1, <2>2
<1>6. ASSUME NEW v \in Writers, NEW r \in Ids(gone'[v]) PROVE r \notin DOMAIN files'
  <2>1. ASSUME r \in Ids(gone[v]) PROVE r \notin DOMAIN files'
    <3>1. Started(r) /\ r \notin DOMAIN files
      BY <1>0, <2>1 DEF NamedInv, DiskInv
    <3>2. QED BY <1>1, <3>1
  <2>2. CASE gone'[v] = gone[v]
    BY <1>6, <2>1, <2>2
  <2>3. CASE v # w
    BY <1>0, <2>2, <2>3, FrameStep DEF Same
  <2>4. CASE v = w /\ EvictOne(w)
    <3> DEFINE h == Head(todo[w])
    <3>1. /\ files' = [x \in DOMAIN files \ {h} |-> files[x]] /\ todo[w] # <<>>
          /\ gone'[w] = Append(gone[w], h)
      BY <1>0, <2>4 DEF EvictOne, TypeOK
    <3>2. todo[w] \in Seq(Nat) /\ gone[w] \in Seq(Nat)
      BY <1>0 DEF TypeOK
    <3>3. h \in Nat
      BY <3>1, <3>2
    <3> HIDE DEF h
    <3>4. Ids(gone'[w]) = Ids(gone[w]) \cup {h}
      BY <3>1, <3>2, <3>3, IdsProperties
    <3>5. h \notin DOMAIN files'
      BY <3>1
    <3>6. QED BY <1>6, <2>1, <2>4, <3>4, <3>5
  <2>5. CASE v = w /\ gone'[w] = <<>>
    BY <1>6, <2>5 DEF Ids
  <2>6. gone'[w] = gone[w] \/ gone'[w] = <<>> \/ EvictOne(w)
    BY <1>0 DEF Step, Open, Begin, WriteRecord, WriteRecordFails, AppendIndex, AppendIndexFails,
                SelectVictims, EvictFails, EndPrune, Compare, Close, Crash, Forget, TypeOK
  <2>7. QED BY <2>2, <2>3, <2>4, <2>5, <2>6
<1>7. QED BY <1>3, <1>4, <1>5, <1>6 DEF DiskInv

\* The invariant is kept by every step.
LEMMA InvStep == StoreInv /\ [Next]_vars => StoreInv'
<1>1. ASSUME StoreInv, NEW w \in Writers, Step(w) PROVE StoreInv'
  <2>1. TypeOK /\ CurInv
    BY <1>1 DEF StoreInv
  <2>2. QED
    BY <1>1, <2>1, TypeStep, CurStep, NamedStep, OnceStep, MemStep, DiskStep DEF StoreInv
<1>2. ASSUME StoreInv, UNCHANGED vars PROVE StoreInv'
  <2>1. /\ runs' = runs /\ files' = files /\ index' = index /\ frag' = frag /\ pc' = pc
        /\ cur' = cur /\ by_model' = by_model /\ by_id' = by_id /\ buf' = buf /\ todo' = todo
        /\ gone' = gone /\ pruned' = pruned
    BY <1>2 DEF vars, diskVars, procVars, ghosts
  <2>2. Held' = Held /\ \A r : Started(r)' = Started(r) /\ Recorded(r)' = Recorded(r)
    BY <2>1 DEF Held, Lines, Started, Recorded, Readable
  <2>3. TypeOK'
    BY <1>2, <2>1 DEF StoreInv, TypeOK
  <2>4. CurInv' /\ NamedInv'
    BY <1>2, <2>1, <2>2 DEF StoreInv, CurInv, NamedInv
  <2>5. OnceInv' /\ MemInv'
    BY <1>2, <2>1, <2>2 DEF StoreInv, OnceInv, MemInv
  <2>6. DiskInv'
    BY <1>2, <2>1, <2>2 DEF StoreInv, DiskInv
  <2>7. QED BY <2>3, <2>4, <2>5, <2>6 DEF StoreInv
<1>3. QED BY <1>1, <1>2 DEF Next

LEMMA InvHolds == Spec => []StoreInv
  BY InitInv, InvStep, PTL DEF Spec

----------------------------------------------------------------------------
(* The theorems                                                            *)

\* However the steps of the processes sharing the store interleave, whatever
\* fails and whoever dies, an entry that reached index.jsonl has a complete
\* record behind it until a prune removes that record.
THEOREM EntryHasFileHolds == Spec => []EntryHasFile
<1>1. StoreInv => EntryHasFile
  <2>1. \A r \in Runs : r \in Nat
    BY StoreAssumption DEF Runs
  <2>2. QED BY <2>1 DEF StoreInv, DiskInv, Held, Recorded, EntryHasFile
<1>2. QED BY <1>1, InvHolds, PTL

\* A tombstone on disk stands for a record that is not there, also when the
\* tombstone was flushed long after the delete or by a later append.
THEOREM TombstoneIsGoneHolds == Spec => []TombstoneIsGone
<1>1. StoreInv => TombstoneIsGone
  <2>1. \A r \in Runs : r \in Nat
    BY StoreAssumption DEF Runs
  <2>2. QED BY <2>1 DEF StoreInv, DiskInv, Held, TombstoneIsGone
<1>2. QED BY <1>1, InvHolds, PTL

\* by_id and by_model of every process name the same runs, each once, after
\* any sequence of loads, appends and prunes.
THEOREM IndexesAgreeHolds == Spec => []IndexesAgree
<1>1. ASSUME StoreInv PROVE IndexesAgree
  <2>1. ASSUME NEW w \in Writers, NEW m \in Models
        PROVE  Cardinality(Ids(by_model[w][m])) = Len(by_model[w][m])
    <3>1. by_model[w][m] \in Seq(Nat) /\ NoDup(by_model[w][m])
      BY <1>1 DEF StoreInv, TypeOK, MemInv
    <3>2. QED BY <3>1, NoDupCardinality
  <2>2. \A w \in Writers : by_id[w] = UNION {Ids(by_model[w][m]) : m \in Models}
    BY <1>1 DEF StoreInv, MemInv
  <2>3. QED BY <2>1, <2>2 DEF IndexesAgree
<1>2. QED BY <1>1, InvHolds, PTL

----------------------------------------------------------------------------
(* What half-written lines cost                                            *)

\* The runs whose append has got past the index, with or without its return.
Appended == acked \cup {cur[w] : w \in {v \in Writers : pc[v] \in {"prune", "evict"}}}

\* Those of them that have no entry.
Swallowed == {r \in Appended : Entry(r) \notin Lines}

JunkPlaces == {i \in 1 .. Len(index) : index[i] = Junk}

\* Each of them has a junk line of its own.
LossInv == /\ Appended \subseteq 1 .. Len(runs)
           /\ Cardinality(Swallowed) <= Cardinality(JunkPlaces)

\* The index only grows.
LEMMA IndexGrows ==
  ASSUME TypeOK, NEW w \in Writers, Step(w)
  PROVE  Lines \subseteq Lines' /\ JunkPlaces \subseteq JunkPlaces'
<1>1. CASE index' = index
  BY <1>1 DEF Lines, JunkPlaces
<1>2. ASSUME NEW lines \in Seq(LineSet), Written(lines)
      PROVE  Lines \subseteq Lines' /\ JunkPlaces \subseteq JunkPlaces'
  <2> DEFINE L == Landed(lines)
             c == index \o L
  <2>1. index' = c
    BY <1>2 DEF Written
  <2>2. L \in Seq(LineSet) /\ index \in Seq(LineSet)
    BY LandedProperties DEF TypeOK
  <2> HIDE DEF L
  <2>3. /\ Len(c) = Len(index) + Len(L) /\ Len(index) \in Nat /\ Len(L) \in Nat
        /\ \A i \in 1 .. Len(index) + Len(L) :
             c[i] = IF i <= Len(index) THEN index[i] ELSE L[i - Len(index)]
    BY <2>2, ConcatAt
  <2> HIDE DEF c
  <2>4. \A i \in 1 .. Len(index) : i \in 1 .. Len(index') /\ index'[i] = index[i]
    BY <2>1, <2>3
  <2>5. QED BY <2>4 DEF Lines, JunkPlaces
<1>3. buf[w] \in Seq(LineSet) /\ gone[w] \in Seq(Nat) /\ cur[w] \in Nat
  BY DEF TypeOK
<1>4. Entry(cur[w]) \in LineSet /\ Tombs(gone[w]) \in Seq(LineSet)
  BY <1>3, LineTypes, TombsProperties
<1>5. Append(buf[w], Entry(cur[w])) \in Seq(LineSet) /\ buf[w] \o Tombs(gone[w]) \in Seq(LineSet)
  BY <1>3, <1>4, IdsProperties
<1>6. CASE AppendIndex(w)
  BY <1>2, <1>5, <1>6 DEF AppendIndex
<1>7. CASE EndPrune(w)
  BY <1>1, <1>2, <1>5, <1>7 DEF EndPrune
<1>8. CASE Close(w)
  BY <1>2, <1>3, <1>8 DEF Close
<1>9. QED
  BY <1>1, <1>6, <1>7, <1>8
  DEF Step, Open, Begin, WriteRecord, WriteRecordFails, AppendIndexFails, SelectVictims, EvictOne,
      EvictFails, Compare, Crash, diskVars

\* An entry lands, unless it is glued to a fragment and lands as junk.
LEMMA EntryLands ==
  ASSUME TypeOK, NEW w \in Writers, AppendIndex(w)
  PROVE  \/ Entry(cur[w]) \in Lines'
         \/ Len(index) + 1 \in JunkPlaces' /\ Len(index) + 1 \notin JunkPlaces
<1> DEFINE e == Entry(cur[w])
           b == buf[w]
           a == Append(b, e)
           L == Landed(a)
           c == index \o L
<1>1. b \in Seq(LineSet) /\ e \in LineSet /\ index \in Seq(LineSet)
  BY LineTypes DEF TypeOK
<1>2. index' = c
  BY DEF AppendIndex, Written
<1> HIDE DEF b, e
<1>3. /\ a \in Seq(LineSet) /\ Len(a) = Len(b) + 1 /\ Len(b) \in Nat
      /\ \A i \in 1 .. Len(b) : a[i] = b[i]
      /\ a[Len(b) + 1] = e
  BY <1>1, AppendProperties, SMT
<1>4. L \in Seq(LineSet)
  BY <1>3, LandedProperties
<1>5. a # <<>>
  BY <1>3
<1>6. /\ ~frag => L = a
      /\ frag => L = <<Junk>> \o Tail(a)
  BY <1>5 DEF Landed
<1> HIDE DEF a, L
<1>7. /\ Len(c) = Len(index) + Len(L) /\ Len(index) \in Nat /\ Len(L) \in Nat
      /\ \A i \in 1 .. Len(index) + Len(L) :
           c[i] = IF i <= Len(index) THEN index[i] ELSE L[i - Len(index)]
  BY <1>1, <1>4, ConcatAt
<1> HIDE DEF c
<1>8. ASSUME NEW k \in 1 .. Len(L) PROVE Len(index) + k \in 1 .. Len(c) /\ c[Len(index) + k] = L[k]
  <2>1. Len(index) + k \in 1 .. Len(index) + Len(L) /\ ~(Len(index) + k <= Len(index))
        /\ (Len(index) + k) - Len(index) = k
    BY <1>7
  <2>2. QED BY <1>7, <2>1
<1>9. CASE ~frag
  <2>1. Len(L) \in 1 .. Len(L) /\ L[Len(L)] = e
    BY <1>3, <1>6, <1>9
  <2>2. QED BY <1>2, <1>8, <2>1 DEF Lines, e
<1>10. CASE frag
  <2> DEFINE t == Tail(a)
             j == <<Junk>>
             g == j \o t
  <2>1. /\ t \in Seq(LineSet) /\ Len(t) = Len(b)
        /\ \A i \in 1 .. Len(b) : t[i] = a[i + 1]
    <3>1. /\ Tail(a) \in Seq(LineSet) /\ Len(Tail(a)) = Len(a) - 1
          /\ \A i \in 1 .. Len(a) - 1 : Tail(a)[i] = a[i + 1]
      BY <1>3, <1>5, HeadTailProperties, SMT
    <3>2. Len(a) - 1 = Len(b)
      BY <1>3
    <3>3. QED BY <3>1, <3>2
  <2>2. j \in Seq(LineSet) /\ Len(j) = 1 /\ j[1] = Junk
    BY LineTypes
  <2> HIDE DEF t, j
  <2>3. /\ Len(g) = Len(j) + Len(t)
        /\ \A i \in 1 .. Len(j) + Len(t) : g[i] = IF i <= Len(j) THEN j[i] ELSE t[i - Len(j)]
    <3>1. j \in Seq(LineSet) /\ t \in Seq(LineSet)
      BY <2>1, <2>2
    <3>2. QED BY <3>1, ConcatAt
  <2>4. L = g
    BY <1>6, <1>10 DEF t, j
  <2> HIDE DEF g
  <2>5. Len(L) = Len(b) + 1 /\ L[1] = Junk /\ (Len(b) > 0 => L[Len(b) + 1] = t[Len(b)])
    BY <1>3, <2>1, <2>2, <2>3, <2>4
  <2>6. CASE Len(b) = 0
    <3>1. 1 \in 1 .. Len(L)
      BY <2>5, <2>6
    <3>2. Len(index) + 1 \in 1 .. Len(index') /\ index'[Len(index) + 1] = Junk
      BY <1>2, <1>8, <2>5, <3>1
    <3>3. QED BY <1>7, <3>2 DEF JunkPlaces
  <2>7. CASE Len(b) # 0
    <3>1. Len(b) + 1 \in 1 .. Len(L) /\ L[Len(b) + 1] = e
      BY <1>3, <2>1, <2>5, <2>7
    <3>2. QED BY <1>2, <1>8, <3>1 DEF Lines, e
  <2>8. QED BY <2>6, <2>7
<1>11. QED BY <1>9, <1>10

\* Only an entry that was just written, or glued, joins them.
LEMMA AppendedStep ==
  ASSUME StoreInv, NEW w \in Writers, Step(w)
  PROVE  \/ Appended' \subseteq Appended
         \/ AppendIndex(w) /\ Appended' = Appended \cup {cur[w]}
<1>0. TypeOK /\ \A v \in Writers : v # w => pc'[v] = pc[v] /\ cur'[v] = cur[v]
  BY FrameStep DEF StoreInv, Same
<1> DEFINE A == {"prune", "evict"}
<1>1. CASE acked' = acked /\ (pc'[w] \in A => pc[w] \in A /\ cur'[w] = cur[w])
  BY <1>0, <1>1 DEF Appended
<1>2. CASE AppendIndex(w)
  <2>1. acked' = acked /\ pc'[w] = "prune" /\ cur' = cur /\ pc[w] = "index"
    BY <1>0, <1>2 DEF AppendIndex, ghosts, TypeOK
  <2>2. QED BY <1>0, <1>2, <2>1 DEF Appended
<1>3. CASE EndPrune(w)
  <2>1. acked' = acked \cup {cur[w]} /\ pc'[w] = Return(w) /\ cur' = cur /\ pc[w] = "evict"
    BY <1>0, <1>3 DEF EndPrune, TypeOK
  <2>2. pc'[w] \notin A
    BY <2>1 DEF Return
  <2>3. QED BY <1>0, <2>1, <2>2 DEF Appended
<1>4. CASE Forget(w) /\ UNCHANGED ghosts
  <2>1. pc'[w] = "down" /\ acked' = acked
    BY <1>0, <1>4 DEF Forget, TypeOK, ghosts
  <2>2. QED BY <1>1, <2>1
<1>5. CASE Open(w) \/ WriteRecord(w) \/ WriteRecordFails(w) \/ AppendIndexFails(w) \/ Compare(w)
           \/ \E m \in Models, t \in Times : Begin(w, m, t)
  <2>1. pc'[w] \notin A /\ acked' = acked
    BY <1>0, <1>5 DEF Open, WriteRecord, WriteRecordFails, AppendIndexFails, Compare, Begin, ghosts,
                      TypeOK, Return
  <2>2. QED BY <1>1, <2>1
<1>6. CASE SelectVictims(w) \/ EvictOne(w) \/ EvictFails(w)
  <2>1. pc[w] \in A /\ cur' = cur /\ acked' = acked
    BY <1>6 DEF SelectVictims, EvictOne, EvictFails, ghosts
  <2>2. QED BY <1>1, <2>1
<1>7. QED BY <1>2, <1>3, <1>4, <1>5, <1>6 DEF Step, Close, Crash

LEMMA LossStep == StoreInv /\ LossInv /\ [Next]_vars => LossInv'
<1> USE DEF LossInv
<1>1. ASSUME StoreInv, LossInv, NEW w \in Writers, Step(w) PROVE LossInv'
  <2>0. TypeOK /\ CurInv
    BY <1>1 DEF StoreInv
  <2>1. Lines \subseteq Lines' /\ JunkPlaces \subseteq JunkPlaces'
    BY <1>1, <2>0, IndexGrows
  <2>2. Len(runs) \in Nat /\ Len(runs') \in Nat /\ Len(runs') >= Len(runs)
    BY <1>1, <2>0, RunsStep
  <2>3. IsFiniteSet(Swallowed)
    <3>1. Swallowed \in SUBSET (1 .. Len(runs))
      BY <1>1 DEF Swallowed
    <3>2. IsFiniteSet(1 .. Len(runs))
      BY <2>2, FS_Interval
    <3>3. QED BY <3>1, <3>2, FS_Subset
  <2>4. IsFiniteSet(JunkPlaces')
    <3>1. index' \in Seq(LineSet)
      BY <1>1, TypeStep DEF TypeOK
    <3>2. Len(index') \in Nat
      BY <3>1
    <3>3. JunkPlaces' \in SUBSET (1 .. Len(index')) /\ IsFiniteSet(1 .. Len(index'))
      BY <3>2, FS_Interval DEF JunkPlaces
    <3>4. QED BY <3>3, FS_Subset
  <2>5. Cardinality(JunkPlaces) <= Cardinality(JunkPlaces') /\ IsFiniteSet(JunkPlaces)
        /\ Cardinality(JunkPlaces) \in Nat /\ Cardinality(JunkPlaces') \in Nat
        /\ Cardinality(Swallowed) \in Nat
    BY <2>1, <2>3, <2>4, FS_Subset, FS_CardinalityType
  <2>6. CASE Appended' \subseteq Appended
    <3>1. Swallowed' \in SUBSET Swallowed
      BY <2>1, <2>6 DEF Swallowed
    <3>2. Cardinality(Swallowed') <= Cardinality(Swallowed) /\ Cardinality(Swallowed') \in Nat
      BY <2>3, <3>1, FS_Subset, FS_CardinalityType
    <3>3. Cardinality(Swallowed') <= Cardinality(JunkPlaces')
      BY <1>1, <2>5, <3>2
    <3>4. Appended' \subseteq 1 .. Len(runs')
      BY <1>1, <2>2, <2>6
    <3>5. QED BY <3>3, <3>4
  <2>7. CASE AppendIndex(w) /\ Appended' = Appended \cup {cur[w]}
    <3>1. cur[w] \in 1 .. Len(runs)
      BY <2>0, <2>7, CurStarted DEF AppendIndex, Busy
    <3>2. Appended' \subseteq 1 .. Len(runs')
      <4>1. 1 .. Len(runs) \subseteq 1 .. Len(runs')
        BY <2>2
      <4>2. QED BY <1>1, <2>7, <3>1, <4>1
    <3>3. CASE Entry(cur[w]) \in Lines'
      <4>1. Swallowed' \in SUBSET Swallowed
        BY <2>1, <2>7, <3>3 DEF Swallowed
      <4>2. Cardinality(Swallowed') <= Cardinality(Swallowed) /\ Cardinality(Swallowed') \in Nat
        BY <2>3, <4>1, FS_Subset, FS_CardinalityType
      <4>3. Cardinality(Swallowed') <= Cardinality(JunkPlaces')
        BY <1>1, <2>5, <4>2
      <4>4. QED BY <3>2, <4>3
    <3>4. CASE Len(index) + 1 \in JunkPlaces' /\ Len(index) + 1 \notin JunkPlaces
      <4> DEFINE T == Swallowed \cup {cur[w]}
                 J == JunkPlaces \cup {Len(index) + 1}
      <4>1. Swallowed' \in SUBSET T
        BY <2>1, <2>7 DEF Swallowed
      <4>2. IsFiniteSet(T) /\ Cardinality(T) \in Nat /\ Cardinality(T) <= Cardinality(Swallowed) + 1
        <5>1. IsFiniteSet(T)
              /\ (Cardinality(T) = Cardinality(Swallowed) \/ Cardinality(T) = Cardinality(Swallowed) + 1)
          BY <2>3, FS_AddElement
        <5> HIDE DEF T
        <5>2. QED BY <2>5, <5>1
      <4>3. Cardinality(Swallowed') <= Cardinality(T) /\ Cardinality(Swallowed') \in Nat
        BY <4>1, <4>2, FS_Subset, FS_CardinalityType
      <4>4. J \in SUBSET JunkPlaces' /\ IsFiniteSet(J)
            /\ Cardinality(J) = Cardinality(JunkPlaces) + 1
        BY <2>1, <2>5, <3>4, FS_AddElement
      <4>5. Cardinality(J) <= Cardinality(JunkPlaces')
        BY <2>4, <4>4, FS_Subset
      <4> HIDE DEF T, J
      <4>6. Cardinality(Swallowed') <= Cardinality(JunkPlaces')
        BY <1>1, <2>5, <4>2, <4>3, <4>4, <4>5
      <4>7. QED BY <3>2, <4>6
    <3>5. QED BY <2>0, <2>7, <3>3, <3>4, EntryLands
  <2>8. QED BY <1>1, <2>6, <2>7, AppendedStep
<1>2. ASSUME LossInv, UNCHANGED vars PROVE LossInv'
  <2>1. runs' = runs /\ index' = index /\ acked' = acked /\ cur' = cur /\ pc' = pc
    BY <1>2 DEF vars, diskVars, procVars, ghosts
  <2>2. Appended' = Appended /\ Swallowed' = Swallowed /\ JunkPlaces' = JunkPlaces
    BY <2>1 DEF Appended, Swallowed, JunkPlaces, Lines
  <2>3. QED BY <1>2, <2>1, <2>2
<1>3. QED BY <1>1, <1>2 DEF Next

LEMMA LossInit == Init => LossInv
<1> SUFFICES ASSUME Init PROVE LossInv
  OBVIOUS
<1>1. Appended = {} /\ JunkPlaces = {}
  BY DEF Init, Appended, JunkPlaces
<1>2. Swallowed = {}
  BY <1>1 DEF Swallowed
<1>3. QED BY <1>1, <1>2, FS_EmptySet DEF LossInv

\* Nothing that `append` acknowledged is lost but by a half-written line: of
\* the runs that a next open does not find and no prune removed, each is
\* charged to a junk line of its own.
THEOREM LossBoundedHolds == Spec => []LossBounded
<1>1. ASSUME StoreInv, LossInv PROVE LossBounded
  <2>0. Len(runs) \in Nat /\ index \in Seq(LineSet)
    BY <1>1 DEF StoreInv, TypeOK
  <2>1. Lost \in SUBSET Swallowed
    <3> SUFFICES ASSUME NEW r \in acked, r \notin pruned, Entry(r) \in Lines
                 PROVE  r \in LoadedIds /\ Readable(r)
      BY DEF Lost, Swallowed, Appended
    <3>1. r \in Nat
      BY <1>1, <2>0 DEF LossInv, Appended
    <3>2. Readable(r)
      BY <1>1, <3>1 DEF StoreInv, DiskInv, Held, Recorded
    <3>3. Tomb(r) \notin Lines
      BY <1>1, <3>1, <3>2 DEF StoreInv, DiskInv, Held, Readable
    <3>4. Indexed(Entry(r)) /\ Entry(r).id = r
      BY <3>3 DEF Indexed, Entry
    <3>5. QED BY <3>2, <3>4 DEF LoadedIds
  <2>2. Swallowed \in SUBSET (1 .. Len(runs)) /\ IsFiniteSet(1 .. Len(runs))
    <3>1. Swallowed \in SUBSET (1 .. Len(runs))
      BY <1>1 DEF LossInv, Swallowed
    <3>2. IsFiniteSet(1 .. Len(runs))
      BY <2>0, FS_Interval
    <3>3. QED BY <3>1, <3>2
  <2>3. IsFiniteSet(Swallowed) /\ Cardinality(Swallowed) \in Nat
    BY <2>2, FS_Subset, FS_CardinalityType
  <2>4. Cardinality(Lost) <= Cardinality(Swallowed) /\ Cardinality(Lost) \in Nat
    BY <2>1, <2>3, FS_Subset, FS_CardinalityType
  <2>5. Cardinality(JunkPlaces) \in Nat
    <3>1. Len(index) \in Nat
      BY <2>0
    <3>2. JunkPlaces \in SUBSET (1 .. Len(index)) /\ IsFiniteSet(1 .. Len(index))
      BY <3>1, FS_Interval DEF JunkPlaces
    <3>3. QED BY <3>2, FS_Subset, FS_CardinalityType
  <2>6. Cardinality(Lost) <= Cardinality(JunkPlaces)
    BY <1>1, <2>3, <2>4, <2>5 DEF LossInv
  <2>7. QED BY <2>6 DEF LossBounded, JunkPlaces
<1>2. QED BY <1>1, InvHolds, LossInit, LossStep, PTL DEF Spec

----------------------------------------------------------------------------
(* What a prune of the only process removes                                *)

\* No two processes have the store open.
OneProcess == \A v, u \in Writers : v = u

\* What process w has indexed of the model of its run in flight.
Mine(w) == {r \in by_id[w] : runs[r].model = runs[cur[w]].model}

\* A pruned record is gone for good, and what a process has indexed was
\* recorded.
GoneInv ==
  /\ \A r \in pruned : Started(r) /\ r \notin DOMAIN files
  /\ \A w \in Writers : \A r \in by_id[w] : Recorded(r)

\* Before the record d that loads goes everything that does not, and, where
\* every delete succeeds, everything older: x stays.
Spares(w, d, x) ==
  Get(w, x) /\ ("DeleteFails" \in Faults \/ runs[d].spawn <= runs[x].spawn)

\* What is left to evict is indexed, each once, in the order of prune.
PruneInv ==
  \A w \in Writers : pc[w] = "evict" =>
    /\ NoDup(todo[w]) /\ Ids(todo[w]) \subseteq by_id[w]
    /\ \A i \in 1 .. Len(todo[w]) : Get(w, todo[w][i]) =>
         \A x \in Mine(w) : \/ \E j \in 1 .. i - 1 : x = todo[w][j]
                            \/ Spares(w, todo[w][i], x)

\* The list of a model and the set of its runs are the same.
LEMMA MineProperties ==
  ASSUME StoreInv, NEW w \in Writers, pc[w] \in Busy \ {"file"}
  PROVE  /\ runs[cur[w]].model \in Models /\ Own(w) \in Seq(Nat)
         /\ Mine(w) = Ids(Own(w))
         /\ IsFiniteSet(Mine(w)) /\ Cardinality(Mine(w)) = Len(Own(w))
<1> DEFINE m == runs[cur[w]].model
<1>1. TypeOK /\ CurInv /\ NamedInv /\ MemInv
  BY DEF StoreInv
<1>2. m \in Models
  BY <1>1, CurStarted, RunTypes
<1> HIDE DEF m
<1>3. by_model[w][m] \in Seq(Nat) /\ NoDup(by_model[w][m])
  BY <1>1, <1>2 DEF TypeOK, MemInv
<1>4. /\ \A k \in Models : \A r \in Ids(by_model[w][k]) : runs[r].model = k
      /\ by_id[w] = UNION {Ids(by_model[w][k]) : k \in Models}
  BY <1>1 DEF NamedInv, MemInv
<1>5. {r \in by_id[w] : runs[r].model = m} = Ids(by_model[w][m])
  BY <1>2, <1>4
<1>6. Mine(w) = Ids(by_model[w][m]) /\ Own(w) = by_model[w][m]
  BY <1>5 DEF Mine, Own, m
<1>7. QED BY <1>2, <1>3, <1>6, NoDupCardinality DEF m

LEMMA TailAt ==
  ASSUME NEW X, NEW s \in Seq(X), s # <<>>
  PROVE  /\ Len(s) \in Nat \ {0} /\ Head(s) = s[1]
         /\ Tail(s) \in Seq(X) /\ Len(Tail(s)) = Len(s) - 1
         /\ \A i \in 1 .. Len(s) - 1 : Tail(s)[i] = s[i + 1]
  BY HeadTailProperties, SMT

LEMMA GoneStep == ASSUME StoreInv, GoneInv, NEW w \in Writers, Step(w) PROVE GoneInv'
<1>0. TypeOK /\ CurInv /\ NamedInv /\ DiskInv /\ MemInv
  BY DEF StoreInv
<1>1. \A r : Started(r) => /\ Started(r)'
                           /\ Recorded(r) => Recorded(r)'
                           /\ r \notin DOMAIN files => r \notin DOMAIN files'
  BY <1>0, FilesStep, StartedStable
<1>2. ASSUME NEW r \in pruned' PROVE Started(r)' /\ r \notin DOMAIN files'
  <2>1. CASE r \in pruned
    BY <1>1, <2>1 DEF GoneInv
  <2>2. CASE EvictOne(w)
    <3> DEFINE h == Head(todo[w])
    <3>1. /\ files' = [x \in DOMAIN files \ {h} |-> files[x]]
          /\ pruned' = pruned \cup ({h} \cap DOMAIN files) /\ todo[w] # <<>>
      BY <2>2 DEF EvictOne
    <3>2. h \in Ids(todo[w])
      <4>1. todo[w] \in Seq(Nat)
        BY <1>0 DEF TypeOK
      <4>2. QED BY <3>1, <4>1, IdsProperties
    <3> HIDE DEF h
    <3>3. Started(h) /\ h \notin DOMAIN files'
      BY <1>0, <3>1, <3>2 DEF NamedInv
    <3>4. QED BY <1>1, <1>2, <2>1, <3>1, <3>3
  <2>3. pruned' = pruned \/ EvictOne(w)
    BY DEF Step, Open, Begin, WriteRecord, WriteRecordFails, AppendIndex, AppendIndexFails,
           SelectVictims, EvictFails, EndPrune, Compare, Close, Crash, ghosts
  <2>4. QED BY <1>2, <2>1, <2>2, <2>3
<1>3. ASSUME NEW v \in Writers, NEW r \in by_id[v] PROVE Started(r) /\ Recorded(r)
  <2>1. Started(r)
    BY <1>0 DEF MemInv, NamedInv
  <2>2. QED BY <2>1 DEF GoneInv
<1>4. ASSUME NEW v \in Writers, NEW r \in by_id'[v] PROVE Recorded(r)'
  <2>1. CASE r \in by_id[v]
    BY <1>1, <1>3, <2>1
  <2>2. CASE v # w
    BY <1>0, <1>4, <2>1, <2>2, FrameStep DEF Same
  <2>3. CASE v = w /\ Open(w)
    <3>1. by_id'[w] = LoadedIds
      BY <1>0, <2>3 DEF Open, TypeOK
    <3>2. PICK x \in Lines : Indexed(x) /\ r = x.id
      BY <1>4, <2>3, <3>1 DEF LoadedIds
    <3>3. x \in LineSet /\ x \in Held
      BY <1>0 DEF Lines, TypeOK, Held
    <3>4. x = Entry(r) /\ r \in Nat
      BY <3>2, <3>3, LineTypes DEF Indexed
    <3>5. Started(r) /\ Recorded(r)
      BY <1>0, <3>2, <3>3, <3>4 DEF NamedInv, DiskInv, Indexed
    <3>6. QED BY <1>1, <3>5
  <2>4. CASE v = w /\ AppendIndex(w)
    <3>1. by_id'[w] = by_id[w] \cup {cur[w]} /\ pc[w] = "index"
      BY <1>0, <2>4 DEF AppendIndex, Remember, TypeOK
    <3>2. Started(cur[w]) /\ Recorded(cur[w])
      BY <1>0, <3>1, CurStarted DEF DiskInv, Busy
    <3>3. QED BY <1>1, <1>4, <2>1, <2>4, <3>1, <3>2
  <2>5. by_id'[w] \subseteq by_id[w] \/ Open(w) \/ AppendIndex(w)
    <3>1. CASE EvictOne(w)
      BY <1>0, <3>1 DEF EvictOne, RemoveFromIndex, TypeOK
    <3>2. CASE Close(w) \/ Crash(w)
      BY <1>0, <3>2 DEF Close, Crash, Forget, TypeOK
    <3>3. QED
      BY <3>1, <3>2 DEF Step, Begin, WriteRecord, WriteRecordFails, AppendIndexFails,
           SelectVictims, EvictFails, EndPrune, Compare
  <2>6. QED BY <1>4, <2>1, <2>2, <2>3, <2>4, <2>5
<1>5. QED BY <1>2, <1>4 DEF GoneInv

\* What a process has indexed and finds on disk loads.
LEMMA GetProperties ==
  ASSUME GoneInv, NEW w \in Writers, NEW r \in by_id[w], r \in DOMAIN files
  PROVE  Get(w, r)
  BY DEF GoneInv, Recorded, Get

\* The candidates are taken in the order of prune.
LEMMA SelectOrder ==
  ASSUME StoreInv, NEW w \in Writers, pc[w] = "prune",
         NEW i \in 1 .. Len(Candidates(w)), Get(w, Candidates(w)[i]), NEW x \in Mine(w)
  PROVE  \/ \E j \in 1 .. i - 1 : x = Candidates(w)[j]
         \/ Spares(w, Candidates(w)[i], x)
<1> DEFINE C == Candidates(w)
           d == C[i]
           s == Own(w)
<1>1. Mine(w) = Ids(s)
  BY MineProperties DEF Busy
<1>2. C \in Seq(Nat) /\ Ids(C) \subseteq Ids(s)
      /\ ((\E j \in 1 .. i - 1 : x = C[j]) \/ ~Before(w, s, x, d))
  BY <1>1, CandidatesProperties
<1> HIDE DEF C
<1>3. d \in Mine(w)
  BY <1>1, <1>2 DEF Ids, C
<1>4. \A r \in Mine(w) : runs[r].spawn \in Nat
  <2>1. \A r \in Mine(w) : r \in 1 .. Len(runs)
    BY DEF Mine, StoreInv, MemInv, NamedInv, Started
  <2>2. QED BY <2>1, RunTypes DEF StoreInv
<1> HIDE DEF s, d
<1>5. CASE ~Before(w, s, x, d)
  <2>1. ~((IF Get(w, x) THEN runs[x].spawn ELSE -1) < (IF Get(w, d) THEN runs[d].spawn ELSE -1))
    BY <1>5 DEF Before
  <2>2. Get(w, d)
    BY DEF d, C
  <2>3. runs[x].spawn \in Nat /\ runs[d].spawn \in Nat
    BY <1>3, <1>4
  <2>4. Get(w, x) /\ runs[d].spawn <= runs[x].spawn
    <3> DEFINE p == runs[x].spawn
               q == runs[d].spawn
               g == Get(w, x)
    <3>1. ~((IF g THEN p ELSE -1) < q) /\ p \in Nat /\ q \in Nat
      BY <2>1, <2>2, <2>3
    <3> HIDE DEF p, q, g
    <3>2. g /\ q <= p
      BY <3>1
    <3>3. QED BY <3>2 DEF p, q, g
  <2>5. QED BY <2>4 DEF Spares, d, C
<1>6. QED BY <1>2, <1>5 DEF d, C

LEMMA PruneStep ==
  ASSUME OneProcess, StoreInv, GoneInv, PruneInv, NEW w \in Writers, Step(w)
  PROVE  PruneInv'
<1>0. TypeOK /\ CurInv /\ NamedInv /\ MemInv
  BY DEF StoreInv
<1>1. \A v \in Writers : v = w
  BY DEF OneProcess
<1>2. CASE pc'[w] # "evict"
  BY <1>1, <1>2 DEF PruneInv
<1>3. CASE SelectVictims(w)
  <2>1. /\ pc[w] = "prune" /\ todo'[w] = Candidates(w) /\ cur' = cur /\ by_id' = by_id
        /\ runs' = runs /\ files' = files
    BY <1>0, <1>3 DEF SelectVictims, TypeOK, diskVars
  <2>2. Mine(w)' = Mine(w) /\ \A r : Get(w, r)' = Get(w, r) /\ \A d : Spares(w, d, r)' = Spares(w, d, r)
    BY <2>1 DEF Mine, Get, Readable, Spares
  <2>3. Mine(w) = Ids(Own(w)) /\ Mine(w) \subseteq by_id[w]
    BY <2>1, MineProperties DEF Busy, Mine
  <2>4. NoDup(Candidates(w)) /\ Ids(Candidates(w)) \subseteq Ids(Own(w))
    BY <2>1, CandidatesProperties
  <2>5. NoDup(todo'[w]) /\ Ids(todo'[w]) \subseteq by_id'[w]
    BY <2>1, <2>3, <2>4
  <2>6. ASSUME NEW i \in 1 .. Len(todo'[w]), Get(w, todo[w][i])', NEW x \in Mine(w)'
        PROVE  (\E j \in 1 .. i - 1 : x = todo'[w][j]) \/ Spares(w, todo[w][i], x)'
    <3>1. Get(w, Candidates(w)[i]) /\ i \in 1 .. Len(Candidates(w)) /\ x \in Mine(w)
      BY <2>1, <2>2, <2>6
    <3>2. (\E j \in 1 .. i - 1 : x = Candidates(w)[j]) \/ Spares(w, Candidates(w)[i], x)
      BY <2>1, <3>1, SelectOrder
    <3>3. QED BY <2>1, <2>2, <3>2
  <2>7. QED BY <1>1, <2>5, <2>6 DEF PruneInv
<1>4. CASE EvictOne(w) \/ EvictFails(w)
  <2> DEFINE t == todo[w]
             h == Head(t)
  <2>1. /\ pc[w] = "evict" /\ t # <<>> /\ todo'[w] = Tail(t) /\ cur' = cur /\ runs' = runs
    BY <1>0, <1>4 DEF EvictOne, EvictFails, TypeOK
  <2>2. /\ NoDup(t) /\ Ids(t) \subseteq by_id[w] /\ t \in Seq(Nat)
        /\ \A i \in 1 .. Len(t) : Get(w, t[i]) =>
             \A x \in Mine(w) : (\E j \in 1 .. i - 1 : x = t[j]) \/ Spares(w, t[i], x)
    BY <1>0, <2>1 DEF PruneInv, TypeOK
  <2>3. /\ Len(t) \in Nat \ {0} /\ h = t[1] /\ Tail(t) \in Seq(Nat) /\ Len(Tail(t)) = Len(t) - 1
        /\ \A i \in 1 .. Len(t) - 1 : Tail(t)[i] = t[i + 1]
    <3> HIDE DEF t
    <3>1. QED BY <2>1, <2>2, TailAt DEF h
  <2>4. \/ /\ by_id'[w] = by_id[w] \ {h}
           /\ \A r : r # h => (Readable(r)' <=> Readable(r))
        \/ /\ by_id' = by_id /\ files' = files /\ h \in DOMAIN files /\ "DeleteFails" \in Faults
    <3>1. CASE EvictOne(w)
      <4>1. by_id'[w] = by_id[w] \ {h} /\ files' = [x \in DOMAIN files \ {h} |-> files[x]]
        BY <1>0, <3>1 DEF EvictOne, RemoveFromIndex, TypeOK
      <4> HIDE DEF h
      <4>2. \A r : r # h => (Readable(r)' <=> Readable(r))
        BY <4>1 DEF Readable
      <4>3. QED BY <4>1, <4>2, Zenon
    <3>2. CASE EvictFails(w)
      BY <3>2 DEF EvictFails, diskVars
    <3>3. QED BY <1>4, <3>1, <3>2
  <2> HIDE DEF t, h
  <2>5. NoDup(Tail(t)) /\ \A i \in 1 .. Len(Tail(t)) : Tail(t)[i] # h
    <3>1. \A i \in 1 .. Len(Tail(t)) : Tail(t)[i] = t[i + 1] /\ i + 1 \in 1 .. Len(t) /\ i + 1 # 1
      BY <2>3
    <3>2. 1 \in 1 .. Len(t)
      BY <2>3
    <3>3. \A i \in 1 .. Len(Tail(t)) : Tail(t)[i] # h
      BY <2>2, <2>3, <3>1, <3>2 DEF NoDup
    <3>4. ASSUME NEW i \in 1 .. Len(Tail(t)), NEW j \in 1 .. Len(Tail(t)), Tail(t)[i] = Tail(t)[j]
          PROVE  i = j
      <4>1. i + 1 = j + 1
        BY <2>2, <3>1, <3>4 DEF NoDup
      <4>2. QED BY <2>3, <4>1
    <3>5. QED BY <3>3, <3>4 DEF NoDup
  <2>6. Ids(Tail(t)) \subseteq Ids(t) \ {h}
    BY <2>3, <2>5 DEF Ids
  <2>7. Ids(Tail(t)) \subseteq by_id'[w]
    BY <2>2, <2>4, <2>6
  <2>8. Mine(w)' \subseteq Mine(w)
    BY <2>1, <2>4 DEF Mine
  <2>9. \A r : r # h => (Get(w, r)' <=> Get(w, r)) /\ \A d : (Spares(w, d, r)' <=> Spares(w, d, r))
    <3> SUFFICES ASSUME NEW r, r # h
                 PROVE  (Get(w, r)' <=> Get(w, r)) /\ \A d : (Spares(w, d, r)' <=> Spares(w, d, r))
      OBVIOUS
    <3>1. (r \in by_id'[w] <=> r \in by_id[w]) /\ (Readable(r)' <=> Readable(r))
      BY <2>4 DEF Readable
    <3>2. Get(w, r)' <=> Get(w, r)
      BY <3>1 DEF Get
    <3>3. QED BY <2>1, <3>2 DEF Spares
  <2>10. ASSUME NEW i \in 1 .. Len(Tail(t)), NEW d, d = Tail(t)[i], Get(w, d)', NEW x \in Mine(w)'
         PROVE  (\E j \in 1 .. i - 1 : x = Tail(t)[j]) \/ Spares(w, d, x)'
    <3>1. d = t[i + 1] /\ d # h /\ i + 1 \in 1 .. Len(t) /\ (i + 1) - 1 = i
      BY <2>3, <2>5, <2>10
    <3>2. Get(w, d)
      BY <2>9, <2>10, <3>1
    <3>3. (\E j \in 1 .. i : x = t[j]) \/ Spares(w, d, x)
      BY <2>2, <2>8, <3>1, <3>2
    <3>4. CASE x = h
      <4>1. x \in by_id'[w]
        BY DEF Mine
      <4>2. by_id' = by_id /\ files' = files /\ h \in DOMAIN files /\ "DeleteFails" \in Faults
        BY <2>4, <3>4, <4>1
      <4>3. Get(w, x)
        BY <3>4, <4>1, <4>2, GetProperties
      <4>4. Get(w, x)'
        BY <4>2, <4>3 DEF Get, Readable
      <4>5. QED BY <4>2, <4>4 DEF Spares
    <3>5. CASE x # h
      <4>1. CASE Spares(w, d, x)
        BY <2>9, <3>5, <4>1
      <4>2. ASSUME NEW j \in 1 .. i, x = t[j] PROVE \E k \in 1 .. i - 1 : x = Tail(t)[k]
        <5>1. j # 1
          BY <2>3, <3>5, <4>2
        <5>2. j - 1 \in 1 .. i - 1 /\ j - 1 \in 1 .. Len(t) - 1 /\ (j - 1) + 1 = j
          BY <2>3, <5>1
        <5>3. x = Tail(t)[j - 1]
          BY <2>3, <4>2, <5>2
        <5>4. QED BY <5>2, <5>3
      <4>3. QED BY <3>3, <4>1, <4>2
    <3>6. QED BY <3>4, <3>5
  <2>11. ASSUME NEW i \in 1 .. Len(todo'[w]), Get(w, todo[w][i])', NEW x \in Mine(w)'
         PROVE  (\E j \in 1 .. i - 1 : x = todo'[w][j]) \/ Spares(w, todo[w][i], x)'
    <3> DEFINE d == Tail(t)[i]
    <3>1. d = todo'[w][i] /\ i \in 1 .. Len(Tail(t))
      BY <2>1 DEF t
    <3>2. PICK c : c = d
      OBVIOUS
    <3>3. Get(w, c)'
      BY <2>11, <3>1, <3>2 DEF Get, Readable
    <3>4. (\E j \in 1 .. i - 1 : x = Tail(t)[j]) \/ Spares(w, c, x)'
      BY <2>10, <3>1, <3>2, <3>3
    <3>5. QED BY <2>1, <3>1, <3>2, <3>4 DEF Spares, t
  <2>12. NoDup(todo'[w]) /\ Ids(todo'[w]) \subseteq by_id'[w]
    BY <2>1, <2>5, <2>7 DEF t
  <2>13. QED BY <1>1, <2>11, <2>12 DEF PruneInv
<1>5. pc'[w] # "evict" \/ SelectVictims(w) \/ EvictOne(w) \/ EvictFails(w)
  <2>1. CASE Close(w) \/ Crash(w)
    BY <1>0, <2>1 DEF Close, Crash, Forget, TypeOK
  <2>2. QED BY <1>0, <2>1 DEF Step, Open, Begin, WriteRecord, WriteRecordFails, AppendIndex, AppendIndexFails,
              EndPrune, Compare, Return, TypeOK
<1>6. QED BY <1>2, <1>3, <1>4, <1>5

\* What the invariants say of a record that is about to go.
LEMMA EvictedIsFirst ==
  ASSUME StoreInv, GoneInv, PruneInv, NEW w \in Writers, EvictOne(w), Head(todo[w]) \in DOMAIN files
  PROVE  /\ Head(todo[w]) \in Mine(w) /\ Started(Head(todo[w]))
         /\ \A x \in Mine(w) : Spares(w, Head(todo[w]), x)
<1> DEFINE t == todo[w]
           h == Head(t)
<1>1. pc[w] = "evict" /\ t # <<>> /\ t \in Seq(Nat)
  BY DEF EvictOne, StoreInv, TypeOK
<1>2. /\ Ids(t) \subseteq by_id[w]
      /\ \A i \in 1 .. Len(t) : Get(w, t[i]) =>
           \A x \in Mine(w) : (\E j \in 1 .. i - 1 : x = t[j]) \/ Spares(w, t[i], x)
  BY <1>1 DEF PruneInv
<1>3. h = t[1] /\ 1 \in 1 .. Len(t) /\ h \in Ids(t)
  <2> HIDE DEF t
  <2>1. QED BY <1>1, TailAt DEF h, Ids
<1>4. h \in Mine(w) /\ Started(h)
  BY <1>2, <1>3 DEF StoreInv, NamedInv, Mine
<1>5. Get(w, h)
  BY <1>2, <1>3, GetProperties
<1> HIDE DEF t, h
<1>6. \A x \in Mine(w) : Spares(w, h, x)
  <2> SUFFICES ASSUME NEW x \in Mine(w) PROVE Spares(w, h, x)
    OBVIOUS
  <2>1. (\E j \in 1 .. 1 - 1 : x = t[j]) \/ Spares(w, t[1], x)
    BY <1>2, <1>3, <1>5
  <2>2. 1 .. 1 - 1 = {}
    OBVIOUS
  <2>3. QED BY <1>3, <2>1, <2>2
<1>7. QED BY <1>4, <1>6 DEF t, h

LEMMA UnchangedOne == GoneInv /\ PruneInv /\ UNCHANGED vars => GoneInv' /\ PruneInv'
<1> SUFFICES ASSUME GoneInv, PruneInv, UNCHANGED vars PROVE GoneInv' /\ PruneInv'
  OBVIOUS
<1>1. /\ runs' = runs /\ files' = files /\ pc' = pc /\ cur' = cur /\ by_id' = by_id
      /\ todo' = todo /\ pruned' = pruned
  BY DEF vars, diskVars, procVars, ghosts
<1>2. GoneInv'
  BY <1>1 DEF GoneInv, Started, Recorded, Readable
<1>3. PruneInv'
  BY <1>1 DEF PruneInv, Mine, Spares, Get, Readable
<1>4. QED BY <1>2, <1>3

LEMMA PruneHolds == ASSUME OneProcess PROVE Spec => [](StoreInv /\ GoneInv /\ PruneInv)
<1>1. Init => StoreInv /\ GoneInv /\ PruneInv
  <2>1. Init => GoneInv /\ PruneInv
    BY DEF Init, GoneInv, PruneInv
  <2>2. QED BY <2>1, InitInv
<1>2. StoreInv /\ GoneInv /\ PruneInv /\ [Next]_vars => StoreInv' /\ GoneInv' /\ PruneInv'
  <2>1. ASSUME StoreInv, GoneInv, PruneInv, Next PROVE GoneInv' /\ PruneInv'
    BY <2>1, GoneStep, PruneStep DEF Next
  <2>2. QED BY <2>1, UnchangedOne, InvStep
<1>3. QED BY <1>1, <1>2, PTL DEF Spec

\* With the store to itself, and whatever fails, a process deletes a record
\* only when everything it has indexed of that model loads: a pointer left by
\* a crash between a delete and its tombstone is dropped first.
THEOREM GhostsGoFirstHolds == ASSUME OneProcess PROVE Spec => GhostsGoFirst
<1> DEFINE A == \A r \in DOMAIN files : r \notin DOMAIN files' =>
                  \A w \in Writers : Len(gone'[w]) > Len(gone[w]) =>
                    \A x \in Ids(by_model[w][runs[r].model]) : Get(w, x)
<1>1. ASSUME StoreInv, GoneInv, PruneInv, [Next]_vars PROVE [A]_vars
  <2> SUFFICES ASSUME NEW w \in Writers, Step(w), NEW r \in DOMAIN files, r \notin DOMAIN files'
               PROVE  \A x \in Ids(by_model[w][runs[r].model]) : Get(w, x)
    BY <1>1 DEF Next, OneProcess
  <2>1. EvictOne(w)
    BY DEF Step, Open, Begin, WriteRecord, WriteRecordFails, AppendIndex, AppendIndexFails,
           SelectVictims, EvictFails, EndPrune, Compare, Close, Crash, diskVars, FileWith
  <2>2. r = Head(todo[w]) /\ pc[w] = "evict"
    BY <2>1 DEF EvictOne
  <2>3. r \in Mine(w) /\ \A x \in Mine(w) : Get(w, x)
    BY <1>1, <2>1, <2>2, EvictedIsFirst DEF Spares
  <2>4. Mine(w) = Ids(by_model[w][runs[r].model])
    <3>1. Mine(w) = Ids(Own(w)) /\ runs[r].model = runs[cur[w]].model
      BY <1>1, <2>2, <2>3, MineProperties DEF Busy, Mine
    <3>2. QED BY <3>1 DEF Own
  <2>5. QED BY <2>3, <2>4
<1>2. QED BY <1>1, PruneHolds, PTL DEF Spec, GhostsGoFirst

----------------------------------------------------------------------------
(* The limit                                                               *)

\* The model is over the limit by what is left to evict.
CountInv ==
  \A w \in Writers :
    /\ pc[w] = "evict" => IF todo[w] = <<>> THEN Cardinality(Mine(w)) <= Limit
                          ELSE Cardinality(Mine(w)) = Limit + Len(todo[w])
    /\ pc[w] \in {"compare", "done"} => Cardinality(Mine(w)) <= Limit

\* No line waits in a buffer; what the index names and loads is in memory.
KnownInv ==
  \A w \in Writers :
    /\ buf[w] = <<>>
    /\ pc[w] # "down" => \A r \in LoadedIds : Readable(r) => r \in by_id[w]

\* An entry that has no tombstone is a line of its run.
LEMMA LoadedEntry ==
  ASSUME TypeOK, NEW r
  PROVE  r \in LoadedIds <=> r \in Nat /\ Entry(r) \in Lines /\ Tomb(r) \notin Lines
<1>1. \A x \in Lines : x \in LineSet
  BY DEF TypeOK, Lines
<1>2. ASSUME r \in LoadedIds PROVE r \in Nat /\ Entry(r) \in Lines /\ Tomb(r) \notin Lines
  <2>1. PICK x \in Lines : Indexed(x) /\ r = x.id
    BY <1>2 DEF LoadedIds
  <2>2. x = Entry(x.id) /\ x.id \in Nat
    BY <1>1, <2>1, LineTypes DEF Indexed
  <2>3. QED BY <2>1, <2>2 DEF Indexed
<1>3. ASSUME r \in Nat, Entry(r) \in Lines, Tomb(r) \notin Lines PROVE r \in LoadedIds
  <2>1. Entry(r).id = r /\ Entry(r).kind = "entry"
    BY <1>3, LineTypes
  <2>2. Indexed(Entry(r))
    BY <1>3, <2>1 DEF Indexed
  <2>3. QED BY <1>3, <2>1, <2>2 DEF LoadedIds
<1>4. QED BY <1>2, <1>3

LEMMA CountStep ==
  ASSUME OneProcess, Faults \subseteq {"Crash", "Torn"},
         StoreInv, GoneInv, PruneInv, CountInv, NEW w \in Writers, Step(w)
  PROVE  CountInv'
<1>0. TypeOK /\ NamedInv
  BY DEF StoreInv
<1>1. \A v \in Writers : v = w
  BY DEF OneProcess
<1>2. CASE pc'[w] \notin {"evict", "compare", "done"}
  BY <1>1, <1>2 DEF CountInv
<1>3. CASE SelectVictims(w)
  <2> DEFINE C == Candidates(w)
             n == Cardinality(Mine(w))
  <2>1. /\ pc[w] = "prune" /\ pc'[w] = "evict" /\ todo'[w] = C /\ cur' = cur /\ by_id' = by_id
        /\ runs' = runs
    BY <1>0, <1>3 DEF SelectVictims, TypeOK
  <2>2. Mine(w)' = Mine(w)
    BY <2>1 DEF Mine
  <2>3. n = Len(Own(w)) /\ Own(w) \in Seq(Nat)
    BY <2>1, MineProperties DEF Busy
  <2>4. C \in Seq(Nat) /\ Len(C) = IF Len(Own(w)) > Limit THEN Len(Own(w)) - Limit ELSE 0
    BY <2>1, CandidatesProperties
  <2>5. n \in Nat /\ Limit \in Nat
    BY <2>3, StoreAssumption
  <2> HIDE DEF C, n
  <2>6. IF C = <<>> THEN n <= Limit ELSE n = Limit + Len(C)
    BY <2>3, <2>4, <2>5
  <2>7. QED BY <1>1, <2>1, <2>2, <2>6 DEF CountInv, C, n
<1>4. CASE EvictOne(w)
  <2> DEFINE t == todo[w]
             h == Head(t)
             n == Cardinality(Mine(w))
  <2>1. /\ pc[w] = "evict" /\ pc'[w] = "evict" /\ t # <<>> /\ todo'[w] = Tail(t) /\ cur' = cur
        /\ by_id'[w] = by_id[w] \ {h} /\ runs' = runs /\ t \in Seq(Nat)
    BY <1>0, <1>4 DEF EvictOne, RemoveFromIndex, TypeOK
  <2>2. h \in Ids(t) /\ Ids(t) \subseteq by_id[w]
    BY <2>1, IdsProperties DEF PruneInv
  <2>3. h \in Mine(w)
    BY <1>0, <2>2 DEF NamedInv, Mine
  <2>4. Mine(w)' = Mine(w) \ {h}
    BY <2>1 DEF Mine
  <2>5. IsFiniteSet(Mine(w))
    BY <2>1, MineProperties DEF Busy
  <2>6. Cardinality(Mine(w) \ {h}) = n - 1 /\ n \in Nat
    BY <2>3, <2>5, FS_RemoveElement, FS_CardinalityType
  <2>7. Tail(t) \in Seq(Nat) /\ Len(Tail(t)) = Len(t) - 1 /\ Len(t) \in Nat
    <3> HIDE DEF t
    <3>1. QED BY <2>1, TailAt
  <2>8. n = Limit + Len(t) /\ Limit \in Nat
    BY <2>1, StoreAssumption DEF CountInv
  <2> HIDE DEF n, t, h
  <2>9. IF Tail(t) = <<>> THEN n - 1 <= Limit ELSE n - 1 = Limit + Len(Tail(t))
    <3> DEFINE u == Tail(t)
    <3>0. Len(<<>>) = 0
      OBVIOUS
    <3>1. u = <<>> => Len(u) = 0
      BY <3>0, Zenon
    <3>2. Len(u) = Len(t) - 1 /\ Len(t) \in Nat
      BY <2>7
    <3> HIDE DEF u
    <3>3. n - 1 = Limit + Len(u) /\ (u = <<>> => n - 1 = Limit)
      BY <2>6, <2>8, <3>1, <3>2
    <3>4. u = <<>> => n - 1 <= Limit
      BY <2>8, <3>3
    <3>5. QED BY <3>3, <3>4 DEF u
  <2>10. QED BY <1>1, <2>1, <2>4, <2>6, <2>9 DEF CountInv
<1>5. CASE EndPrune(w)
  <2>1. /\ pc[w] = "evict" /\ pc'[w] # "evict" /\ todo[w] = <<>> /\ cur' = cur /\ by_id' = by_id
        /\ runs' = runs
    BY <1>0, <1>5 DEF EndPrune, TypeOK, Return
  <2>2. Mine(w)' = Mine(w) /\ Cardinality(Mine(w)) <= Limit
    BY <2>1 DEF Mine, CountInv
  <2>3. QED BY <1>1, <2>1, <2>2 DEF CountInv
<1>6. pc'[w] \notin {"evict", "compare", "done"} \/ SelectVictims(w) \/ EvictOne(w) \/ EndPrune(w)
  <2>1. CASE Close(w) \/ Crash(w)
    BY <1>0, <2>1 DEF Close, Crash, Forget, TypeOK
  <2>2. QED BY <1>0, <2>1 DEF Step, Open, Begin, WriteRecord, WriteRecordFails, AppendIndex,
              AppendIndexFails, EvictFails, Compare, TypeOK
<1>7. QED BY <1>2, <1>3, <1>4, <1>5, <1>6

LEMMA KnownStep ==
  ASSUME OneProcess, Faults \subseteq {"Crash", "Torn"},
         StoreInv, KnownInv, NEW w \in Writers, Step(w)
  PROVE  KnownInv'
<1>0. TypeOK /\ NamedInv /\ TypeOK'
  BY TypeStep DEF StoreInv
<1>1. \A v \in Writers : v = w
  BY DEF OneProcess
<1>2. buf'[w] = <<>>
  <2>1. CASE Close(w) \/ Crash(w)
    BY <1>0, <2>1 DEF Close, Crash, Forget, TypeOK
  <2>2. CASE AppendIndex(w) \/ EndPrune(w)
    BY <1>0, <2>2 DEF AppendIndex, EndPrune, TypeOK
  <2>3. QED BY <2>1, <2>2 DEF KnownInv, Step, Open, Begin, WriteRecord, WriteRecordFails,
              AppendIndexFails, SelectVictims, EvictOne, EvictFails, Compare
<1>3. ASSUME pc'[w] # "down", NEW r \in LoadedIds', Readable(r)' PROVE r \in by_id'[w]
  <2>1. r \in Nat /\ Entry(r) \in Lines' /\ Tomb(r) \notin Lines'
    <3>1. LoadedIds' = {l.id : l \in {x \in Lines' : x.kind = "entry" /\ Tomb(x.id) \notin Lines'}}
      BY DEF LoadedIds, Indexed
    <3>2. \A x \in Lines' : x \in LineSet
      BY <1>0 DEF TypeOK, Lines
    <3>3. PICK x \in Lines' : x.kind = "entry" /\ Tomb(x.id) \notin Lines' /\ r = x.id
      BY <1>3, <3>1
    <3>4. x = Entry(x.id) /\ x.id \in Nat
      BY <3>2, <3>3, LineTypes
    <3>5. QED BY <3>3, <3>4
  <2>2. Entry(r) \in Held'
    BY <2>1 DEF Held
  <2>3. Entry(r) \in Held \/ (pc[w] = "index" /\ r = cur[w])
    <3>1. Entry(r) \in Held \/ New(w, Entry(r))
      BY <1>0, <2>2, HeldStep
    <3>2. QED BY <3>1 DEF New, Entry, Tomb, Junk
  <2>4. pc[w] # "down" \/ Open(w)
    BY DEF Step, Begin, WriteRecord, WriteRecordFails, AppendIndex, AppendIndexFails, SelectVictims,
           EvictOne, EvictFails, EndPrune, Compare, Close, Crash
  <2>5. CASE Entry(r) \in Held
    <3>1. Entry(r) \in Lines
      <4>1. Held = Lines
        BY <1>1 DEF Held, KnownInv, Ids
      <4>2. QED BY <2>5, <4>1
    <3>2. r \in LoadedIds
      BY <1>0, <2>1, <3>1, IndexGrows, LoadedEntry
    <3>3. Started(r)
      BY <1>0, <2>1, <2>5, LineTypes DEF NamedInv
    <3>4. Readable(r)
      BY <1>0, <1>3, <3>3, FilesStep
    <3>5. CASE Open(w)
      BY <1>0, <3>2, <3>5 DEF Open, TypeOK
    <3>6. CASE pc[w] # "down" /\ EvictOne(w)
      <4>1. r \in by_id[w]
        BY <3>2, <3>4, <3>6 DEF KnownInv
      <4>2. by_id'[w] = by_id[w] \ {Head(todo[w])} /\ r # Head(todo[w])
        BY <1>0, <1>3, <3>6 DEF EvictOne, RemoveFromIndex, TypeOK, Readable
      <4>3. QED BY <4>1, <4>2
    <3>7. CASE pc[w] # "down" /\ by_id[w] \subseteq by_id'[w]
      BY <3>2, <3>4, <3>7 DEF KnownInv
    <3>8. Open(w) \/ EvictOne(w) \/ by_id[w] \subseteq by_id'[w]
      <4>1. CASE Close(w) \/ Crash(w)
        BY <1>0, <1>3, <4>1 DEF Close, Crash, Forget, TypeOK
      <4>2. CASE AppendIndex(w)
        BY <1>0, <4>2 DEF AppendIndex, Remember, TypeOK
      <4>3. QED BY <4>1, <4>2 DEF Step, Begin, WriteRecord, WriteRecordFails, AppendIndexFails,
                  SelectVictims, EvictFails, EndPrune, Compare
    <3>9. QED BY <2>4, <3>5, <3>6, <3>7, <3>8
  <2>6. CASE pc[w] = "index" /\ r = cur[w]
    <3>1. AppendIndex(w)
      <4>1. ~Close(w) /\ ~Crash(w)
        BY <1>0, <1>3 DEF Close, Crash, Forget, TypeOK
      <4>2. QED BY <2>6, <4>1 DEF Step, Open, Begin, WriteRecord, WriteRecordFails, AppendIndexFails,
                  SelectVictims, EvictOne, EvictFails, EndPrune, Compare
    <3>2. QED BY <1>0, <2>6, <3>1 DEF AppendIndex, Remember, TypeOK
  <2>7. QED BY <2>3, <2>5, <2>6
<1>4. QED BY <1>1, <1>2, <1>3 DEF KnownInv

CapInv == StoreInv /\ GoneInv /\ PruneInv /\ CountInv /\ KnownInv

LEMMA CapHolds ==
  ASSUME OneProcess, Faults \subseteq {"Crash", "Torn"} PROVE Spec => []CapInv
<1>1. Init => CountInv /\ KnownInv
  BY DEF Init, CountInv, KnownInv, LoadedIds
<1>2. ASSUME StoreInv, GoneInv, PruneInv, CountInv, KnownInv, [Next]_vars
      PROVE  CountInv' /\ KnownInv'
  <2>1. CASE Next
    BY <1>2, <2>1, CountStep, KnownStep DEF Next
  <2>2. CASE UNCHANGED vars
    <3>1. /\ runs' = runs /\ files' = files /\ index' = index /\ pc' = pc /\ cur' = cur
          /\ by_id' = by_id /\ todo' = todo /\ buf' = buf
      BY <2>2 DEF vars, diskVars, procVars, ghosts
    <3>2. CountInv'
      BY <1>2, <3>1 DEF CountInv, Mine
    <3>3. LoadedIds' = LoadedIds /\ \A r : Readable(r)' <=> Readable(r)
      BY <3>1 DEF LoadedIds, Indexed, Lines, Readable
    <3>4. KnownInv'
      BY <1>2, <3>1, <3>3 DEF KnownInv
    <3>5. QED BY <3>2, <3>4
  <2>3. QED BY <1>2, <2>1, <2>2
<1>3. QED BY <1>1, <1>2, PruneHolds, PTL DEF Spec, CapInv

\* A process that has the store to itself and may die anywhere, leaving a half
\* line behind, keeps a model within keep_runs_per_model: when an append has
\* returned, no more of its records are on disk and indexed than the limit.
THEOREM HardCapHolds ==
  ASSUME OneProcess, Faults \subseteq {"Crash", "Torn"} PROVE Spec => []HardCap
<1>1. ASSUME CapInv PROVE HardCap
  <2> SUFFICES ASSUME NEW w \in Writers, pc[w] \in {"compare", "done"}
               PROVE  Cardinality({r \in LoadedIds : Readable(r) /\ runs[r].model = runs[cur[w]].model})
                        <= Limit
    BY DEF HardCap
  <2> DEFINE D == {r \in LoadedIds : Readable(r) /\ runs[r].model = runs[cur[w]].model}
  <2>1. D \in SUBSET Mine(w)
    BY <1>1 DEF CapInv, KnownInv, Mine
  <2>2. IsFiniteSet(Mine(w))
    BY <1>1, MineProperties DEF CapInv, Busy
  <2> HIDE DEF D
  <2>3. Cardinality(D) <= Cardinality(Mine(w)) /\ Cardinality(D) \in Nat /\ Cardinality(Mine(w)) \in Nat
    BY <2>1, <2>2, FS_Subset, FS_CardinalityType
  <2>4. Cardinality(Mine(w)) <= Limit /\ Limit \in Nat
    BY <1>1, StoreAssumption DEF CapInv, CountInv
  <2>5. Cardinality(D) <= Limit
    BY <2>3, <2>4
  <2>6. QED BY <2>5 DEF D
<1>2. QED BY <1>1, CapHolds, PTL

----------------------------------------------------------------------------
(* The store is a run history                                              *)

\* Where lines are written whole, what is in memory is in the index, and the
\* run whose entry comes next has its record.
WrittenInv ==
  /\ ~frag /\ Len(runs) <= MaxRuns
  /\ \A w \in Writers : /\ \A r \in by_id[w] : Entry(r) \in Lines
                        /\ pc[w] = "index" => Readable(cur[w])

\* The runs that have an entry, and those of them whose record loads.
Named == {r \in Nat : Entry(r) \in Lines}
Live  == {r \in Named : Readable(r)}

\* What is on record of a run.
Rec(r) == [id |-> r, model |-> runs[r].model, spawn |-> runs[r].spawn]

\* The refinement mapping in these terms.
MapInv == /\ OnRecord = {Rec(r) : r \in Live}
          /\ {r \in Runs : Entry(r) \in Lines} = Named
          /\ Named \subseteq 1 .. Len(runs)

\* A tombstone hides no record that loads.
LEMMA MapHolds == StoreInv /\ Len(runs) <= MaxRuns => MapInv
<1> SUFFICES ASSUME StoreInv, Len(runs) <= MaxRuns PROVE MapInv
  OBVIOUS
<1>1. TypeOK /\ NamedInv /\ DiskInv /\ Len(runs) \in Nat
  BY DEF StoreInv, TypeOK
<1>2. {x \in LoadedIds : Readable(x)} = Live
  <2>1. \A r \in LoadedIds : r \in Nat /\ Entry(r) \in Lines
    BY <1>1, LoadedEntry
  <2>2. ASSUME NEW r \in Live PROVE r \in LoadedIds
    <3>1. r \in Nat /\ Entry(r) \in Lines /\ r \in DOMAIN files
      BY DEF Live, Named, Readable
    <3>2. Tomb(r) \notin Lines
      BY <1>1, <3>1 DEF DiskInv, Held
    <3>3. QED BY <1>1, <3>1, <3>2, LoadedEntry
  <2>3. QED BY <2>1, <2>2 DEF Live, Named
<1>3. OnRecord = {Rec(r) : r \in Live}
  BY <1>2 DEF OnRecord, Rec
<1>4. Named \subseteq 1 .. Len(runs)
  <2> SUFFICES ASSUME NEW r \in Named PROVE r \in 1 .. Len(runs)
    OBVIOUS
  <2>1. Entry(r) \in Held /\ Entry(r).kind # "junk" /\ Entry(r).id = r
    BY LineTypes DEF Named, Held
  <2>2. QED BY <1>1, <2>1 DEF NamedInv, Started
<1>5. {r \in Runs : Entry(r) \in Lines} = Named
  <2>1. Runs \subseteq Nat /\ \A r \in 1 .. Len(runs) : r \in Runs
    BY <1>1, StoreAssumption DEF Runs
  <2>2. QED BY <1>4, <2>1 DEF Named
<1>6. QED BY <1>3, <1>4, <1>5 DEF MapInv

\* Lines written on a line of their own are all there.
LEMMA WholeLines ==
  ASSUME TypeOK, ~frag, NEW lines \in Seq(LineSet), Written(lines)
  PROVE  ~frag' /\ Lines' = Lines \cup Ids(lines)
<1>1. index' = index \o lines /\ ~frag'
  BY DEF Written, Landed
<1>2. index \in Seq(LineSet) /\ Junk \in LineSet
  BY LineTypes DEF TypeOK
<1>3. Ids(index \o lines) = Ids(index) \cup Ids(lines)
  BY <1>2, IdsProperties
<1>4. Lines' = Ids(index') /\ Lines = Ids(index)
  BY DEF Lines, Ids
<1>5. QED BY <1>1, <1>3, <1>4

\* The entry of the run in flight is written whole.
LEMMA EntryWritten ==
  ASSUME TypeOK, ~frag, NEW w \in Writers, AppendIndex(w)
  PROVE  Entry(cur[w]) \in Lines' /\ ~frag'
<1>1. buf[w] \in Seq(LineSet) /\ Entry(cur[w]) \in LineSet
  BY LineTypes DEF TypeOK
<1>2. /\ Append(buf[w], Entry(cur[w])) \in Seq(LineSet)
      /\ Ids(Append(buf[w], Entry(cur[w]))) = Ids(buf[w]) \cup {Entry(cur[w])}
  BY <1>1, IdsProperties
<1>3. Written(Append(buf[w], Entry(cur[w])))
  BY DEF AppendIndex
<1>4. QED BY <1>2, <1>3, WholeLines

LEMMA WrittenStep ==
  ASSUME OneProcess, Faults \subseteq {"Crash"}, StoreInv, WrittenInv, NEW w \in Writers, Step(w)
  PROVE  WrittenInv'
<1>0. TypeOK /\ \A v \in Writers : v = w
  BY DEF StoreInv, OneProcess
<1>1. Lines \subseteq Lines'
  BY <1>0, IndexGrows
<1>2. Len(runs') <= MaxRuns
  <2>1. CASE runs' = runs
    BY <2>1 DEF WrittenInv
  <2>2. ASSUME NEW m \in Models, NEW t \in Times, Begin(w, m, t) PROVE Len(runs') <= MaxRuns
    <3>1. Len(runs) < MaxRuns /\ Len(runs) \in Nat /\ MaxRuns \in Nat
      BY <1>0, <2>2, StoreAssumption DEF Begin, TypeOK
    <3> DEFINE x == [model |-> m, spawn |-> t]
    <3>2. runs \in Seq(RunSet) /\ x \in RunSet /\ runs' = Append(runs, x)
      BY <1>0, <2>2 DEF TypeOK, RunSet, Begin
    <3> HIDE DEF x
    <3>3. Len(runs') = Len(runs) + 1
      BY <3>2, AppendProperties, SMT
    <3>4. QED BY <3>1, <3>3
  <2>3. QED BY <1>0, <2>1, <2>2, PcStep
<1>3. ~frag'
  <2>1. \A lines : Written(lines) => ~frag'
    BY DEF Written, WrittenInv
  <2>2. CASE AppendIndex(w) \/ EndPrune(w) \/ Close(w)
    BY <2>1, <2>2 DEF AppendIndex, EndPrune, Close, WrittenInv
  <2>3. CASE Crash(w)
    BY <2>3 DEF Crash, WrittenInv
  <2>4. QED BY <2>2, <2>3 DEF WrittenInv, Step, Open, Begin, WriteRecord, WriteRecordFails,
              AppendIndexFails, SelectVictims, EvictOne, EvictFails, Compare, diskVars
<1>4. ASSUME NEW r \in by_id'[w] PROVE Entry(r) \in Lines'
  <2>1. CASE r \in by_id[w]
    BY <1>1, <2>1 DEF WrittenInv
  <2>2. CASE Open(w)
    <3>1. r \in LoadedIds
      BY <1>0, <1>4, <2>2 DEF Open, TypeOK
    <3>2. QED BY <1>0, <1>1, <3>1, LoadedEntry
  <2>3. CASE AppendIndex(w)
    <3>1. by_id'[w] = by_id[w] \cup {cur[w]}
      BY <1>0, <2>3 DEF AppendIndex, Remember, TypeOK
    <3>2. Entry(cur[w]) \in Lines'
      BY <1>0, <2>3, EntryWritten DEF WrittenInv
    <3>3. QED BY <1>4, <2>1, <3>1, <3>2
  <2>4. by_id'[w] \subseteq by_id[w] \/ Open(w) \/ AppendIndex(w)
    <3>1. CASE EvictOne(w)
      BY <1>0, <3>1 DEF EvictOne, RemoveFromIndex, TypeOK
    <3>2. CASE Close(w) \/ Crash(w)
      BY <1>0, <3>2 DEF Close, Crash, Forget, TypeOK
    <3>3. QED
      BY <3>1, <3>2 DEF Step, Begin, WriteRecord, WriteRecordFails, AppendIndexFails,
           SelectVictims, EvictFails, EndPrune, Compare
  <2>5. QED BY <1>4, <2>1, <2>2, <2>3, <2>4
<1>5. ASSUME pc'[w] = "index" PROVE Readable(cur[w])'
  <2>1. WriteRecord(w)
    BY <1>0, <1>5, PcStep
  <2>2. files' = FileWith(cur[w], "whole") /\ cur'[w] = cur[w]
    BY <2>1 DEF WriteRecord
  <2>3. QED BY <2>2 DEF Readable, FileWith
<1>6. QED BY <1>0, <1>2, <1>3, <1>4, <1>5 DEF WrittenInv

HistoryInv == CapInv /\ WrittenInv

LEMMA HistoryHolds ==
  ASSUME OneProcess, Faults \subseteq {"Crash"} PROVE Spec => []HistoryInv
<1>1. Init => WrittenInv
  BY StoreAssumption DEF Init, WrittenInv
<1>2. ASSUME StoreInv, WrittenInv, [Next]_vars PROVE WrittenInv'
  <2>1. CASE Next
    BY <1>2, <2>1, WrittenStep DEF Next
  <2>2. CASE UNCHANGED vars
    <3>1. /\ runs' = runs /\ files' = files /\ index' = index /\ frag' = frag /\ pc' = pc
          /\ cur' = cur /\ by_id' = by_id
      BY <2>2 DEF vars, diskVars, procVars, ghosts
    <3>2. QED BY <1>2, <3>1 DEF WrittenInv, Lines, Readable
  <2>3. QED BY <1>2, <2>1, <2>2
<1>3. Faults \subseteq {"Crash", "Torn"}
  OBVIOUS
<1>4. Spec => []CapInv
  BY <1>3, CapHolds
<1>5. CapInv => StoreInv
  BY DEF CapInv
<1>6. QED BY <1>1, <1>2, <1>4, <1>5, PTL DEF Spec, HistoryInv

\* Only an append names a run.
LEMMA NamedGrows ==
  ASSUME OneProcess, HistoryInv, NEW w \in Writers, Step(w)
  PROVE  \/ Named' = Named
         \/ AppendIndex(w) /\ Named' = Named \cup {cur[w]} /\ cur[w] \notin Named
<1>0. TypeOK /\ OnceInv /\ \A v \in Writers : v = w
  BY DEF HistoryInv, CapInv, StoreInv, OneProcess
<1>1. Lines \subseteq Lines'
  BY <1>0, IndexGrows
<1>2. Held = Lines
  BY <1>0 DEF Held, HistoryInv, CapInv, KnownInv, Ids
<1>3. ASSUME NEW r \in Nat, Entry(r) \in Lines'
      PROVE  Entry(r) \in Lines \/ (pc[w] = "index" /\ r = cur[w])
  <2>1. Entry(r) \in Held'
    BY <1>3 DEF Held
  <2>2. Entry(r) \in Held \/ New(w, Entry(r))
    BY <1>0, <2>1, HeldStep
  <2>3. QED BY <1>2, <2>2 DEF New, Entry, Tomb, Junk
<1>4. CASE AppendIndex(w)
  <2>1. pc[w] = "index" /\ cur[w] \in Nat
    BY <1>0, <1>4 DEF AppendIndex, TypeOK
  <2>2. Entry(cur[w]) \in Lines'
    BY <1>0, <1>4, EntryWritten DEF HistoryInv, WrittenInv
  <2>3. Entry(cur[w]) \notin Lines
    BY <1>0, <1>2, <2>1 DEF OnceInv
  <2>4. QED BY <1>1, <1>3, <1>4, <2>1, <2>2, <2>3 DEF Named
<1>5. CASE index' = index
  BY <1>5 DEF Named, Lines
<1>6. CASE pc[w] # "index"
  BY <1>1, <1>3, <1>6 DEF Named
<1>7. CASE pc[w] = "index" /\ ~AppendIndex(w)
  <2>1. Crash(w) \/ AppendIndexFails(w)
    <3>1. ~Close(w)
      BY <1>7 DEF Close
    <3>2. QED BY <1>7, <3>1 DEF Step, Open, Begin, WriteRecord, WriteRecordFails, SelectVictims, EvictOne,
                EvictFails, EndPrune, Compare
  <2>2. QED BY <1>5, <2>1 DEF Crash, AppendIndexFails, diskVars
<1>8. QED BY <1>4, <1>6, <1>7

\* A record that loads does so until a prune deletes it.
LEMMA ReadableStep ==
  ASSUME HistoryInv, NEW w \in Writers, Step(w), NEW r \in Named
  PROVE  /\ Started(r) /\ runs'[r] = runs[r]
         /\ Readable(r)' => Readable(r)
         /\ Readable(r) => Readable(r)' \/ (EvictOne(w) /\ r = Head(todo[w]))
<1>0. TypeOK /\ NamedInv /\ GoneInv
  BY DEF HistoryInv, CapInv, StoreInv
<1>1. Started(r)
  <2>1. Entry(r) \in Held /\ Entry(r).kind # "junk" /\ Entry(r).id = r
    BY LineTypes DEF Named, Held
  <2>2. QED BY <1>0, <2>1 DEF NamedInv
<1>2. runs'[r] = runs[r]
  BY <1>0, <1>1, StartedStable
<1>3. (Recorded(r) => Recorded(r)') /\ (Readable(r)' => Readable(r))
  BY <1>0, <1>1, FilesStep
<1>4. pruned' = pruned \/ (EvictOne(w) /\ pruned' \subseteq pruned \cup {Head(todo[w])})
  BY DEF Step, Open, Begin, WriteRecord, WriteRecordFails, AppendIndex, AppendIndexFails,
         SelectVictims, EvictOne, EvictFails, EndPrune, Compare, Close, Crash, ghosts
<1>5. ASSUME Readable(r), ~Readable(r)' PROVE EvictOne(w) /\ r = Head(todo[w])
  <2>1. r \in pruned'
    BY <1>3, <1>5 DEF Recorded
  <2>2. r \notin pruned
    BY <1>0, <1>5 DEF GoneInv, Readable
  <2>3. QED BY <1>4, <2>1, <2>2
<1>6. QED BY <1>1, <1>2, <1>3, <1>5

\* As many runs are on record as there are in a set of them.
LEMMA RecCardinality ==
  ASSUME NEW S, IsFiniteSet(S)
  PROVE  Cardinality({Rec(r) : r \in S}) = Cardinality(S)
<1> DEFINE T == {Rec(r) : r \in S}
           f == [r \in S |-> Rec(r)]
<1>1. \A r : Rec(r).id = r
  BY DEF Rec
<1>2. f \in Bijection(S, T)
  <2>1. f \in [S -> T] /\ \A x \in T : \E r \in S : f[r] = x
    OBVIOUS
  <2>2. \A a, b \in S : f[a] = f[b] => a = b
    BY <1>1
  <2>3. QED BY <2>1, <2>2 DEF Bijection, Injection, Surjection, IsInjective
<1>3. ExistsBijection(S, T)
  BY <1>2 DEF ExistsBijection
<1>4. QED BY <1>3, FS_Bijection

\* RunHistory counts as RunStore does.
LEMMA AbstractCardinality == ASSUME NEW S PROVE Abstract!Cardinality(S) = Cardinality(S)
  BY DEF Abstract!Cardinality, Cardinality

LEMMA HistoryMap == HistoryInv => MapInv
  BY MapHolds DEF HistoryInv, CapInv, WrittenInv

LEMMA HistoryMapNext == HistoryInv' => MapInv'
  BY HistoryMap, PTL

\* Every step records a run, evicts the oldest of a model, or changes nothing
\* that is on record.
LEMMA MapStep ==
  ASSUME OneProcess, Faults \subseteq {"Crash"}, HistoryInv, HistoryInv', NEW w \in Writers, Step(w)
  PROVE  Abstract!Next \/ UNCHANGED <<OnRecord, {r \in Runs : Entry(r) \in Lines}>>
<1> DEFINE Ever == {r \in Runs : Entry(r) \in Lines}
<1>0. StoreInv /\ TypeOK /\ WrittenInv
  BY DEF HistoryInv, CapInv, StoreInv
<1>1. MapInv /\ MapInv'
  BY HistoryMap, HistoryMapNext
<1>2. /\ OnRecord = {Rec(r) : r \in Live} /\ OnRecord' = {Rec(r) : r \in Live}'
      /\ Ever = Named /\ Ever' = Named' /\ Named \subseteq 1 .. Len(runs)
  BY <1>1 DEF MapInv
<1>3. \A r \in Named : /\ runs'[r] = runs[r]
                       /\ Readable(r)' => Readable(r)
                       /\ Readable(r) => Readable(r)' \/ (EvictOne(w) /\ r = Head(todo[w]))
  BY ReadableStep
<1>4. \A r \in Named : Rec(r)' = Rec(r)
  BY <1>3 DEF Rec
<1>5. OnRecord' = {[id |-> r, model |-> runs'[r].model, spawn |-> runs'[r].spawn] : r \in Live'}
  BY <1>2 DEF Rec
<1>6. OnRecord = {[id |-> r, model |-> runs[r].model, spawn |-> runs[r].spawn] : r \in Live}
  BY <1>2 DEF Rec
<1>7. Live \subseteq Named
  BY DEF Live
<1>8. CASE Named' = Named /\ Live' = Live
  <2>1. OnRecord' = OnRecord
    BY <1>3, <1>5, <1>6, <1>7, <1>8
  <2>2. QED BY <1>2, <1>8, <2>1
<1>9. CASE AppendIndex(w) /\ Named' = Named \cup {cur[w]} /\ cur[w] \notin Named
  <2> DEFINE c == cur[w]
             q == [id |-> c, model |-> runs[c].model, spawn |-> runs[c].spawn]
  <2>1. files' = files /\ runs' = runs /\ pc[w] = "index"
    BY <1>9 DEF AppendIndex
  <2>2. Readable(c)
    BY <1>0, <2>1 DEF WrittenInv
  <2>3. \A r : Readable(r)' <=> Readable(r)
    BY <2>1 DEF Readable
  <2>4. Live' = {r \in Named' : Readable(r)'}
    BY DEF Live
  <2>5. Live' = Live \cup {c}
    BY <1>9, <2>2, <2>3, <2>4 DEF Live
  <2>6. OnRecord' = OnRecord \cup {q}
    BY <1>5, <1>6, <2>1, <2>5
  <2>7. q.id \notin Ever /\ Ever' = Ever \cup {q.id} /\ q \in OnRecord'
    BY <1>2, <1>9, <2>6
  <2>8. Abstract!Record(q)
    BY <2>6, <2>7 DEF Abstract!Record
  <2>9. QED BY <2>7, <2>8 DEF Abstract!Next
<1>10. CASE Named' = Named /\ Live' # Live
  <2> DEFINE h == Head(todo[w])
             m == runs[cur[w]].model
             q == [id |-> h, model |-> runs[h].model, spawn |-> runs[h].spawn]
  <2>1. Live' = {r \in Named : Readable(r)'}
    BY <1>10 DEF Live
  <2>2. EvictOne(w) /\ h \in Named /\ Readable(h)
    BY <1>3, <1>10, <2>1 DEF Live
  <2>3. files' = [x \in DOMAIN files \ {h} |-> files[x]] /\ runs' = runs /\ pc[w] = "evict" /\ todo[w] # <<>>
    BY <2>2 DEF EvictOne
  <2>4. /\ h \in Mine(w) /\ \A x \in Mine(w) : Spares(w, h, x)
    <3>1. h \in DOMAIN files
      BY <2>2 DEF Readable
    <3>2. StoreInv /\ GoneInv /\ PruneInv
      BY DEF HistoryInv, CapInv
    <3>3. QED BY <2>2, <3>1, <3>2, EvictedIsFirst
  <2> HIDE DEF h
  <2>5. Live' = Live \ {h}
    <3>1. \A r : Readable(r)' <=> r # h /\ Readable(r)
      BY <2>3 DEF Readable
    <3>2. QED BY <2>1, <3>1 DEF Live
  <2>6. OnRecord' = OnRecord \ {q}
    BY <1>5, <1>6, <2>3, <2>5
  <2>7. q \in OnRecord
    BY <1>6, <2>2 DEF Live
  <2>8. {r \in Live : runs[r].model = m} = Mine(w)
    <3>1. ASSUME NEW r \in Live, runs[r].model = m PROVE r \in Mine(w)
      <4>1. r \in LoadedIds /\ Readable(r)
        <5>1. r \in Nat /\ Entry(r) \in Lines /\ Readable(r)
          BY DEF Live, Named
        <5>2. Tomb(r) \notin Lines
          BY <1>0, <5>1 DEF StoreInv, DiskInv, Held, Readable
        <5>3. QED BY <1>0, <5>1, <5>2, LoadedEntry
      <4>2. r \in by_id[w]
        BY <2>3, <4>1 DEF HistoryInv, CapInv, KnownInv
      <4>3. QED BY <3>1, <4>2 DEF Mine
    <3>2. ASSUME NEW r \in Mine(w) PROVE r \in Live /\ runs[r].model = m
      <4>1. r \in by_id[w] /\ Readable(r) /\ runs[r].model = m
        BY <2>4 DEF Mine, Spares, Get
      <4>2. Entry(r) \in Lines /\ r \in Nat
        BY <1>0, <4>1 DEF WrittenInv, TypeOK
      <4>3. QED BY <4>1, <4>2 DEF Live, Named
    <3>3. QED BY <3>1, <3>2
  <2>9. q.model = m
    BY <2>4 DEF Mine
  <2>10. Abstract!OfModel(q.model) = {Rec(r) : r \in Mine(w)}
    <3>1. Abstract!OfModel(q.model) = {x \in OnRecord : x.model = m}
      BY <2>9 DEF Abstract!OfModel
    <3>2. {x \in OnRecord : x.model = m} = {Rec(r) : r \in {y \in Live : runs[y].model = m}}
      BY <1>2 DEF Rec
    <3>3. QED BY <2>8, <3>1, <3>2
  <2>11. Cardinality(Abstract!OfModel(q.model)) > Limit
    <3>1. IsFiniteSet(Mine(w))
      BY <1>0, <2>3, MineProperties DEF Busy
    <3>2. Cardinality({Rec(r) : r \in Mine(w)}) = Cardinality(Mine(w))
      BY <3>1, RecCardinality
    <3>3. Cardinality(Mine(w)) = Limit + Len(todo[w])
      BY <2>3 DEF HistoryInv, CapInv, CountInv
    <3>4. Len(todo[w]) \in Nat \ {0}
      <4>1. todo[w] \in Seq(Nat)
        BY <1>0 DEF TypeOK
      <4>2. QED BY <2>3, <4>1
    <3>5. Limit \in Nat
      BY StoreAssumption
    <3>6. Limit + Len(todo[w]) > Limit
      BY <3>4, <3>5
    <3>7. QED BY <2>10, <3>2, <3>3, <3>6
  <2>12. \A x \in Abstract!OfModel(q.model) : q.spawn <= x.spawn
    <3> SUFFICES ASSUME NEW x \in {Rec(r) : r \in Mine(w)} PROVE q.spawn <= x.spawn
      BY <2>10
    <3>1. PICK r \in Mine(w) : x = Rec(r)
      OBVIOUS
    <3>2. runs[h].spawn <= runs[r].spawn
      BY <2>4 DEF Spares
    <3>3. QED BY <3>1, <3>2 DEF Rec
  <2>13. Abstract!Evict(q)
    <3>1. Ever' = Ever
      BY <1>2, <1>10
    <3> HIDE DEF q
    <3>2. QED BY <2>6, <2>7, <2>11, <2>12, <3>1, AbstractCardinality DEF Abstract!Evict
  <2>14. QED BY <2>7, <2>13 DEF Abstract!Next
<1>11. QED BY <1>8, <1>9, <1>10, NamedGrows

\* A store that one process uses at a time, which may die at any point and is
\* reopened, is a run history: records appear once and leave only when their
\* model is over keep_runs_per_model, the oldest first.
THEOREM StoreImplementsRunHistory ==
  ASSUME OneProcess, Faults \subseteq {"Crash"} PROVE Spec => ImplementsRunHistory
<1>1. Init => Abstract!Init
  <2> SUFFICES ASSUME Init PROVE Abstract!Init
    OBVIOUS
  <2>1. Lines = {}
    BY DEF Init, Lines
  <2>2. OnRecord = {} /\ {r \in Runs : Entry(r) \in Lines} = {}
    BY <2>1 DEF OnRecord, LoadedIds
  <2>3. QED BY <2>2 DEF Abstract!Init
<1>2. ASSUME HistoryInv, HistoryInv', [Next]_vars
      PROVE  Abstract!Next \/ UNCHANGED <<OnRecord, {r \in Runs : Entry(r) \in Lines}>>
  <2>1. CASE Next
    BY <1>2, <2>1, MapStep DEF Next
  <2>2. CASE UNCHANGED vars
    <3>1. runs' = runs /\ files' = files /\ index' = index
      BY <2>2 DEF vars, diskVars
    <3>2. QED BY <3>1 DEF OnRecord, LoadedIds, Lines, Indexed, Readable
  <2>3. QED BY <1>2, <2>1, <2>2
<1>3. QED BY <1>1, <1>2, HistoryHolds, PTL DEF Spec, ImplementsRunHistory, Abstract!Spec

=============================================================================
