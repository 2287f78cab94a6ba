--------------------------- MODULE ExecutorProofs ---------------------------
(***************************************************************************)
(* Proofs about Executor, for any number of requests, any batch size, any  *)
(* engines and any mixture of timeouts, flushes and discards.              *)
(***************************************************************************)
EXTENDS Executor, FiniteSetTheorems, WellFoundedInduction, TLAPS

PieceTypes ==
  /\ todo \in [Requests -> Seq(Pieces)] /\ batch \in Seq(Pieces)
  /\ hand \in [Emitters -> Seq(Pieces)]
  /\ cache \in Seq(Seq(Pieces)) /\ \A i \in DOMAIN cache : cache[i] # <<>>
  /\ pack \in Seq(Pieces)
  /\ given \in SUBSET Pieces /\ reports \in [Pieces -> Nat]
ControlTypes ==
  /\ strategy \in {"DYNAMIC", "STATIC"} /\ timeout \in BOOLEAN /\ first_item \in BOOLEAN
  /\ timer_id \in Nat /\ events \in SUBSET Nat /\ created \in Nat
  /\ tloop \in {"idle", "emit", "store"}
  /\ dispatch \in {"pop", "held", "wait", "got", "look", "idle held", "idle wait", "ended"}
  /\ idle \in Engines \cup {None} /\ task_num \in [Engines -> Int]
  /\ tasks \in SUBSET [engine : Engines, pack : Seq(Pieces), at : {"run", "reported", "announce"}]
  /\ IsFiniteSet(tasks)
  /\ owner \in {"linked", "emit", "notify", "join", "closing", "gone"}

\* The places where a piece can be between Upload and its report.
At(p, x) ==
  \/ x \in {"todo"} \X Requests /\ p \in PiecesOf(todo[x[2]])
  \/ x = <<"batch", 0>> /\ p \in PiecesOf(batch)
  \/ x \in {"hand"} \X Emitters /\ p \in PiecesOf(hand[x[2]])
  \/ x = <<"cache", 0>> /\ p \in PiecesIn(cache)
  \/ x = <<"pack", 0>> /\ p \in PiecesOf(pack)
  \/ x \in {"task"} \X tasks /\ x[2].at = "run" /\ p \in PiecesOf(x[2].pack)
Places ==
  UNION {{"todo"} \X Requests, {"batch", "cache", "pack"} \X {0}, {"hand"} \X Emitters,
         {"task"} \X tasks}

\* A piece is in one place, and only until it is reported.
OnePlace ==
  \A p \in Pieces : \A x \in Places : At(p, x) =>
    /\ p \in given /\ reports[p] = 0
    /\ \A y \in Places : At(p, y) => x = y

\* It is there once.
Distinct(s) == \A i, j \in DOMAIN s : s[i] = s[j] => i = j
DistinctIn(ss) ==
  \A i, j \in DOMAIN ss : \A k \in DOMAIN ss[i], l \in DOMAIN ss[j] :
    ss[i][k] = ss[j][l] => i = j /\ k = l
OnceThere ==
  /\ \A r \in Requests : Distinct(todo[r])
  /\ Distinct(batch)
  /\ \A e \in Emitters : Distinct(hand[e])
  /\ DistinctIn(cache)

\* The pieces of a request are uploaded together, before any of them is reported,
\* and enqueued by its sender.
UploadOK ==
  /\ \A p \in Pieces : p \notin given => reports[p] = 0
  /\ \A r \in Requests, i \in 1 .. DataNum : <<r, i>> \in given => <<r, 1>> \in given
  /\ \A r \in Requests : \A p \in PiecesOf(todo[r]) : p[1] = r

PieceInv == PieceTypes /\ ControlTypes /\ OnePlace /\ OnceThere /\ UploadOK

\* The destructor begins when all is reported, and goes on without the dispatch thread.
StopOK ==
  /\ owner # "linked" => \A p \in given : reports[p] > 0
  /\ owner \in {"closing", "gone"} => dispatch = "ended"

\* A package that counts in task_num_ is with the engine's nodes.
Counted(e) == {w \in tasks : w.engine = e /\ w.at # "announce"}
LoadOK ==
  /\ \A e \in Engines : Cardinality(Counted(e)) <= task_num[e]
  /\ owner = "gone" => \A w \in tasks : w.at = "announce"

\* With a timeout the batch begins with the item that starts the timer.
FirstOK == timeout /\ ~first_item => batch # <<>>

TimerInv == PieceInv /\ StopOK /\ FirstOK /\ BatchHasTimer
QuietInv == PieceInv /\ StopOK /\ LoadOK

-----------------------------------------------------------------------------
(* Sequences of pieces, and of packages                                     *)

LEMMA EmptyFacts ==
  /\ PiecesOf(<<>>) = {} /\ Distinct(<<>>) /\ <<>> \in Seq(Pieces)
  /\ PiecesIn(<<>>) = {} /\ DistinctIn(<<>>) /\ <<>> \in Seq(Seq(Pieces))
BY DEF PiecesOf, Distinct, PiecesIn, DistinctIn

LEMMA SomeFacts ==
  ASSUME NEW s \in Seq(Pieces)
  PROVE  /\ PiecesOf(s) \subseteq Pieces
         /\ PiecesOf(s) = {} => s = <<>>
         /\ s # <<>> => Len(s) \in Nat \ {0}
<1>1. \A i \in DOMAIN s : s[i] \in Pieces
  OBVIOUS
<1>2. s # <<>> => 1 \in DOMAIN s /\ Len(s) \in Nat \ {0}
  OBVIOUS
<1>. QED
  BY <1>1, <1>2 DEF PiecesOf

LEMMA AppendPiece ==
  ASSUME NEW s \in Seq(Pieces), NEW p \in Pieces
  PROVE  /\ Append(s, p) \in Seq(Pieces)
         /\ PiecesOf(Append(s, p)) = PiecesOf(s) \cup {p}
         /\ Distinct(s) /\ p \notin PiecesOf(s) => Distinct(Append(s, p))
<1>. DEFINE t == Append(s, p)
<1>1. /\ t \in Seq(Pieces) /\ Len(t) = Len(s) + 1 /\ Len(s) \in Nat
      /\ DOMAIN t = 1 .. Len(s) + 1 /\ DOMAIN s = 1 .. Len(s)
      /\ t[Len(s) + 1] = p /\ \A i \in 1 .. Len(s) : t[i] = s[i]
  OBVIOUS
<1>. HIDE DEF t
<1>2. PiecesOf(t) = PiecesOf(s) \cup {p}
  BY <1>1 DEF PiecesOf
<1>3. Distinct(s) /\ p \notin PiecesOf(s) => Distinct(t)
  <2>1. \A i \in DOMAIN t : i \in DOMAIN s \/ i = Len(s) + 1
    BY <1>1
  <2>. QED
    BY <1>1, <2>1 DEF PiecesOf, Distinct
<1>. QED
  BY <1>1, <1>2, <1>3 DEF t

\* Pieces that are cut off a sequence.
LEMMA CutFacts ==
  ASSUME NEW s \in Seq(Pieces), NEW m \in Nat \ {0}, NEW n \in Nat, n <= Len(s)
  PROVE  /\ SubSeq(s, m, n) \in Seq(Pieces)
         /\ PiecesOf(SubSeq(s, m, n)) \subseteq PiecesOf(s)
         /\ Distinct(s) => Distinct(SubSeq(s, m, n))
         /\ \A p \in PiecesOf(SubSeq(s, m, n)) : \E i \in m .. n : p = s[i]
<1>. DEFINE t == SubSeq(s, m, n)
<1>1. /\ DOMAIN s = 1 .. Len(s) /\ Len(s) \in Nat /\ \A i \in 1 .. Len(s) : s[i] \in Pieces
  OBVIOUS
<1>2. /\ t \in Seq(Pieces) /\ Len(t) = IF m <= n THEN n - m + 1 ELSE 0
      /\ DOMAIN t = 1 .. Len(t) /\ Len(t) \in Nat
      /\ \A i \in 1 .. Len(t) : t[i] = s[m + i - 1]
  BY <1>1
<1>. HIDE DEF t
<1>3. \A i \in DOMAIN t : m + i - 1 \in m .. n /\ m + i - 1 \in DOMAIN s
  BY <1>1, <1>2
<1>4. Distinct(s) => Distinct(t)
  <2>. SUFFICES ASSUME Distinct(s), NEW i \in DOMAIN t, NEW j \in DOMAIN t, t[i] = t[j]
                PROVE  i = j
    BY DEF Distinct
  <2>1. s[m + i - 1] = s[m + j - 1] /\ i \in Nat /\ j \in Nat
    BY <1>2
  <2>2. m + i - 1 = m + j - 1
    BY <1>3, <2>1 DEF Distinct
  <2>. QED
    BY <2>1, <2>2
<1>5. \A p \in PiecesOf(t) : \E i \in m .. n : p = s[i] /\ i \in DOMAIN s
  BY <1>2, <1>3 DEF PiecesOf
<1>6. PiecesOf(t) \subseteq PiecesOf(s)
  BY <1>5 DEF PiecesOf
<1>. QED
  BY <1>2, <1>4, <1>5, <1>6 DEF t

LEMMA HeadPiece ==
  ASSUME NEW s \in Seq(Pieces), s # <<>>
  PROVE  /\ Head(s) \in Pieces /\ Tail(s) \in Seq(Pieces)
         /\ Head(s) \in PiecesOf(s) /\ PiecesOf(Tail(s)) \subseteq PiecesOf(s)
         /\ Distinct(s) => Distinct(Tail(s)) /\ Head(s) \notin PiecesOf(Tail(s))
<1>1. /\ Len(s) \in Nat \ {0} /\ Head(s) = s[1] /\ 1 \in DOMAIN s /\ s[1] \in Pieces
      /\ Tail(s) = SubSeq(s, 2, Len(s)) /\ DOMAIN s = 1 .. Len(s)
  OBVIOUS
<1>2. /\ SubSeq(s, 2, Len(s)) \in Seq(Pieces)
      /\ PiecesOf(SubSeq(s, 2, Len(s))) \subseteq PiecesOf(s)
      /\ Distinct(s) => Distinct(SubSeq(s, 2, Len(s)))
      /\ \A p \in PiecesOf(SubSeq(s, 2, Len(s))) : \E i \in 2 .. Len(s) : p = s[i]
  <2>1. 2 \in Nat \ {0} /\ Len(s) \in Nat /\ Len(s) <= Len(s)
    BY <1>1
  <2>. QED
    BY <2>1, CutFacts
<1>3. Distinct(s) => \A i \in 2 .. Len(s) : s[i] # s[1]
  BY <1>1 DEF Distinct
<1>4. Head(s) \in PiecesOf(s)
  BY <1>1 DEF PiecesOf
<1>. QED
  BY <1>1, <1>2, <1>3, <1>4

LEMMA AppendPackage ==
  ASSUME NEW ss \in Seq(Seq(Pieces)), NEW b \in Seq(Pieces)
  PROVE  /\ Append(ss, b) \in Seq(Seq(Pieces))
         /\ PiecesIn(Append(ss, b)) = PiecesIn(ss) \cup PiecesOf(b)
         /\ DistinctIn(ss) /\ Distinct(b) /\ PiecesIn(ss) \cap PiecesOf(b) = {}
              => DistinctIn(Append(ss, b))
         /\ b # <<>> /\ (\A i \in DOMAIN ss : ss[i] # <<>>)
              => \A i \in DOMAIN Append(ss, b) : Append(ss, b)[i] # <<>>
<1>. DEFINE tt == Append(ss, b)
<1>1. /\ tt \in Seq(Seq(Pieces)) /\ Len(ss) \in Nat
      /\ DOMAIN tt = 1 .. Len(ss) + 1 /\ DOMAIN ss = 1 .. Len(ss)
      /\ tt[Len(ss) + 1] = b /\ \A i \in 1 .. Len(ss) : tt[i] = ss[i]
  OBVIOUS
<1>. HIDE DEF tt
<1>2. /\ \A i \in DOMAIN tt : i \in DOMAIN ss \/ i = Len(ss) + 1
      /\ \A i \in DOMAIN ss : i \in DOMAIN tt /\ tt[i] = ss[i] /\ i # Len(ss) + 1
      /\ Len(ss) + 1 \in DOMAIN tt
  BY <1>1
<1>3. PiecesIn(tt) = PiecesIn(ss) \cup PiecesOf(b)
  BY <1>1, <1>2 DEF PiecesIn
<1>4. ASSUME DistinctIn(ss), Distinct(b), PiecesIn(ss) \cap PiecesOf(b) = {}
      PROVE  DistinctIn(tt)
  <2>. SUFFICES ASSUME NEW i \in DOMAIN tt, NEW j \in DOMAIN tt,
                       NEW k \in DOMAIN tt[i], NEW l \in DOMAIN tt[j], tt[i][k] = tt[j][l]
                PROVE  i = j /\ k = l
    BY DEF DistinctIn
  <2>1. \A u \in DOMAIN ss : \A v \in DOMAIN ss[u], w \in DOMAIN b : ss[u][v] # b[w]
    <3>. TAKE u \in DOMAIN ss
    <3>. TAKE v \in DOMAIN ss[u], w \in DOMAIN b
    <3>1. ss[u][v] \in PiecesOf(ss[u]) /\ b[w] \in PiecesOf(b)
      BY DEF PiecesOf
    <3>2. ss[u][v] \in PiecesIn(ss)
      BY <3>1 DEF PiecesIn
    <3>. QED
      BY <1>4, <3>1, <3>2
  <2>2. CASE i \in DOMAIN ss /\ j \in DOMAIN ss
    BY <1>2, <1>4, <2>2 DEF DistinctIn
  <2>3. CASE i \in DOMAIN ss /\ j = Len(ss) + 1
    BY <1>1, <1>2, <2>1, <2>3
  <2>4. CASE i = Len(ss) + 1 /\ j \in DOMAIN ss
    BY <1>1, <1>2, <2>1, <2>4
  <2>5. CASE i = Len(ss) + 1 /\ j = Len(ss) + 1
    BY <1>1, <1>4, <2>5 DEF Distinct
  <2>. QED
    BY <1>2, <2>2, <2>3, <2>4, <2>5
<1>5. b # <<>> /\ (\A i \in DOMAIN ss : ss[i] # <<>>) => \A i \in DOMAIN tt : tt[i] # <<>>
  BY <1>1, <1>2
<1>. QED
  BY <1>1, <1>3, <1>4, <1>5 DEF tt

LEMMA HeadPackage ==
  ASSUME NEW ss \in Seq(Seq(Pieces)), ss # <<>>
  PROVE  /\ Head(ss) \in Seq(Pieces) /\ Tail(ss) \in Seq(Seq(Pieces))
         /\ PiecesOf(Head(ss)) \subseteq PiecesIn(ss) /\ PiecesIn(Tail(ss)) \subseteq PiecesIn(ss)
         /\ DistinctIn(ss) => /\ DistinctIn(Tail(ss))
                              /\ PiecesOf(Head(ss)) \cap PiecesIn(Tail(ss)) = {}
         /\ (\A i \in DOMAIN ss : ss[i] # <<>>) => \A i \in DOMAIN Tail(ss) : Tail(ss)[i] # <<>>
<1>. DEFINE tt == Tail(ss)
<1>1. /\ Len(ss) \in Nat \ {0} /\ Head(ss) = ss[1] /\ 1 \in DOMAIN ss /\ ss[1] \in Seq(Pieces)
      /\ tt \in Seq(Seq(Pieces)) /\ Len(tt) = Len(ss) - 1
      /\ DOMAIN ss = 1 .. Len(ss) /\ DOMAIN tt = 1 .. Len(ss) - 1
      /\ \A i \in 1 .. Len(ss) - 1 : tt[i] = ss[i + 1]
  OBVIOUS
<1>. HIDE DEF tt
<1>2. \A i \in DOMAIN tt : i \in Nat /\ tt[i] = ss[i + 1] /\ i + 1 \in DOMAIN ss /\ i + 1 # 1
  <2>1. \A i \in DOMAIN tt : i \in 1 .. Len(ss) - 1
    BY <1>1
  <2>2. \A i \in 1 .. Len(ss) - 1 : i \in Nat /\ i + 1 \in 1 .. Len(ss) /\ i + 1 # 1
    BY <1>1
  <2>. QED
    BY <1>1, <2>1, <2>2
<1>3. PiecesOf(Head(ss)) \subseteq PiecesIn(ss) /\ PiecesIn(tt) \subseteq PiecesIn(ss)
  <2>1. \A i \in DOMAIN ss : PiecesOf(ss[i]) \subseteq PiecesIn(ss)
    BY DEF PiecesIn
  <2>2. \A i \in DOMAIN tt : PiecesOf(tt[i]) \subseteq PiecesIn(ss)
    BY <1>2, <2>1
  <2>. QED
    BY <1>1, <2>1, <2>2 DEF PiecesIn
<1>4. DistinctIn(ss) => DistinctIn(tt)
  <2>. SUFFICES ASSUME DistinctIn(ss), NEW i \in DOMAIN tt, NEW j \in DOMAIN tt,
                       NEW k \in DOMAIN tt[i], NEW l \in DOMAIN tt[j], tt[i][k] = tt[j][l]
                PROVE  i = j /\ k = l
    BY DEF DistinctIn
  <2>1. i + 1 = j + 1 /\ k = l
    BY <1>2 DEF DistinctIn
  <2>. QED
    BY <1>2, <2>1
<1>5. DistinctIn(ss) => PiecesOf(Head(ss)) \cap PiecesIn(tt) = {}
  <2>. SUFFICES ASSUME DistinctIn(ss), NEW p \in PiecesOf(ss[1]), NEW i \in DOMAIN tt,
                       p \in PiecesOf(tt[i])
                PROVE  FALSE
    BY <1>1 DEF PiecesIn
  <2>1. PICK k \in DOMAIN ss[1] : p = ss[1][k]
    BY DEF PiecesOf
  <2>2. PICK m \in DOMAIN ss : m # 1 /\ tt[i] = ss[m]
    BY <1>2
  <2>3. PICK l \in DOMAIN ss[m] : p = ss[m][l]
    BY <2>2 DEF PiecesOf
  <2>4. \A u, v \in DOMAIN ss : \A x \in DOMAIN ss[u], y \in DOMAIN ss[v] :
          ss[u][x] = ss[v][y] => u = v
    BY DEF DistinctIn
  <2>. QED
    BY <1>1, <2>1, <2>2, <2>3, <2>4
<1>6. (\A i \in DOMAIN ss : ss[i] # <<>>) => \A i \in DOMAIN tt : tt[i] # <<>>
  BY <1>2
<1>. QED
  BY <1>1, <1>3, <1>4, <1>5, <1>6 DEF tt

-----------------------------------------------------------------------------
(* ClearDiscard                                                             *)

\* InOrder lists a set of cells, each once.
LEMMA Ranked ==
  ASSUME NEW S \in SUBSET (Nat \X Nat), IsFiniteSet(S)
  PROVE  /\ Cardinality(S) \in Nat /\ DOMAIN InOrder(S) = 1 .. Cardinality(S)
         /\ \A k \in 1 .. Cardinality(S) : InOrder(S)[k] \in S
         /\ \A k, l \in 1 .. Cardinality(S) : InOrder(S)[k] = InOrder(S)[l] => k = l
<1>. DEFINE n == Cardinality(S)
            B(c) == {d \in S : Earlier(d, c)}
            f == [c \in S |-> Cardinality(B(c))]
<1>1. n \in Nat
  BY FS_CardinalityType
<1>2. \A c \in S : /\ IsFiniteSet(B(c)) /\ Cardinality(B(c)) \in 0 .. n - 1
  <2>. SUFFICES ASSUME NEW c \in S
                PROVE  IsFiniteSet(B(c)) /\ Cardinality(B(c)) \in 0 .. n - 1
    OBVIOUS
  <2>1. ~ Earlier(c, c)
    <3>1. c[1] \in Nat /\ c[2] \in Nat
      OBVIOUS
    <3>. QED
      BY <3>1 DEF Earlier
  <2>2. B(c) \in SUBSET (S \ {c})
    BY <2>1
  <2>3. IsFiniteSet(S \ {c}) /\ Cardinality(S \ {c}) = n - 1
    BY FS_RemoveElement
  <2>4. IsFiniteSet(B(c)) /\ Cardinality(B(c)) <= n - 1
    BY <2>2, <2>3, FS_Subset
  <2>5. Cardinality(B(c)) \in Nat
    BY <2>4, FS_CardinalityType
  <2>. QED
    BY <1>1, <2>4, <2>5
<1>3. ASSUME NEW c \in S, NEW d \in S, Earlier(c, d)
      PROVE  Cardinality(B(c)) < Cardinality(B(d))
  <2>0. c[1] \in Nat /\ c[2] \in Nat /\ d[1] \in Nat /\ d[2] \in Nat
    OBVIOUS
  <2>1. c \in B(d) /\ c \notin B(c)
    BY <1>3, <2>0 DEF Earlier
  <2>2. \A b \in S : Earlier(b, c) => Earlier(b, d)
    <3>. SUFFICES ASSUME NEW b \in S, Earlier(b, c) PROVE Earlier(b, d)
      OBVIOUS
    <3>1. b[1] \in Nat /\ b[2] \in Nat
      OBVIOUS
    <3>. QED
      BY <1>3, <2>0, <3>1 DEF Earlier
  <2>3. B(c) \in SUBSET (B(d) \ {c})
    BY <2>1, <2>2
  <2>4. IsFiniteSet(B(d) \ {c}) /\ Cardinality(B(d) \ {c}) = Cardinality(B(d)) - 1
    BY <1>2, <2>1, FS_RemoveElement
  <2>5. Cardinality(B(c)) <= Cardinality(B(d)) - 1
    BY <2>3, <2>4, FS_Subset
  <2>. HIDE DEF B
  <2>. QED
    BY <1>1, <1>2, <2>5
<1>4. \A c, d \in S : Cardinality(B(c)) = Cardinality(B(d)) => c = d
  <2>. SUFFICES ASSUME NEW c \in S, NEW d \in S, c # d
                PROVE  Cardinality(B(c)) # Cardinality(B(d))
    OBVIOUS
  <2>1. c[1] \in Nat /\ c[2] \in Nat /\ d[1] \in Nat /\ d[2] \in Nat
        /\ c = <<c[1], c[2]>> /\ d = <<d[1], d[2]>>
    OBVIOUS
  <2>2. Earlier(c, d) \/ Earlier(d, c)
    BY <2>1 DEF Earlier
  <2>. HIDE DEF B
  <2>3. Cardinality(B(c)) \in Int /\ Cardinality(B(d)) \in Int
    BY <1>1, <1>2
  <2>. QED
    BY <1>3, <2>2, <2>3
<1>5. f \in Injection(S, 0 .. n - 1)
  <2>1. f \in [S -> 0 .. n - 1]
    BY <1>2
  <2>2. \A c, d \in S : f[c] = f[d] => c = d
    BY <1>4
  <2>. HIDE DEF f
  <2>. QED
    BY <2>1, <2>2 DEF Injection, IsInjective
<1>6. f \in Surjection(S, 0 .. n - 1)
  <2>1. IsFiniteSet(0 .. n - 1) /\ Cardinality(0 .. n - 1) = n
    <3>. HIDE DEF n
    <3>1. 0 \in Int /\ n - 1 \in Int
      BY <1>1
    <3>. QED
      BY <1>1, <3>1, FS_Interval
  <2>. DEFINE T == 0 .. n - 1
  <2>2. f \in Injection(S, T) /\ IsFiniteSet(T) /\ Cardinality(S) = Cardinality(T)
    BY <1>5, <2>1
  <2>. HIDE DEF f, T
  <2>3. f \in Surjection(S, T)
    BY <2>2, FS_Injection
  <2>. QED
    BY <2>3 DEF T
<1>7. \A m \in 0 .. n - 1 : \E c \in S : Cardinality(B(c)) = m
  <2>1. \A c \in S : f[c] = Cardinality(B(c))
    OBVIOUS
  <2>2. \A m \in 0 .. n - 1 : \E c \in S : f[c] = m
    <3>. HIDE DEF f
    <3>. QED
      BY <1>6 DEF Surjection
  <2>. QED
    BY <2>1, <2>2
<1>8. ASSUME NEW k \in 1 .. n
      PROVE  InOrder(S)[k] \in S /\ Cardinality(B(InOrder(S)[k])) = k - 1
  <2>1. k - 1 \in 0 .. n - 1
    BY <1>1
  <2>2. \E c \in S : Cardinality(B(c)) = k - 1
    BY <1>7, <2>1
  <2>3. InOrder(S)[k] = CHOOSE c \in S : Cardinality(B(c)) = k - 1
    BY DEF InOrder
  <2>. HIDE DEF B
  <2>. QED
    BY <2>2, <2>3
<1>9. DOMAIN InOrder(S) = 1 .. n
  BY DEF InOrder
<1>. HIDE DEF B
<1>10. \A k, l \in 1 .. n : InOrder(S)[k] = InOrder(S)[l] => k = l
  <2>. SUFFICES ASSUME NEW k \in 1 .. n, NEW l \in 1 .. n, InOrder(S)[k] = InOrder(S)[l]
                PROVE  k = l
    OBVIOUS
  <2>1. k - 1 = l - 1 /\ k \in Int /\ l \in Int
    BY <1>1, <1>8
  <2>. QED
    BY <2>1
<1>. QED
  BY <1>1, <1>8, <1>9, <1>10

LEMMA MinOfTwo ==
  ASSUME NEW a \in Int, NEW b \in Int
  PROVE  Min({a, b}) = IF a <= b THEN a ELSE b
BY DEF Min

LEMMA MinIn ==
  ASSUME NEW S \in SUBSET Nat, S # {}
  PROVE  Min(S) \in S
<1>. DEFINE R == {ss \in Nat \X Nat : ss[1] < ss[2]}
<1>1. IsWellFoundedOn(R, Nat)
  BY NatLessThanWellFounded DEF OpToRel
<1>2. \E x \in S : \A y \in S : ~(<<y, x>> \in R)
  <2>. HIDE DEF R
  <2>. QED
    BY <1>1, WFMin, Zenon
<1>3. PICK x \in S : \A y \in S : ~(<<y, x>> \in R)
  BY <1>2
<1>4. ASSUME NEW y \in S PROVE x <= y
  <2>1. ~(<<y, x>> \in R) /\ y \in Nat /\ x \in Nat
    BY <1>3
  <2>. QED
    BY <2>1
<1>. QED
  BY <1>4 DEF Min

\* The pieces of the package i of Rebatch(s) are those from Low(i) to High(s, i).
Low(i)     == (i - 1) * BatchSize + 1
High(s, i) == Min({i * BatchSize, Len(s)})
Number(s)  == (Len(s) + BatchSize - 1) \div BatchSize

LEMMA LowHigh ==
  ASSUME NEW s \in Seq(Pieces)
  PROVE  /\ Number(s) \in Nat
         /\ \A i \in 1 .. Number(s) :
              /\ Low(i) \in Nat \ {0} /\ High(s, i) \in Nat
              /\ Low(i) <= High(s, i) /\ High(s, i) <= Len(s)
         /\ \A i, j \in 1 .. Number(s) : i < j => High(s, i) < Low(j)
<1>. DEFINE n == Len(s)
            B == BatchSize
            q == Number(s)
<1>1. n \in Nat /\ B \in Nat \ {0}
  BY ExecutorAssumption
<1>. HIDE DEF n, B
<1>2. q \in Nat /\ q * B <= n + B - 1
  <2>. DEFINE m == n + B - 1
  <2>1. m \in Nat /\ q = m \div B
    BY <1>1 DEF Number, n, B
  <2>. HIDE DEF m, q
  <2>2. q \in Nat /\ q * B <= m
    BY <1>1, <2>1
  <2>. QED
    BY <2>2 DEF m
<1>. HIDE DEF q
<1>3. \A i, j \in Nat : i <= j => i * B <= j * B
  <2>. SUFFICES ASSUME NEW i \in Nat, NEW j \in Nat, i <= j PROVE i * B <= j * B
    OBVIOUS
  <2>1. PICK d \in Nat : j = i + d
    <3>1. j - i \in Nat /\ j = i + (j - i)
      OBVIOUS
    <3>. QED
      BY <3>1
  <2>2. (i + d) * B = i * B + d * B /\ d * B \in Nat /\ i * B \in Nat
    BY <1>1
  <2>. QED
    BY <2>1, <2>2
<1>4. ASSUME NEW i \in 1 .. q
      PROVE  /\ (i - 1) * B \in Nat /\ i * B \in Nat /\ i * B = (i - 1) * B + B
             /\ (i - 1) * B < n
  <2>1. i \in Nat /\ i - 1 \in Nat /\ i <= q
    BY <1>2
  <2>2. (i - 1) * B \in Nat /\ i * B \in Nat /\ i * B = (i - 1) * B + B
    BY <1>1, <2>1
  <2>3. i * B <= q * B /\ q * B \in Int
    BY <1>1, <1>2, <1>3, <2>1
  <2>. DEFINE a == i * B
              b == (i - 1) * B
              c == q * B
  <2>4. a \in Nat /\ b \in Nat /\ a = b + B /\ a <= c /\ c <= n + B - 1 /\ c \in Int
    BY <1>2, <2>2, <2>3
  <2>. HIDE DEF a, b, c
  <2>5. b < n
    BY <1>1, <2>4
  <2>. QED
    BY <2>2, <2>5 DEF b
<1>5. ASSUME NEW i \in 1 .. q
      PROVE  /\ Low(i) \in Nat \ {0} /\ High(s, i) \in Nat
             /\ Low(i) <= High(s, i) /\ High(s, i) <= n /\ High(s, i) <= i * B
  <2>. DEFINE a == i * B
              b == (i - 1) * B
  <2>1. a \in Nat /\ b \in Nat /\ a = b + B /\ b < n
    BY <1>4
  <2>2. Low(i) = b + 1 /\ High(s, i) = Min({a, n})
    BY DEF Low, High, B, n
  <2>. HIDE DEF a, b
  <2>3. Min({a, n}) = IF a <= n THEN a ELSE n
    BY <1>1, <2>1, MinOfTwo
  <2>4. /\ Low(i) \in Nat \ {0} /\ High(s, i) \in Nat
        /\ Low(i) <= High(s, i) /\ High(s, i) <= n /\ High(s, i) <= a
    BY <1>1, <2>1, <2>2, <2>3
  <2>. QED
    BY <2>4 DEF a
<1>6. ASSUME NEW i \in 1 .. q, NEW j \in 1 .. q, i < j
      PROVE  High(s, i) < Low(j)
  <2>1. i \in Nat /\ j - 1 \in Nat /\ i <= j - 1
    BY <1>2, <1>6
  <2>2. i * B <= (j - 1) * B
    BY <1>3, <2>1
  <2>. DEFINE a == i * B
              b == (j - 1) * B
  <2>3. a \in Nat /\ b \in Nat /\ a <= b /\ High(s, i) <= a /\ High(s, i) \in Nat
    BY <1>4, <1>5, <2>2
  <2>4. Low(j) = b + 1
    BY DEF Low, B
  <2>. HIDE DEF a, b
  <2>. QED
    BY <2>3, <2>4
<1>. QED
  BY <1>2, <1>5, <1>6 DEF n, q

LEMMA RebatchFacts ==
  ASSUME NEW s \in Seq(Pieces), Distinct(s)
  PROVE  /\ Rebatch(s) \in Seq(Seq(Pieces)) /\ \A i \in DOMAIN Rebatch(s) : Rebatch(s)[i] # <<>>
         /\ DistinctIn(Rebatch(s)) /\ PiecesIn(Rebatch(s)) \subseteq PiecesOf(s)
<1>. DEFINE q == Number(s)
            tt == Rebatch(s)
<1>1. q \in Nat /\ DOMAIN tt = 1 .. q /\ \A i \in 1 .. q : tt[i] = SubSeq(s, Low(i), High(s, i))
  BY LowHigh DEF Rebatch, Number, Low, High
<1>. HIDE DEF q, tt
<1>2. DOMAIN s = 1 .. Len(s) /\ Len(s) \in Nat
  OBVIOUS
<1>3. ASSUME NEW i \in 1 .. q
      PROVE  /\ Low(i) \in Nat \ {0} /\ High(s, i) \in Nat /\ Low(i) <= High(s, i)
             /\ tt[i] \in Seq(Pieces) /\ tt[i] # <<>>
             /\ PiecesOf(tt[i]) \subseteq PiecesOf(s) /\ Distinct(tt[i])
             /\ \A p \in PiecesOf(tt[i]) : \E k \in Low(i) .. High(s, i) : p = s[k] /\ k \in DOMAIN s
  <2>1. /\ Low(i) \in Nat \ {0} /\ High(s, i) \in Nat
        /\ Low(i) <= High(s, i) /\ High(s, i) <= Len(s)
    BY LowHigh DEF q
  <2>. DEFINE m == Low(i)
              h == High(s, i)
  <2>2. m \in Nat \ {0} /\ h \in Nat /\ m <= h /\ h <= Len(s)
    BY <2>1
  <2>3. tt[i] = SubSeq(s, m, h)
    BY <1>1
  <2>. HIDE DEF m, h
  <2>4. SubSeq(s, m, h) # <<>>
    BY <1>2, <2>2
  <2>5. /\ tt[i] \in Seq(Pieces) /\ PiecesOf(tt[i]) \subseteq PiecesOf(s) /\ Distinct(tt[i])
        /\ \A p \in PiecesOf(tt[i]) : \E k \in m .. h : p = s[k]
    BY <2>2, <2>3, CutFacts
  <2>6. \A k \in m .. h : k \in DOMAIN s
    BY <1>2, <2>2
  <2>. QED
    BY <2>1, <2>3, <2>4, <2>5, <2>6 DEF m, h
<1>4. tt \in Seq(Seq(Pieces))
  <2>1. tt \in [1 .. q -> Seq(Pieces)]
    <3>1. tt = [i \in 1 .. q |-> tt[i]]
      BY <1>1 DEF tt, Rebatch, q, Number
    <3>. QED
      BY <1>3, <3>1
  <2>. QED
    BY <1>1, <2>1
<1>5. PiecesIn(tt) \subseteq PiecesOf(s)
  BY <1>1, <1>3 DEF PiecesIn
<1>6. ASSUME NEW i \in 1 .. q, NEW j \in 1 .. q, i < j
      PROVE  PiecesOf(tt[i]) \cap PiecesOf(tt[j]) = {}
  <2>. SUFFICES ASSUME NEW p \in PiecesOf(tt[i]), p \in PiecesOf(tt[j]) PROVE FALSE
    OBVIOUS
  <2>1. PICK k \in Low(i) .. High(s, i) : p = s[k] /\ k \in DOMAIN s
    BY <1>3
  <2>2. PICK l \in Low(j) .. High(s, j) : p = s[l] /\ l \in DOMAIN s
    BY <1>3
  <2>3. k = l
    BY <2>1, <2>2 DEF Distinct
  <2>4. High(s, i) < Low(j)
    BY <1>6, LowHigh DEF q
  <2>. QED
    BY <1>3, <2>3, <2>4
<1>7. DistinctIn(tt)
  <2>. SUFFICES ASSUME NEW i \in DOMAIN tt, NEW j \in DOMAIN tt,
                       NEW k \in DOMAIN tt[i], NEW l \in DOMAIN tt[j], tt[i][k] = tt[j][l]
                PROVE  i = j /\ k = l
    BY DEF DistinctIn
  <2>1. tt[i][k] \in PiecesOf(tt[i]) /\ tt[j][l] \in PiecesOf(tt[j])
    BY DEF PiecesOf
  <2>2. i = j
    <3>1. ~ i < j /\ ~ j < i
      BY <1>1, <1>6, <2>1
    <3>. QED
      BY <1>1, <3>1
  <2>. QED
    BY <1>1, <1>3, <2>2 DEF Distinct
<1>. QED
  BY <1>1, <1>3, <1>4, <1>5, <1>7 DEF tt

LEMMA CellsFacts ==
  ASSUME PieceTypes, DistinctIn(cache)
  PROVE  /\ Cells \in SUBSET (Nat \X Nat) /\ IsFiniteSet(Cells)
         /\ \A c \in Cells : /\ c[1] \in DOMAIN cache /\ c[2] \in DOMAIN cache[c[1]]
                             /\ c = <<c[1], c[2]>>
                             /\ PieceAt(c) \in Pieces /\ PieceAt(c) \in PiecesIn(cache)
         /\ \A c, d \in Cells : PieceAt(c) = PieceAt(d) => c = d
<1>1. cache \in Seq(Seq(Pieces))
  BY DEF PieceTypes
<1>2. DOMAIN cache \subseteq Nat /\ \A i \in DOMAIN cache : cache[i] \in Seq(Pieces)
  BY <1>1
<1>3. \A i \in DOMAIN cache : DOMAIN cache[i] \subseteq Nat /\ \A j \in DOMAIN cache[i] : cache[i][j] \in Pieces
  BY <1>2
<1>4. \A c \in Cells : /\ c[1] \in DOMAIN cache /\ c[2] \in DOMAIN cache[c[1]]
                       /\ c = <<c[1], c[2]>>
  BY DEF Cells
<1>5. Cells \in SUBSET (Nat \X Nat)
  BY <1>2, <1>3, <1>4
<1>6. \A c \in Cells : PieceAt(c) \in Pieces /\ PieceAt(c) \in PiecesIn(cache)
  <2>. SUFFICES ASSUME NEW c \in Cells
                PROVE  PieceAt(c) \in Pieces /\ PieceAt(c) \in PiecesIn(cache)
    OBVIOUS
  <2>1. PieceAt(c) \in PiecesOf(cache[c[1]])
    BY <1>4 DEF PiecesOf, PieceAt
  <2>. QED
    BY <1>3, <1>4, <2>1 DEF PieceAt, PiecesIn
<1>7. \A c, d \in Cells : PieceAt(c) = PieceAt(d) => c = d
  <2>. SUFFICES ASSUME NEW c \in Cells, NEW d \in Cells, PieceAt(c) = PieceAt(d)
                PROVE  c = d
    OBVIOUS
  <2>1. c[1] = d[1] /\ c[2] = d[2]
    BY <1>4 DEF DistinctIn, PieceAt
  <2>. QED
    BY <1>4, <2>1
<1>8. IsFiniteSet(Cells)
  <2>1. IsFiniteSet(Pieces)
    <3>1. IsFiniteSet(Requests) /\ IsFiniteSet(1 .. DataNum)
      BY ExecutorAssumption, FS_Interval DEF Requests
    <3>. QED
      BY <3>1, FS_Product DEF Pieces
  <2>. DEFINE f == [c \in Cells |-> PieceAt(c)]
  <2>2. f \in [Cells -> Pieces] /\ DOMAIN f = Cells /\ \A c \in Cells : f[c] = PieceAt(c)
    BY <1>6
  <2>. HIDE DEF f
  <2>3. f \in Injection(Cells, Pieces)
    BY <1>7, <2>2 DEF Injection, IsInjective
  <2>. QED
    BY <2>1, <2>3, FS_Injection
<1>. QED
  BY <1>4, <1>5, <1>6, <1>7, <1>8

LEMMA KeptFacts ==
  ASSUME PieceTypes, ControlTypes, DistinctIn(cache)
  PROVE  /\ Kept \in Seq(Seq(Pieces)) /\ \A i \in DOMAIN Kept : Kept[i] # <<>>
         /\ DistinctIn(Kept) /\ PiecesIn(Kept) \subseteq PiecesIn(cache)
<1>. DEFINE S == {c \in Cells : ~Discarded(PieceAt(c)) /\ (strategy = "STATIC" => c[2] = 1)}
            live == InOrder(S)
            n == Cardinality(S)
<1>1. S \subseteq Cells /\ S \in SUBSET (Nat \X Nat) /\ IsFiniteSet(S)
  BY CellsFacts, FS_Subset
<1>2. /\ n \in Nat /\ DOMAIN live = 1 .. n
      /\ \A k \in 1 .. n : live[k] \in S
      /\ \A k, l \in 1 .. n : live[k] = live[l] => k = l
  <2>. HIDE DEF S
  <2>. QED
    BY <1>1, Ranked
<1>3. CASE strategy = "DYNAMIC"
  <2>. DEFINE s == [k \in DOMAIN live |-> PieceAt(live[k])]
  <2>1. Kept = Rebatch(s)
    BY <1>3 DEF Kept
  <2>2. DOMAIN s = 1 .. n /\ \A k \in 1 .. n : s[k] = PieceAt(live[k]) /\ live[k] \in Cells
    BY <1>1, <1>2
  <2>3. s \in Seq(Pieces)
    <3>1. s \in [1 .. n -> Pieces]
      BY <1>1, <1>2, CellsFacts
    <3>. QED
      BY <1>2, <3>1
  <2>. HIDE DEF live, s
  <2>4. Distinct(s)
    BY <1>2, <2>2, CellsFacts DEF Distinct
  <2>5. PiecesOf(s) \subseteq PiecesIn(cache)
    BY <2>2, CellsFacts DEF PiecesOf
  <2>. QED
    BY <2>1, <2>3, <2>4, <2>5, RebatchFacts
<1>4. CASE strategy = "STATIC"
  <2>. DEFINE tt == [k \in DOMAIN live |-> cache[live[k][1]]]
  <2>1. Kept = tt
    BY <1>4 DEF Kept
  <2>2. /\ DOMAIN tt = 1 .. n
        /\ \A k \in 1 .. n : /\ tt[k] = cache[live[k][1]] /\ live[k] \in Cells /\ live[k][2] = 1
    BY <1>1, <1>2, <1>4
  <2>3. /\ cache \in Seq(Seq(Pieces))
        /\ \A i \in DOMAIN cache : cache[i] # <<>> /\ cache[i] \in Seq(Pieces)
    BY DEF PieceTypes
  <2>4. \A k \in 1 .. n : live[k][1] \in DOMAIN cache
    BY <2>2, CellsFacts
  <2>5. tt \in Seq(Seq(Pieces))
    <3>1. tt \in [1 .. n -> Seq(Pieces)]
      BY <1>2, <2>3, <2>4
    <3>. QED
      BY <1>2, <3>1
  <2>6. \A k, l \in 1 .. n : live[k][1] = live[l][1] => k = l
    <3>. SUFFICES ASSUME NEW k \in 1 .. n, NEW l \in 1 .. n, live[k][1] = live[l][1]
                  PROVE  k = l
      OBVIOUS
    <3>1. live[k] = <<live[k][1], live[k][2]>> /\ live[l] = <<live[l][1], live[l][2]>>
      BY <2>2, CellsFacts
    <3>2. live[k] = live[l]
      BY <2>2, <3>1
    <3>. QED
      BY <1>2, <3>2
  <2>. HIDE DEF live, tt
  <2>7. DistinctIn(tt)
    <3>. SUFFICES ASSUME NEW i \in DOMAIN tt, NEW j \in DOMAIN tt,
                         NEW k \in DOMAIN tt[i], NEW l \in DOMAIN tt[j], tt[i][k] = tt[j][l]
                  PROVE  i = j /\ k = l
      BY DEF DistinctIn
    <3>. DEFINE a == live[i][1]
                b == live[j][1]
    <3>1. a \in DOMAIN cache /\ b \in DOMAIN cache /\ tt[i] = cache[a] /\ tt[j] = cache[b]
      BY <2>2, <2>4
    <3>. HIDE DEF a, b
    <3>2. a = b /\ k = l
      BY <3>1 DEF DistinctIn
    <3>. QED
      BY <2>2, <2>6, <3>2 DEF a, b
  <2>8. PiecesIn(tt) \subseteq PiecesIn(cache)
    <3>1. \A k \in DOMAIN tt : PiecesOf(tt[k]) \subseteq PiecesIn(cache)
      BY <2>2, <2>4 DEF PiecesIn
    <3>. QED
      BY <3>1 DEF PiecesIn
  <2>9. \A k \in DOMAIN tt : tt[k] # <<>>
    BY <2>2, <2>3, <2>4
  <2>. QED
    BY <2>1, <2>5, <2>7, <2>8, <2>9
<1>. QED
  BY <1>3, <1>4 DEF ControlTypes

-----------------------------------------------------------------------------
(* Type correctness                                                         *)

LEMMA Numbers ==
  /\ MaxRequest \in Nat /\ DataNum \in Nat \ {0} /\ BatchSize \in Nat \ {0}
  /\ Requests \subseteq Emitters
  /\ TimerThread \in Emitters /\ Flusher \in Emitters /\ Owner \in Emitters
  /\ Pieces = Requests \X (1 .. DataNum)
  /\ \A r \in Requests : <<r, 1>> \in Pieces
  /\ Engines # {} /\ \A S \in SUBSET Engines : S # {} => Min(S) \in S
<1>1. Engines \subseteq Nat
  BY ExecutorAssumption
<1>2. \A S \in SUBSET Engines : S # {} => Min(S) \in S
  BY <1>1, MinIn
<1>. QED
  BY <1>2, ExecutorAssumption DEF Requests, Emitters, Pieces

pieceVars == <<todo, batch, hand, cache, pack, tasks, given, reports>>

\* Notify keeps the types of what it changes.
LEMMA NotifyTypes ==
  ASSUME PieceTypes, ControlTypes, NEW e \in Emitters, NEW s \in Seq(Pieces), Notify(e, s)
  PROVE  /\ hand' \in [Emitters -> Seq(Pieces)] /\ batch' \in Seq(Pieces)
         /\ first_item' \in BOOLEAN
BY EmptyFacts DEF PieceTypes, ControlTypes, Notify

LEMMA ReportTypes ==
  ASSUME reports \in [Pieces -> Nat], NEW S, Report(S)
  PROVE  reports' \in [Pieces -> Nat]
BY DEF Report

LEMMA LoadTypes ==
  ASSUME task_num \in [Engines -> Int], NEW e \in Engines,
         task_num' = [task_num EXCEPT ![e] = @ + 1] \/ task_num' = [task_num EXCEPT ![e] = @ - 1]
  PROVE  task_num' \in [Engines -> Int]
<1>1. CASE task_num' = [task_num EXCEPT ![e] = @ + 1]
  BY <1>1
<1>2. CASE task_num' = [task_num EXCEPT ![e] = @ - 1]
  BY <1>2
<1>. QED
  BY <1>1, <1>2

\* The pieces of a package.
LEMMA PackageTypes ==
  ASSUME NEW r \in Requests
  PROVE  /\ [i \in 1 .. DataNum |-> <<r, i>>] \in Seq(Pieces)
         /\ {<<r, i>> : i \in 1 .. DataNum} \subseteq Pieces
<1>1. \A i \in 1 .. DataNum : <<r, i>> \in Pieces
  BY Numbers
<1>2. DataNum \in Nat
  BY ExecutorAssumption
<1>. DEFINE f == [i \in 1 .. DataNum |-> <<r, i>>]
<1>3. f \in [1 .. DataNum -> Pieces]
  BY <1>1
<1>. HIDE DEF f
<1>4. f \in Seq(Pieces)
  BY <1>2, <1>3
<1>. QED
  BY <1>1, <1>4 DEF f

LEMMA AddItemTypes ==
  ASSUME PieceTypes, ControlTypes, NEW r \in Requests, AddItem(r)
  PROVE  PieceTypes' /\ ControlTypes'
<1>. DEFINE items == Append(batch, Head(todo[r]))
<1>0. r \in Emitters /\ todo[r] \in Seq(Pieces) /\ todo[r] # <<>>
  BY Numbers DEF PieceTypes, AddItem
<1>1. Head(todo[r]) \in Pieces /\ Tail(todo[r]) \in Seq(Pieces)
  BY <1>0, HeadPiece
<1>2. items \in Seq(Pieces)
  BY <1>1 DEF PieceTypes
<1>3. todo' \in [Requests -> Seq(Pieces)]
  BY <1>1 DEF PieceTypes, AddItem
<1>4. timer_id' \in Nat /\ events' \in SUBSET Nat /\ created' \in Nat
  <2>1. Rearm \/ UNCHANGED timerVars
    BY DEF AddItem
  <2>2. timer_id \in Nat /\ events \in SUBSET Nat /\ created \in Nat
    BY DEF ControlTypes
  <2>3. CASE Rearm
    BY <2>2, <2>3 DEF Rearm
  <2>4. CASE UNCHANGED timerVars
    BY <2>2, <2>4 DEF timerVars
  <2>. QED
    BY <2>1, <2>3, <2>4
<1>5. hand' \in [Emitters -> Seq(Pieces)] /\ batch' \in Seq(Pieces) /\ first_item' \in BOOLEAN
  <2>1. CASE Len(items) >= BatchSize
    BY <1>0, <1>2, <2>1, NotifyTypes DEF AddItem
  <2>2. CASE ~(Len(items) >= BatchSize)
    BY <1>2, <2>2 DEF AddItem, PieceTypes, ControlTypes
  <2>. QED
    BY <2>1, <2>2
<1>6. UNCHANGED <<strategy, timeout, cache, pack, given, reports, tloop, dispatch, idle, task_num, tasks,
                  owner>>
  BY DEF AddItem, config, engineVars
<1>7. PieceTypes'
  BY <1>3, <1>5, <1>6 DEF PieceTypes
<1>8. ControlTypes'
  BY <1>4, <1>5, <1>6 DEF ControlTypes
<1>. QED
  BY <1>7, <1>8

LEMMA PushTypes ==
  ASSUME PieceTypes, ControlTypes, NEW s \in Seq(Pieces), s # <<>>, cache' = Append(cache, s)
  PROVE  cache' \in Seq(Seq(Pieces)) /\ \A i \in DOMAIN cache' : cache'[i] # <<>>
BY AppendPackage DEF PieceTypes

LEMMA PushStaticFacts ==
  ASSUME PieceTypes, ControlTypes, NEW r \in Requests, PushStatic(r)
  PROVE  \E n \in 1 .. Len(todo[r]) :
           /\ cache' = Append(cache, SubSeq(todo[r], 1, n))
           /\ todo' = [todo EXCEPT ![r] = SubSeq(@, n + 1, Len(@))]
           /\ SubSeq(todo[r], 1, n) \in Seq(Pieces) /\ SubSeq(todo[r], 1, n) # <<>>
           /\ SubSeq(todo[r], n + 1, Len(todo[r])) \in Seq(Pieces)
<1>. DEFINE s == todo[r]
            n == Min({BatchSize, Len(s)})
<1>1. s \in Seq(Pieces) /\ s # <<>> /\ Len(s) \in Nat \ {0} /\ BatchSize \in Nat \ {0}
  BY SomeFacts, Numbers DEF PieceTypes, PushStatic
<1>2. n \in 1 .. Len(s)
  <2>. HIDE DEF s
  <2>1. n = IF BatchSize <= Len(s) THEN BatchSize ELSE Len(s)
    BY <1>1, MinOfTwo
  <2>. HIDE DEF n
  <2>. QED
    BY <1>1, <2>1
<1>3. /\ cache' = Append(cache, SubSeq(s, 1, n))
      /\ todo' = [todo EXCEPT ![r] = SubSeq(@, n + 1, Len(@))]
  BY DEF PushStatic
<1>. HIDE DEF n
<1>4. /\ SubSeq(s, 1, n) \in Seq(Pieces) /\ SubSeq(s, 1, n) # <<>>
      /\ SubSeq(s, n + 1, Len(s)) \in Seq(Pieces)
  <2>. HIDE DEF s
  <2>. QED
    BY <1>1, <1>2
<1>. QED
  BY <1>2, <1>3, <1>4

\* A step that changes nothing of the control but the packages in the engines and task_num_.
LEMMA ControlKept ==
  ASSUME ControlTypes,
         UNCHANGED <<strategy, timeout, first_item, timer_id, events, created, tloop, dispatch, idle,
                     owner>>,
         task_num' \in [Engines -> Int], IsFiniteSet(tasks'),
         tasks' \in SUBSET [engine : Engines, pack : Seq(Pieces), at : {"run", "reported", "announce"}]
  PROVE  ControlTypes'
<1>1. /\ strategy' \in {"DYNAMIC", "STATIC"} /\ timeout' \in BOOLEAN /\ first_item' \in BOOLEAN
      /\ timer_id' \in Nat /\ events' \in SUBSET Nat /\ created' \in Nat
      /\ tloop' \in {"idle", "emit", "store"}
  BY DEF ControlTypes
<1>2. /\ dispatch' \in {"pop", "held", "wait", "got", "look", "idle held", "idle wait", "ended"}
      /\ idle' \in Engines \cup {None}
      /\ owner' \in {"linked", "emit", "notify", "join", "closing", "gone"}
  BY DEF ControlTypes
<1>. QED
  BY <1>1, <1>2 DEF ControlTypes

LEMMA TypesNext ==
  ASSUME PieceTypes, ControlTypes, DistinctIn(cache), Next
  PROVE  PieceTypes' /\ ControlTypes'
<1>. USE DEF PieceTypes, ControlTypes
<1>1. ASSUME NEW r \in Requests, Upload(r)
      PROVE  PieceTypes' /\ ControlTypes'
  BY <1>1, PackageTypes DEF Upload, config, batcherVars, timerVars, engineVars
<1>2. ASSUME NEW r \in Requests, AddItem(r)
      PROVE  PieceTypes' /\ ControlTypes'
  BY <1>2, AddItemTypes
<1>3. ASSUME NEW r \in Requests, PushStatic(r)
      PROVE  PieceTypes' /\ ControlTypes'
  <2>1. PICK n \in 1 .. Len(todo[r]) :
           /\ cache' = Append(cache, SubSeq(todo[r], 1, n))
           /\ todo' = [todo EXCEPT ![r] = SubSeq(@, n + 1, Len(@))]
           /\ SubSeq(todo[r], 1, n) \in Seq(Pieces) /\ SubSeq(todo[r], 1, n) # <<>>
           /\ SubSeq(todo[r], n + 1, Len(todo[r])) \in Seq(Pieces)
    BY <1>3, PushStaticFacts
  <2>2. cache' \in Seq(Seq(Pieces)) /\ \A i \in DOMAIN cache' : cache'[i] # <<>>
    BY <2>1, PushTypes
  <2>3. todo' \in [Requests -> Seq(Pieces)]
    BY <2>1
  <2>. QED
    BY <1>3, <2>2, <2>3 DEF PushStatic, config, batcherVars, timerVars, engineVars
<1>4. ASSUME NEW e \in Emitters, PushBatch(e)
      PROVE  PieceTypes' /\ ControlTypes'
  <2>1. cache' \in Seq(Seq(Pieces)) /\ \A i \in DOMAIN cache' : cache'[i] # <<>>
    BY <1>4, PushTypes DEF PushBatch
  <2>. QED
    BY <1>4, <2>1, EmptyFacts DEF PushBatch, config, batcherVars, timerVars, engineVars, callVars
<1>5. ASSUME NEW r \in Requests, Discard(r)
      PROVE  PieceTypes' /\ ControlTypes'
  <2>1. UNCHANGED <<config, running, cache, batcherVars, hand, timerVars, tloop, dispatch, pack, idle,
                    engineVars, owner, todo, given, reports>>
    BY <1>5 DEF Discard
  <2>2. UNCHANGED <<strategy, timeout, cache, batch, first_item, hand, timer_id, events, created, tloop,
                    dispatch, pack, idle, task_num, tasks, owner, todo, given, reports>>
    BY <2>1 DEF config, batcherVars, timerVars, engineVars
  <2>3. PieceTypes'
    BY <2>2
  <2>4. ControlTypes'
    BY <2>2, ControlKept
  <2>. QED
    BY <2>3, <2>4
<1>6. CASE FlushCache
  <2>1. hand' \in [Emitters -> Seq(Pieces)] /\ batch' \in Seq(Pieces) /\ first_item' \in BOOLEAN
    BY <1>6, Numbers, NotifyTypes DEF FlushCache, batcherVars
  <2>. QED
    BY <1>6, <2>1 DEF FlushCache, config, timerVars, engineVars
<1>7. CASE TimerStep
  <2>1. CASE TimerEmit
    <3>1. hand' \in [Emitters -> Seq(Pieces)] /\ batch' \in Seq(Pieces) /\ first_item' \in BOOLEAN
      BY <2>1, Numbers, NotifyTypes DEF TimerEmit
    <3>. QED
      BY <2>1, <3>1 DEF TimerEmit, config, timerVars, engineVars, callVars
  <2>2. CASE Fire
    BY <2>2 DEF Fire, config, batcherVars, engineVars, callVars
  <2>3. CASE TimerStore
    BY <2>3 DEF TimerStore, config, batcherVars, engineVars, callVars, None
  <2>. QED
    BY <1>4, <1>7, <2>1, <2>2, <2>3, Numbers DEF TimerStep
<1>8. CASE Pop
  <2>1. ASSUME NEW ss \in Seq(Seq(Pieces)), ss # <<>>, \A i \in DOMAIN ss : ss[i] # <<>>, Take(ss)
        PROVE  /\ pack' \in Seq(Pieces) /\ cache' \in Seq(Seq(Pieces))
               /\ \A i \in DOMAIN cache' : cache'[i] # <<>>
               /\ dispatch' = "got"
    BY <2>1, HeadPackage DEF Take
  <2>2. /\ pack' \in Seq(Pieces) /\ cache' \in Seq(Seq(Pieces))
        /\ \A i \in DOMAIN cache' : cache'[i] # <<>>
        /\ dispatch' \in {"held", "ended", "got", "pop"}
    BY <1>8, <2>1, KeptFacts, EmptyFacts DEF Pop
  <2>3. reports' \in [Pieces -> Nat]
    <3>1. ASSUME NEW S, Report(S) PROVE reports' \in [Pieces -> Nat]
      BY <3>1, ReportTypes
    <3>2. CASE UNCHANGED reports
      BY <3>2
    <3>. QED
      BY <1>8, <3>1, <3>2 DEF Pop
  <2>4. UNCHANGED <<strategy, timeout, batch, first_item, hand, timer_id, events, created, tloop, idle,
                    task_num, tasks, owner, todo, given>>
    BY <1>8 DEF Pop, config, batcherVars, timerVars, engineVars, callVars
  <2>5. PieceTypes'
    BY <2>2, <2>3, <2>4
  <2>6. ControlTypes'
    BY <2>2, <2>4
  <2>. QED
    BY <2>5, <2>6
<1>9. CASE Block
  BY <1>9 DEF Block, config, batcherVars, timerVars, engineVars, callVars
<1>10. CASE Dispatch
  <2>1. ASSUME NEW e \in Engines, Run(e)
        PROVE  /\ pack' \in Seq(Pieces) /\ task_num' \in [Engines -> Int] /\ dispatch' = "pop"
               /\ tasks' \in SUBSET [engine : Engines, pack : Seq(Pieces), at : {"run", "reported", "announce"}]
               /\ IsFiniteSet(tasks')
    <3>. DEFINE w == [engine |-> e, pack |-> pack, at |-> "run"]
    <3>1. w \in [engine : Engines, pack : Seq(Pieces), at : {"run", "reported", "announce"}]
      OBVIOUS
    <3>2. tasks' = tasks \cup {w} /\ pack' = <<>> /\ dispatch' = "pop"
          /\ task_num' = [task_num EXCEPT ![e] = @ + 1]
      BY <2>1 DEF Run
    <3>4. task_num' \in [Engines -> Int]
      BY <3>2, LoadTypes
    <3>. HIDE DEF w
    <3>3. IsFiniteSet(tasks')
      BY <3>2, FS_AddElement
    <3>. QED
      BY <3>1, <3>2, <3>3, <3>4, EmptyFacts
  <2>2. Free # {} => Min(Free) \in Engines
    <3>1. Free \in SUBSET Engines
      BY DEF Free
    <3>. QED
      BY <3>1, Numbers
  <2>3. /\ pack' \in Seq(Pieces) /\ task_num' \in [Engines -> Int]
        /\ dispatch' \in {"pop", "look", "idle held"}
        /\ tasks' \in SUBSET [engine : Engines, pack : Seq(Pieces), at : {"run", "reported", "announce"}]
        /\ IsFiniteSet(tasks') /\ idle' \in Engines \cup {None}
    BY <1>10, <2>1, <2>2 DEF Dispatch, engineVars
  <2>. QED
    BY <1>10, <2>3 DEF Dispatch, config, batcherVars, timerVars, callVars
<1>11. ASSUME NEW w \in tasks, Finish(w) \/ Decrement(w) \/ Announce(w)
       PROVE  PieceTypes' /\ ControlTypes'
  <2>1. IsFiniteSet(tasks \ {w}) /\ \A v : IsFiniteSet((tasks \ {w}) \cup {v})
    <3>1. IsFiniteSet(tasks \ {w})
      BY FS_RemoveElement
    <3>. QED
      BY <3>1, FS_AddElement
  <2>. DEFINE Rec == [engine : Engines, pack : Seq(Pieces), at : {"run", "reported", "announce"}]
              S == PiecesOf(w.pack)
  <2>5. w \in Rec /\ tasks \subseteq Rec
        /\ [w EXCEPT !.at = "reported"] \in Rec /\ [w EXCEPT !.at = "announce"] \in Rec
    OBVIOUS
  <2>2. CASE Finish(w)
    <3>1. /\ tasks' = (tasks \ {w}) \cup {[w EXCEPT !.at = "reported"]}
          /\ Report(S)
      BY <2>2 DEF Finish
    <3>2. tasks' \in SUBSET Rec /\ IsFiniteSet(tasks')
      BY <2>1, <2>5, <3>1
    <3>3. reports' \in [Pieces -> Nat]
      BY <3>1, ReportTypes
    <3>4. UNCHANGED <<strategy, timeout, cache, batch, first_item, hand, timer_id, events, created, tloop,
                      dispatch, pack, idle, task_num, owner, todo, given>>
      BY <2>2 DEF Finish, config, batcherVars, timerVars, callVars
    <3>5. PieceTypes'
      BY <3>3, <3>4
    <3>6. ControlTypes'
      BY <3>2, <3>3, <3>4, ControlKept
    <3>. QED
      BY <3>5, <3>6
  <2>3. CASE Decrement(w)
    <3>1. tasks' = (tasks \ {w}) \cup {[w EXCEPT !.at = "announce"]}
      BY <2>3 DEF Decrement
    <3>2. tasks' \in SUBSET Rec /\ IsFiniteSet(tasks')
      BY <2>1, <2>5, <3>1
    <3>3. task_num' \in [Engines -> Int]
      <4>1. w.engine \in Engines /\ task_num' = [task_num EXCEPT ![w.engine] = @ - 1]
        BY <2>3 DEF Decrement
      <4>. QED
        BY <4>1, LoadTypes
    <3>4. UNCHANGED <<strategy, timeout, cache, batch, first_item, hand, timer_id, events, created, tloop,
                      dispatch, pack, idle, owner, todo, given, reports>>
      BY <2>3 DEF Decrement, config, batcherVars, timerVars, callVars
    <3>5. PieceTypes'
      BY <3>3, <3>4
    <3>6. ControlTypes'
      BY <3>2, <3>3, <3>4, ControlKept
    <3>. QED
      BY <3>5, <3>6
  <2>4. CASE Announce(w)
    BY <2>1, <2>4 DEF Announce, config, batcherVars, timerVars, callVars
  <2>. QED
    BY <1>11, <2>2, <2>3, <2>4
<1>12. CASE Stop
  BY <1>12 DEF Stop, NotifyCache, config, batcherVars, timerVars, engineVars, callVars
<1>13. CASE OwnerStep
  <2>1. CASE StopEmit
    <3>1. hand' \in [Emitters -> Seq(Pieces)] /\ batch' \in Seq(Pieces) /\ first_item' \in BOOLEAN
      BY <2>1, Numbers, NotifyTypes DEF StopEmit
    <3>. QED
      BY <2>1, <3>1 DEF StopEmit, config, timerVars, engineVars, callVars
  <2>2. CASE StopNotify
    BY <2>2 DEF StopNotify, NotifyCache, config, batcherVars, timerVars, engineVars, callVars
  <2>3. CASE Join
    BY <2>3 DEF Join, config, batcherVars, engineVars, callVars, None
  <2>4. CASE Close
    BY <2>4 DEF Close, config, batcherVars, timerVars, engineVars, callVars
  <2>. QED
    BY <1>4, <1>13, <2>1, <2>2, <2>3, <2>4, Numbers DEF OwnerStep
<1>. QED
  BY <1>1, <1>2, <1>3, <1>4, <1>5, <1>6, <1>7, <1>8, <1>9, <1>10, <1>11, <1>12, <1>13, Numbers
     DEF Next, SenderStep, DispatchStep, EngineStep

-----------------------------------------------------------------------------
(* A piece is in one place.                                                 *)

LEMMA AtPlaces == \A p, x : At(p, x) => x \in Places
BY DEF At, Places

LEMMA AtPlacesNext == \A p, x : At(p, x)' => x \in Places'
BY DEF At, Places

\* A step takes the pieces of M to the place q and leaves the others where they are.
Takes(M, q) ==
  \A p \in Pieces : \A x : At(p, x)' =>
    /\ p \in given' /\ reports'[p] = 0
    /\ IF p \in M THEN x = q ELSE At(p, x)

LEMMA TakesKeeps ==
  ASSUME OnePlace, NEW M, NEW q, Takes(M, q)
  PROVE  OnePlace'
<1>. SUFFICES ASSUME NEW p \in Pieces, NEW x \in Places', At(p, x)'
              PROVE  /\ p \in given' /\ reports'[p] = 0
                     /\ \A y \in Places' : At(p, y)' => x = y
  BY DEF OnePlace
<1>1. p \in given' /\ reports'[p] = 0
  BY DEF Takes
<1>2. ASSUME NEW y \in Places', At(p, y)' PROVE x = y
  <2>1. CASE p \in M
    BY <1>2, <2>1 DEF Takes
  <2>2. CASE p \notin M
    <3>1. At(p, x) /\ At(p, y)
      BY <1>2, <2>2 DEF Takes
    <3>. QED
      BY <3>1, AtPlaces DEF OnePlace
  <2>. QED
    BY <2>1, <2>2
<1>. QED
  BY <1>1, <1>2

\* What OnePlace says of a piece that is somewhere.
LEMMA Somewhere ==
  ASSUME OnePlace, NEW p \in Pieces, NEW x, At(p, x)
  PROVE  p \in given /\ reports[p] = 0 /\ \A y : At(p, y) => y = x
BY AtPlaces DEF OnePlace

\* A step that leaves given and reports as they are, and every place with pieces
\* it had, except q, which may get those of M.
HeldSet(M) == \A p \in M : \E z : At(p, z)
Moves(M, q) == \A p \in Pieces : \A x : At(p, x)' => IF p \in M THEN x = q ELSE At(p, x)

LEMMA Leaves ==
  ASSUME OnePlace, given' = given, reports' = reports, NEW M, NEW q,
         HeldSet(M), Moves(M, q)
  PROVE  OnePlace'
<1>1. Takes(M, q)
  <2>. SUFFICES ASSUME NEW p \in Pieces, NEW x, At(p, x)'
                PROVE  p \in given' /\ reports'[p] = 0
    BY DEF Takes, Moves
  <2>0. IF p \in M THEN x = q ELSE At(p, x)
    BY DEF Moves
  <2>1. \E y : At(p, y)
    BY <2>0 DEF HeldSet
  <2>. QED
    BY <2>0, <2>1, Somewhere
<1>. QED
  BY <1>1, TakesKeeps

LEMMA NotifyPlace ==
  ASSUME PieceInv, NEW e \in Emitters, Notify(e, batch),
         UNCHANGED <<todo, cache, pack, tasks, given, reports>>
  PROVE  OnePlace'
<1>. DEFINE M == PiecesOf(batch)
            q == <<"hand", e>>
<1>1. hand' = [hand EXCEPT ![e] = batch] /\ batch' = <<>> /\ PiecesOf(batch') = {}
  BY EmptyFacts DEF Notify
<1>2. \A f \in Emitters : hand'[f] = IF f = e THEN batch ELSE hand[f]
  BY <1>1 DEF PieceInv, PieceTypes
<1>3. \A p \in M : At(p, <<"batch", 0>>)
  BY DEF At
<1>4. ASSUME NEW p \in Pieces, NEW x, At(p, x)'
      PROVE  IF p \in M THEN x = q ELSE At(p, x)
  <2>1. CASE x = q
    BY <1>1, <1>2, <1>4, <2>1 DEF At
  <2>2. CASE x # q
    <3>1. At(p, x) /\ x # <<"batch", 0>>
      BY <1>1, <1>2, <1>4, <2>2 DEF At, PiecesIn
    <3>2. p \notin M
      BY <1>3, <3>1, Somewhere DEF PieceInv
    <3>. QED
      BY <3>1, <3>2
  <2>. QED
    BY <2>1, <2>2
<1>5. Moves(M, q) /\ HeldSet(M)
  BY <1>3, <1>4 DEF Moves, HeldSet
<1>. HIDE DEF M, q
<1>. QED
  BY <1>5, Leaves DEF PieceInv

LEMMA AddItemPlace ==
  ASSUME PieceInv, NEW r \in Requests, AddItem(r)
  PROVE  OnePlace'
<1>. DEFINE a == Head(todo[r])
            items == Append(batch, a)
<1>0. /\ todo[r] \in Seq(Pieces) /\ todo[r] # <<>> /\ batch \in Seq(Pieces) /\ r \in Emitters
      /\ UNCHANGED <<cache, pack, tasks, given, reports>>
      /\ todo' = [todo EXCEPT ![r] = Tail(@)]
  BY Numbers DEF AddItem, PieceInv, PieceTypes, engineVars
<1>1. /\ a \in Pieces /\ a \in PiecesOf(todo[r]) /\ PiecesOf(Tail(todo[r])) \subseteq PiecesOf(todo[r])
      /\ a \notin PiecesOf(Tail(todo[r])) /\ PiecesOf(items) = PiecesOf(batch) \cup {a}
  BY <1>0, HeadPiece, AppendPiece DEF PieceInv, OnceThere
<1>2. \A f \in Requests : todo'[f] = IF f = r THEN Tail(todo[r]) ELSE todo[f]
  BY <1>0 DEF PieceInv, PieceTypes
<1>3. At(a, <<"todo", r>>) /\ \A p \in PiecesOf(batch) : At(p, <<"batch", 0>>)
  BY <1>1 DEF At
<1>4. UNCHANGED hand \/ hand' = [hand EXCEPT ![r] = items]
  BY DEF AddItem, Notify
<1>t. ASSUME NEW p \in Pieces, NEW x \in {"todo"} \X Requests, At(p, x)'
      PROVE  p # a /\ p \notin PiecesOf(batch) /\ At(p, x)
  <2>1. PICK f \in Requests : x = <<"todo", f>>
    OBVIOUS
  <2>2. p \in PiecesOf(todo'[f])
    BY <1>t, <2>1 DEF At
  <2>3. At(p, x) /\ (f = r => p # a)
    BY <1>1, <1>2, <2>1, <2>2 DEF At
  <2>4. p # a
    BY <1>3, <2>1, <2>3, Somewhere DEF PieceInv
  <2>5. p \notin PiecesOf(batch)
    BY <1>3, <2>1, <2>3, Somewhere DEF PieceInv
  <2>. QED
    BY <2>3, <2>4, <2>5
<1>o. ASSUME NEW p \in Pieces, NEW x, x \notin {"todo"} \X Requests, x # <<"batch", 0>>, At(p, x)
      PROVE  p # a /\ p \notin PiecesOf(batch)
  BY <1>3, <1>o, Somewhere DEF PieceInv
<1>5. CASE Len(items) >= BatchSize
  <2>. DEFINE M == PiecesOf(batch) \cup {a}
              q == <<"hand", r>>
  <2>1. hand' = [hand EXCEPT ![r] = items] /\ batch' = <<>> /\ PiecesOf(batch') = {}
    BY <1>5, EmptyFacts DEF AddItem, Notify
  <2>2. \A f \in Emitters : hand'[f] = IF f = r THEN items ELSE hand[f]
    BY <2>1 DEF PieceInv, PieceTypes
  <2>3. ASSUME NEW p \in Pieces, NEW x, At(p, x)'
        PROVE  IF p \in M THEN x = q ELSE At(p, x)
    <3>1. CASE x \in {"todo"} \X Requests
      BY <1>t, <2>3, <3>1
    <3>2. CASE x = q
      BY <1>0, <1>1, <2>2, <2>3, <3>2 DEF At
    <3>3. CASE x \notin {"todo"} \X Requests /\ x # q
      <4>1. At(p, x) /\ x # <<"batch", 0>>
        BY <1>0, <2>1, <2>2, <2>3, <3>3 DEF At, PiecesIn
      <4>. QED
        BY <1>o, <3>3, <4>1
    <3>. QED
      BY <3>1, <3>2, <3>3
  <2>4. Moves(M, q) /\ HeldSet(M)
    BY <1>3, <2>3 DEF Moves, HeldSet
  <2>. HIDE DEF M, q
  <2>. QED
    BY <1>0, <2>4, Leaves DEF PieceInv
<1>6. CASE ~(Len(items) >= BatchSize)
  <2>. DEFINE M == {a}
              q == <<"batch", 0>>
  <2>1. hand' = hand /\ batch' = items
    BY <1>6 DEF AddItem
  <2>2. ASSUME NEW p \in Pieces, NEW x, At(p, x)'
        PROVE  IF p \in M THEN x = q ELSE At(p, x)
    <3>1. CASE x \in {"todo"} \X Requests
      BY <1>t, <2>2, <3>1
    <3>2. CASE x = q
      BY <1>1, <2>1, <2>2, <3>2 DEF At
    <3>3. CASE x \notin {"todo"} \X Requests /\ x # q
      <4>1. At(p, x)
        BY <1>0, <2>1, <2>2, <3>3 DEF At, PiecesIn
      <4>. QED
        BY <1>o, <3>3, <4>1
    <3>. QED
      BY <3>1, <3>2, <3>3
  <2>3. Moves(M, q) /\ HeldSet(M)
    BY <1>3, <2>2 DEF Moves, HeldSet
  <2>. HIDE DEF M, q
  <2>. QED
    BY <1>0, <2>3, Leaves DEF PieceInv
<1>. QED
  BY <1>5, <1>6

LEMMA PushBatchPlace ==
  ASSUME PieceInv, NEW e \in Emitters, PushBatch(e)
  PROVE  OnePlace'
<1>. DEFINE M == PiecesOf(hand[e])
            q == <<"cache", 0>>
<1>1. /\ UNCHANGED <<todo, batch, pack, tasks, given, reports>>
      /\ hand' = [hand EXCEPT ![e] = <<>>] /\ cache' = Append(cache, hand[e])
  BY DEF PushBatch, batcherVars, engineVars, callVars
<1>2. \A f \in Emitters : hand'[f] = IF f = e THEN <<>> ELSE hand[f]
  BY <1>1 DEF PieceInv, PieceTypes
<1>3. PiecesIn(cache') = PiecesIn(cache) \cup M
  BY <1>1, AppendPackage DEF PieceInv, PieceTypes
<1>4. \A p \in M : At(p, <<"hand", e>>)
  BY DEF At
<1>5. ASSUME NEW p \in Pieces, NEW x, At(p, x)'
      PROVE  IF p \in M THEN x = q ELSE At(p, x)
  <2>1. CASE x = q
    BY <1>3, <1>5, <2>1 DEF At
  <2>2. CASE x # q
    <3>1. At(p, x) /\ x # <<"hand", e>>
      BY <1>1, <1>2, <1>5, <2>2, EmptyFacts DEF At
    <3>2. p \notin M
      BY <1>4, <3>1, Somewhere DEF PieceInv
    <3>. QED
      BY <3>1, <3>2
  <2>. QED
    BY <2>1, <2>2
<1>6. Moves(M, q) /\ HeldSet(M)
  BY <1>4, <1>5 DEF Moves, HeldSet
<1>. HIDE DEF M, q
<1>. QED
  BY <1>1, <1>6, Leaves DEF PieceInv

\* What PushStatic leaves to enqueue and what it takes are different pieces.
LEMMA SplitFacts ==
  ASSUME NEW s \in Seq(Pieces), Distinct(s), NEW n \in 1 .. Len(s)
  PROVE  /\ PiecesOf(SubSeq(s, 1, n)) \subseteq PiecesOf(s) /\ Distinct(SubSeq(s, 1, n))
         /\ PiecesOf(SubSeq(s, n + 1, Len(s))) \subseteq PiecesOf(s)
         /\ Distinct(SubSeq(s, n + 1, Len(s)))
         /\ PiecesOf(SubSeq(s, 1, n)) \cap PiecesOf(SubSeq(s, n + 1, Len(s))) = {}
<1>1. /\ Len(s) \in Nat /\ DOMAIN s = 1 .. Len(s) /\ n \in Nat /\ n <= Len(s)
      /\ 1 \in Nat \ {0} /\ n + 1 \in Nat \ {0}
  OBVIOUS
<1>. DEFINE a == SubSeq(s, 1, n)
            b == SubSeq(s, n + 1, Len(s))
<1>2. /\ PiecesOf(a) \subseteq PiecesOf(s) /\ Distinct(a)
      /\ \A p \in PiecesOf(a) : \E i \in 1 .. n : p = s[i]
  BY <1>1, CutFacts
<1>3. /\ PiecesOf(b) \subseteq PiecesOf(s) /\ Distinct(b)
      /\ \A p \in PiecesOf(b) : \E i \in n + 1 .. Len(s) : p = s[i]
  BY <1>1, CutFacts
<1>. HIDE DEF a, b
<1>4. ASSUME NEW p \in PiecesOf(a), p \in PiecesOf(b) PROVE FALSE
  <2>1. PICK i \in 1 .. n : p = s[i]
    BY <1>2
  <2>2. PICK j \in n + 1 .. Len(s) : p = s[j]
    BY <1>3, <1>4
  <2>3. i \in DOMAIN s /\ j \in DOMAIN s /\ i # j /\ s[i] = s[j]
    BY <1>1, <2>1, <2>2
  <2>. QED
    BY <2>3 DEF Distinct
<1>. QED
  BY <1>2, <1>3, <1>4 DEF a, b

LEMMA PushStaticPlace ==
  ASSUME PieceInv, NEW r \in Requests, PushStatic(r)
  PROVE  OnePlace'
<1>1. UNCHANGED <<hand, batch, pack, tasks, given, reports>>
  BY DEF PushStatic, batcherVars, engineVars
<1>2. PICK n \in 1 .. Len(todo[r]) :
           /\ cache' = Append(cache, SubSeq(todo[r], 1, n))
           /\ todo' = [todo EXCEPT ![r] = SubSeq(@, n + 1, Len(@))]
           /\ SubSeq(todo[r], 1, n) \in Seq(Pieces)
  BY PushStaticFacts DEF PieceInv
<1>. DEFINE b == SubSeq(todo[r], 1, n)
            c == SubSeq(todo[r], n + 1, Len(todo[r]))
            M == PiecesOf(b)
            q == <<"cache", 0>>
<1>3. /\ M \subseteq PiecesOf(todo[r]) /\ PiecesOf(c) \subseteq PiecesOf(todo[r]) /\ M \cap PiecesOf(c) = {}
  BY SplitFacts DEF PieceInv, PieceTypes, OnceThere
<1>4. \A f \in Requests : todo'[f] = IF f = r THEN c ELSE todo[f]
  BY <1>2 DEF PieceInv, PieceTypes
<1>5. PiecesIn(cache') = PiecesIn(cache) \cup M
  BY <1>2, AppendPackage DEF PieceInv, PieceTypes
<1>. HIDE DEF b, c
<1>6. \A p \in M : At(p, <<"todo", r>>)
  BY <1>3 DEF At
<1>. HIDE DEF M
<1>7. ASSUME NEW p \in Pieces, NEW x, At(p, x)'
      PROVE  IF p \in M THEN x = q ELSE At(p, x)
  <2>1. CASE x = q
    BY <1>5, <1>7, <2>1 DEF At
  <2>2. CASE x # q
    <3>1. At(p, x)
      BY <1>1, <1>3, <1>4, <1>7, <2>2 DEF At
    <3>2. x = <<"todo", r>> => p \in PiecesOf(c)
      BY <1>4, <1>7 DEF At
    <3>3. p \notin M
      <4>1. CASE x = <<"todo", r>>
        BY <1>3, <3>2, <4>1
      <4>2. CASE x # <<"todo", r>>
        BY <1>6, <3>1, <4>2, Somewhere DEF PieceInv
      <4>. QED
        BY <4>1, <4>2
    <3>. QED
      BY <3>1, <3>3
  <2>. QED
    BY <2>1, <2>2
<1>8. Moves(M, q) /\ HeldSet(M)
  BY <1>6, <1>7 DEF Moves, HeldSet
<1>. HIDE DEF q
<1>. QED
  BY <1>1, <1>8, Leaves DEF PieceInv

\* What Pop leaves in cache_ and takes from it were both in it, the pieces that it
\* reports are neither.
LEMMA PopFacts ==
  ASSUME PieceInv, Pop
  PROVE  \/ UNCHANGED <<cache, pack, reports>>
         \/ \E ss \in Seq(Seq(Pieces)) :
              /\ DistinctIn(ss) /\ PiecesIn(ss) \subseteq PiecesIn(cache)
              /\ \A i \in DOMAIN ss : ss[i] # <<>>
              /\ \/ ss # <<>> /\ pack' = Head(ss) /\ cache' = Tail(ss)
                 \/ ss = <<>> /\ UNCHANGED pack /\ cache' = ss
              /\ UNCHANGED reports \/ Report(PiecesIn(cache) \ PiecesIn(ss))
<1>. USE DEF PieceInv
<1>1. CASE cache = <<>>
  BY <1>1 DEF Pop
<1>2. CASE cache # <<>> /\ UNCHANGED reports /\ Take(cache)
  <2>1. /\ cache \in Seq(Seq(Pieces)) /\ DistinctIn(cache)
        /\ \A i \in DOMAIN cache : cache[i] # <<>>
    BY DEF PieceTypes, OnceThere
  <2>. QED
    BY <1>2, <2>1 DEF Take
<1>3. CASE /\ Report(PiecesIn(cache) \ PiecesIn(Kept))
           /\ \/ Kept # <<>> /\ Take(Kept)
              \/ Kept = <<>> /\ cache' = <<>> /\ UNCHANGED pack
  <2>1. /\ Kept \in Seq(Seq(Pieces)) /\ DistinctIn(Kept) /\ PiecesIn(Kept) \subseteq PiecesIn(cache)
        /\ \A i \in DOMAIN Kept : Kept[i] # <<>>
    BY KeptFacts DEF OnceThere
  <2>. QED
    BY <1>3, <2>1 DEF Take
<1>. QED
  BY <1>1, <1>2, <1>3 DEF Pop

LEMMA PopPlace ==
  ASSUME PieceInv, Pop
  PROVE  OnePlace'
<1>0. UNCHANGED <<todo, batch, hand, tasks, given>>
  BY DEF Pop, batcherVars, engineVars, callVars
<1>1. CASE UNCHANGED <<cache, pack, reports>>
  <2>1. Moves({}, 0) /\ HeldSet({})
    BY <1>0, <1>1 DEF Moves, HeldSet, At, PiecesIn
  <2>. QED
    BY <1>0, <1>1, <2>1, Leaves DEF PieceInv
<1>2. ASSUME NEW ss \in Seq(Seq(Pieces)), DistinctIn(ss), PiecesIn(ss) \subseteq PiecesIn(cache),
             \/ ss # <<>> /\ pack' = Head(ss) /\ cache' = Tail(ss)
             \/ ss = <<>> /\ UNCHANGED pack /\ cache' = ss,
             UNCHANGED reports \/ Report(PiecesIn(cache) \ PiecesIn(ss))
      PROVE  OnePlace'
  <2>. DEFINE M == IF ss # <<>> THEN PiecesOf(Head(ss)) ELSE {}
              q == <<"pack", 0>>
              C == <<"cache", 0>>
  <2>1. /\ M \subseteq PiecesIn(cache) /\ PiecesIn(cache') \subseteq PiecesIn(cache)
        /\ M \cap PiecesIn(cache') = {} /\ PiecesIn(cache') \subseteq PiecesIn(ss) /\ M \subseteq PiecesIn(ss)
        /\ \A p \in PiecesOf(pack') : p \in PiecesOf(pack) \/ p \in M
        /\ ss # <<>> => PiecesOf(pack') = M
        /\ ss = <<>> => pack' = pack
    BY <1>2, HeadPackage, EmptyFacts
  <2>2. \A p \in PiecesIn(cache) : At(p, C)
    BY DEF At
  <2>. HIDE DEF M
  <2>3. ASSUME NEW p \in Pieces, NEW x, At(p, x)'
        PROVE  /\ IF p \in M THEN x = q ELSE At(p, x)
               /\ p \in PiecesIn(cache) => p \in PiecesIn(ss)
    <3>1. CASE x = q
      <4>1. p \in PiecesOf(pack')
        BY <2>3, <3>1 DEF At
      <4>2. CASE p \in M
        BY <2>1, <3>1, <4>2
      <4>3. CASE p \notin M
        <5>1. At(p, q)
          BY <2>1, <4>1, <4>3 DEF At
        <5>2. p \notin PiecesIn(cache)
          BY <2>2, <5>1, Somewhere DEF PieceInv
        <5>. QED
          BY <3>1, <4>3, <5>1, <5>2
      <4>. QED
        BY <4>2, <4>3
    <3>2. CASE x = C
      <4>1. p \in PiecesIn(cache')
        BY <2>3, <3>2 DEF At
      <4>. QED
        BY <2>1, <2>2, <3>2, <4>1
    <3>3. CASE x # q /\ x # C
      <4>1. At(p, x)
        BY <1>0, <2>3, <3>3 DEF At
      <4>2. p \notin PiecesIn(cache)
        BY <2>2, <3>3, <4>1, Somewhere DEF PieceInv
      <4>. QED
        BY <2>1, <4>1, <4>2
    <3>. QED
      BY <3>1, <3>2, <3>3
  <2>4. ASSUME NEW p \in Pieces, NEW x, At(p, x)'
        PROVE  p \in given' /\ reports'[p] = 0
    <3>1. \E y : At(p, y)
      BY <2>1, <2>2, <2>3, <2>4
    <3>2. p \in given /\ reports[p] = 0
      BY <3>1, Somewhere DEF PieceInv
    <3>3. CASE UNCHANGED reports
      BY <1>0, <3>2, <3>3
    <3>4. CASE Report(PiecesIn(cache) \ PiecesIn(ss))
      <4>1. p \notin PiecesIn(cache) \ PiecesIn(ss)
        BY <2>3, <2>4
      <4>. QED
        BY <1>0, <3>2, <3>4, <4>1 DEF Report
    <3>. QED
      BY <1>2, <3>3, <3>4
  <2>5. Takes(M, q)
    BY <2>3, <2>4 DEF Takes
  <2>. HIDE DEF q
  <2>. QED
    BY <2>5, TakesKeeps DEF PieceInv
<1>. QED
  BY <1>1, <1>2, PopFacts

LEMMA RunPlace ==
  ASSUME PieceInv, NEW e \in Engines, Run(e),
         UNCHANGED <<todo, batch, hand, cache, given, reports>>
  PROVE  OnePlace'
<1>. DEFINE w == [engine |-> e, pack |-> pack, at |-> "run"]
            M == PiecesOf(pack)
            q == <<"task", w>>
<1>1. tasks' = tasks \cup {w} /\ pack' = <<>> /\ w.pack = pack
  BY DEF Run
<1>2. \A p \in M : At(p, <<"pack", 0>>)
  BY DEF At
<1>. HIDE DEF w
<1>3. ASSUME NEW p \in Pieces, NEW x, At(p, x)'
      PROVE  IF p \in M THEN x = q ELSE At(p, x)
  <2>1. CASE x = q
    BY <1>1, <1>3, <2>1 DEF At
  <2>2. CASE x # q
    <3>1. At(p, x) /\ x # <<"pack", 0>>
      BY <1>1, <1>3, <2>2, EmptyFacts DEF At, PiecesIn
    <3>2. p \notin M
      BY <1>2, <3>1, Somewhere DEF PieceInv
    <3>. QED
      BY <3>1, <3>2
  <2>. QED
    BY <2>1, <2>2
<1>4. Moves(M, q) /\ HeldSet(M)
  BY <1>2, <1>3 DEF Moves, HeldSet
<1>. HIDE DEF M, q
<1>. QED
  BY <1>4, Leaves DEF PieceInv

LEMMA FinishPlace ==
  ASSUME PieceInv, NEW w \in tasks, Finish(w)
  PROVE  OnePlace'
<1>. DEFINE M == PiecesOf(w.pack)
            v == [w EXCEPT !.at = "reported"]
<1>1. /\ UNCHANGED <<todo, batch, hand, cache, pack, given>>
      /\ tasks' = (tasks \ {w}) \cup {v} /\ Report(M) /\ w.at = "run"
  BY DEF Finish, batcherVars, callVars
<1>2. v.at = "reported"
  BY DEF PieceInv, ControlTypes
<1>3. \A p \in M : At(p, <<"task", w>>)
  BY <1>1 DEF At
<1>. HIDE DEF v
<1>4. ASSUME NEW p \in Pieces, NEW x, At(p, x)'
      PROVE  At(p, x) /\ x # <<"task", w>>
  BY <1>1, <1>2, <1>4 DEF At, PiecesIn
<1>5. ASSUME NEW p \in Pieces, NEW x, At(p, x)'
      PROVE  p \notin M /\ p \in given' /\ reports'[p] = 0
  <2>1. p \notin M
    BY <1>3, <1>4, <1>5, Somewhere DEF PieceInv
  <2>2. p \in given /\ reports[p] = 0
    BY <1>4, <1>5, Somewhere DEF PieceInv
  <2>. QED
    BY <1>1, <2>1, <2>2 DEF Report
<1>6. Takes(M, 0)
  BY <1>4, <1>5 DEF Takes
<1>. QED
  BY <1>6, TakesKeeps DEF PieceInv

LEMMA UploadPlace ==
  ASSUME PieceInv, NEW r \in Requests, Upload(r)
  PROVE  OnePlace'
<1>. DEFINE s == [i \in 1 .. DataNum |-> <<r, i>>]
            M == {<<r, i>> : i \in 1 .. DataNum}
            q == <<"todo", r>>
<1>1. /\ UNCHANGED <<batch, hand, cache, pack, tasks, reports>>
      /\ given' = given \cup M /\ todo' = [todo EXCEPT ![r] = s]
      /\ <<r, 1>> \notin given
  BY DEF Upload, batcherVars, engineVars, Requests
<1>2. PiecesOf(s) = M
  BY DEF PiecesOf
<1>3. \A p \in M : p \notin given
  BY <1>1 DEF PieceInv, UploadOK
<1>8. \A p \in Pieces : p \notin given => reports[p] = 0
  BY DEF PieceInv, UploadOK
<1>. HIDE DEF s, M
<1>4. \A f \in Requests : todo'[f] = IF f = r THEN s ELSE todo[f]
  BY <1>1 DEF PieceInv, PieceTypes
<1>5. ASSUME NEW p \in Pieces, NEW x, At(p, x)'
      PROVE  IF p \in M THEN x = q ELSE At(p, x)
  <2>1. CASE x = q
    BY <1>2, <1>4, <1>5, <2>1 DEF At
  <2>2. CASE x # q
    <3>1. At(p, x)
      BY <1>1, <1>4, <1>5, <2>2 DEF At, PiecesIn
    <3>2. p \notin M
      BY <1>3, <3>1, Somewhere DEF PieceInv
    <3>. QED
      BY <3>1, <3>2
  <2>. QED
    BY <2>1, <2>2
<1>6. ASSUME NEW p \in Pieces, NEW x, At(p, x)'
      PROVE  p \in given' /\ reports'[p] = 0
  <2>1. CASE p \in M
    BY <1>1, <1>3, <1>8, <2>1
  <2>2. CASE p \notin M
    <3>1. At(p, x)
      BY <1>5, <1>6, <2>2
    <3>. QED
      BY <1>1, <3>1, Somewhere DEF PieceInv
  <2>. QED
    BY <2>1, <2>2
<1>7. Takes(M, q)
  BY <1>5, <1>6 DEF Takes
<1>. HIDE DEF q
<1>. QED
  BY <1>7, TakesKeeps DEF PieceInv

\* All other steps move no piece: at most they change what a package in an
\* engine counts for.
LEMMA StillPlace ==
  ASSUME PieceInv, UNCHANGED <<todo, batch, hand, cache, pack, given, reports>>,
         \A w \in tasks' : w.at = "run" => w \in tasks
  PROVE  OnePlace'
<1>1. Moves({}, 0) /\ HeldSet({})
  BY DEF Moves, HeldSet, At, PiecesIn
<1>. QED
  BY <1>1, Leaves DEF PieceInv

LEMMA EngineStill ==
  ASSUME PieceInv, NEW w \in tasks, Decrement(w) \/ Announce(w)
  PROVE  /\ UNCHANGED <<todo, batch, hand, cache, pack, given, reports>>
         /\ \A v \in tasks' : v.at = "run" => v \in tasks
<1>1. CASE Decrement(w)
  <2>1. tasks' = (tasks \ {w}) \cup {[w EXCEPT !.at = "announce"]}
    BY <1>1 DEF Decrement
  <2>2. [w EXCEPT !.at = "announce"].at = "announce"
    BY DEF PieceInv, ControlTypes
  <2>3. UNCHANGED <<todo, batch, hand, cache, pack, given, reports>>
    BY <1>1 DEF Decrement, batcherVars, callVars
  <2>. QED
    BY <2>1, <2>2, <2>3
<1>2. CASE Announce(w)
  BY <1>2 DEF Announce, batcherVars, callVars
<1>. QED
  BY <1>1, <1>2

\* A step moves no piece, or is one of the steps treated above.
LEMMA StepKinds ==
  ASSUME PieceInv, Next
  PROVE  \/ \E r \in Requests : Upload(r) \/ AddItem(r) \/ PushStatic(r)
         \/ \E e \in Emitters : PushBatch(e)
         \/ \E e \in Emitters : /\ Notify(e, batch)
                                /\ UNCHANGED <<todo, cache, pack, tasks, given, reports>>
         \/ Pop
         \/ \E e \in Engines : Run(e) /\ UNCHANGED <<todo, batch, hand, cache, given, reports>>
         \/ \E w \in tasks : Finish(w)
         \/ /\ UNCHANGED <<todo, batch, hand, cache, pack, given, reports>>
            /\ \A w \in tasks' : w.at = "run" => w \in tasks
<1>. DEFINE Still == /\ UNCHANGED <<todo, batch, hand, cache, pack, given, reports>>
                     /\ \A w \in tasks' : w.at = "run" => w \in tasks
<1>1. ASSUME NEW r \in Requests, Discard(r) PROVE Still
  BY <1>1 DEF Discard, batcherVars, engineVars
<1>2. CASE FlushCache
  <2>1. CASE strategy = "DYNAMIC"
    BY <1>2, <2>1, Numbers DEF FlushCache, engineVars
  <2>2. CASE strategy # "DYNAMIC"
    <3>1. Still
      BY <1>2, <2>2 DEF FlushCache, batcherVars, engineVars
    <3>. QED
      BY <3>1
  <2>. QED
    BY <2>1, <2>2
<1>3. Fire \/ TimerStore => Still
  BY DEF Fire, TimerStore, batcherVars, engineVars, callVars
<1>4. CASE TimerEmit
  BY <1>4, Numbers DEF TimerEmit, engineVars, callVars
<1>5. CASE StopEmit
  BY <1>5, Numbers DEF StopEmit, engineVars, callVars
<1>6. Block => Still
  BY DEF Block, batcherVars, engineVars, callVars
<1>7. CASE Dispatch
  <2>1. UNCHANGED <<todo, batch, hand, cache, given, reports>>
    BY <1>7 DEF Dispatch, batcherVars, callVars
  <2>2. \/ \E e \in Engines : Run(e)
        \/ UNCHANGED <<pack, engineVars>>
    <3>1. Free # {} => Min(Free) \in Engines
      <4>1. Free \in SUBSET Engines
        BY DEF Free
      <4>. QED
        BY <4>1, Numbers
    <3>2. idle # None => idle \in Engines
      BY DEF PieceInv, ControlTypes
    <3>. QED
      BY <1>7, <3>1, <3>2 DEF Dispatch
  <2>3. UNCHANGED <<pack, engineVars>> => Still
    BY <2>1 DEF engineVars
  <2>. QED
    BY <2>1, <2>2, <2>3
<1>8. Stop \/ StopNotify => Still
  BY DEF Stop, StopNotify, batcherVars, engineVars, callVars
<1>9. Join \/ Close => Still
  BY DEF Join, Close, batcherVars, engineVars, callVars
<1>10. ASSUME NEW w \in tasks, Decrement(w) \/ Announce(w) PROVE Still
  BY <1>10, EngineStill
<1>. HIDE DEF Still
<1>11. CASE Still
  BY <1>11 DEF Still
<1>. QED
  BY <1>1, <1>2, <1>3, <1>4, <1>5, <1>6, <1>7, <1>8, <1>9, <1>10, <1>11, Numbers
     DEF Next, SenderStep, TimerStep, DispatchStep, EngineStep, OwnerStep

LEMMA PlaceNext ==
  ASSUME PieceInv, Next
  PROVE  OnePlace'
BY StepKinds, UploadPlace, AddItemPlace, PushStaticPlace, PushBatchPlace, NotifyPlace, PopPlace,
   RunPlace, FinishPlace, StillPlace

-----------------------------------------------------------------------------
(* It is there once.                                                        *)

LEMMA OnceUpload ==
  ASSUME PieceInv, NEW r \in Requests, Upload(r)
  PROVE  OnceThere' /\ UploadOK'
<1>. DEFINE s == [i \in 1 .. DataNum |-> <<r, i>>]
            M == {<<r, i>> : i \in 1 .. DataNum}
<1>1. /\ UNCHANGED <<batch, hand, cache, reports>>
      /\ given' = given \cup M /\ todo' = [todo EXCEPT ![r] = s]
  BY DEF Upload, batcherVars
<1>2. Distinct(s) /\ PiecesOf(s) = M /\ \A p \in M : p[1] = r
  BY DEF Distinct, PiecesOf
<1>3. \A q \in Requests, i \in 1 .. DataNum : <<q, i>> \in M => q = r
  OBVIOUS
<1>4. <<r, 1>> \in M
  BY ExecutorAssumption
<1>. HIDE DEF s, M
<1>5. \A f \in Requests : todo'[f] = IF f = r THEN s ELSE todo[f]
  BY <1>1 DEF PieceInv, PieceTypes
<1>6. OnceThere'
  BY <1>1, <1>2, <1>5 DEF PieceInv, OnceThere
<1>7. \A p \in Pieces : p \notin given' => reports'[p] = 0
  BY <1>1 DEF PieceInv, UploadOK
<1>8. \A q \in Requests, i \in 1 .. DataNum : <<q, i>> \in given' => <<q, 1>> \in given'
  BY <1>1, <1>3, <1>4 DEF PieceInv, UploadOK
<1>9. \A q \in Requests : \A p \in PiecesOf(todo'[q]) : p[1] = q
  BY <1>2, <1>5 DEF PieceInv, UploadOK
<1>10. UploadOK'
  BY <1>7, <1>8, <1>9 DEF UploadOK
<1>. QED
  BY <1>6, <1>10

\* A step that uploads nothing and reports only what was uploaded.
LEMMA UploadKept ==
  ASSUME PieceInv, UNCHANGED given,
         \A p \in Pieces : p \notin given => reports'[p] = reports[p],
         \A r \in Requests : PiecesOf(todo'[r]) \subseteq PiecesOf(todo[r])
  PROVE  UploadOK'
BY DEF PieceInv, UploadOK

LEMMA OnceAddItem ==
  ASSUME PieceInv, NEW r \in Requests, AddItem(r)
  PROVE  OnceThere' /\ UploadOK'
<1>. DEFINE a == Head(todo[r])
            items == Append(batch, a)
<1>0. /\ todo[r] \in Seq(Pieces) /\ todo[r] # <<>> /\ batch \in Seq(Pieces) /\ r \in Emitters
      /\ UNCHANGED <<cache, given, reports>>
      /\ todo' = [todo EXCEPT ![r] = Tail(@)]
  BY Numbers DEF AddItem, PieceInv, PieceTypes
<1>1. /\ a \in Pieces /\ a \in PiecesOf(todo[r]) /\ PiecesOf(Tail(todo[r])) \subseteq PiecesOf(todo[r])
      /\ Distinct(Tail(todo[r]))
  BY <1>0, HeadPiece DEF PieceInv, OnceThere
<1>2. \A f \in Requests : todo'[f] = IF f = r THEN Tail(todo[r]) ELSE todo[f]
  BY <1>0 DEF PieceInv, PieceTypes
<1>3. a \notin PiecesOf(batch)
  <2>1. At(a, <<"todo", r>>) /\ (a \in PiecesOf(batch) => At(a, <<"batch", 0>>))
    BY <1>1 DEF At
  <2>. QED
    BY <1>1, <2>1, Somewhere DEF PieceInv
<1>4. Distinct(items)
  BY <1>0, <1>1, <1>3, AppendPiece DEF PieceInv, OnceThere
<1>5. \A f \in Requests : Distinct(todo'[f]) /\ PiecesOf(todo'[f]) \subseteq PiecesOf(todo[f])
  BY <1>1, <1>2 DEF PieceInv, OnceThere
<1>. HIDE DEF items
<1>6. Distinct(batch') /\ \A e \in Emitters : Distinct(hand'[e])
  <2>1. CASE hand' = [hand EXCEPT ![r] = items] /\ batch' = <<>>
    <3>1. \A f \in Emitters : hand'[f] = IF f = r THEN items ELSE hand[f]
      BY <2>1 DEF PieceInv, PieceTypes
    <3>. QED
      BY <1>4, <2>1, <3>1, EmptyFacts DEF PieceInv, OnceThere
  <2>2. CASE hand' = hand /\ batch' = items
    BY <1>4, <2>2 DEF PieceInv, OnceThere
  <2>. QED
    BY <2>1, <2>2 DEF AddItem, Notify, items
<1>7. OnceThere'
  BY <1>0, <1>5, <1>6 DEF PieceInv, OnceThere
<1>. QED
  BY <1>0, <1>5, <1>7, UploadKept

LEMMA OncePushStatic ==
  ASSUME PieceInv, NEW r \in Requests, PushStatic(r)
  PROVE  OnceThere' /\ UploadOK'
<1>1. UNCHANGED <<hand, batch, given, reports>>
  BY DEF PushStatic, batcherVars
<1>2. PICK n \in 1 .. Len(todo[r]) :
           /\ cache' = Append(cache, SubSeq(todo[r], 1, n))
           /\ todo' = [todo EXCEPT ![r] = SubSeq(@, n + 1, Len(@))]
           /\ SubSeq(todo[r], 1, n) \in Seq(Pieces)
  BY PushStaticFacts DEF PieceInv
<1>. DEFINE b == SubSeq(todo[r], 1, n)
            c == SubSeq(todo[r], n + 1, Len(todo[r]))
<1>3. /\ PiecesOf(b) \subseteq PiecesOf(todo[r]) /\ PiecesOf(c) \subseteq PiecesOf(todo[r])
      /\ Distinct(b) /\ Distinct(c)
  BY SplitFacts DEF PieceInv, PieceTypes, OnceThere
<1>4. \A f \in Requests : todo'[f] = IF f = r THEN c ELSE todo[f]
  BY <1>2 DEF PieceInv, PieceTypes
<1>5. PiecesIn(cache) \cap PiecesOf(b) = {}
  <2>. SUFFICES ASSUME NEW p \in PiecesIn(cache), p \in PiecesOf(b) PROVE FALSE
    OBVIOUS
  <2>1. At(p, <<"cache", 0>>) /\ At(p, <<"todo", r>>)
    BY <1>3 DEF At
  <2>2. p \in Pieces
    BY <1>2, SomeFacts
  <2>. QED
    BY <2>1, <2>2, Somewhere DEF PieceInv
<1>6. DistinctIn(cache')
  <2>1. cache \in Seq(Seq(Pieces)) /\ DistinctIn(cache)
    BY DEF PieceInv, PieceTypes, OnceThere
  <2>. HIDE DEF b
  <2>2. cache' = Append(cache, b) /\ b \in Seq(Pieces)
    BY <1>2 DEF b
  <2>. QED
    BY <1>3, <1>5, <2>1, <2>2, AppendPackage
<1>. HIDE DEF b, c
<1>7. OnceThere'
  BY <1>1, <1>3, <1>4, <1>6 DEF PieceInv, OnceThere
<1>8. \A f \in Requests : PiecesOf(todo'[f]) \subseteq PiecesOf(todo[f])
  BY <1>3, <1>4
<1>. QED
  BY <1>1, <1>7, <1>8, UploadKept

LEMMA OncePushBatch ==
  ASSUME PieceInv, NEW e \in Emitters, PushBatch(e)
  PROVE  OnceThere' /\ UploadOK'
<1>1. /\ UNCHANGED <<todo, batch, given, reports>>
      /\ hand' = [hand EXCEPT ![e] = <<>>] /\ cache' = Append(cache, hand[e])
  BY DEF PushBatch, batcherVars, callVars
<1>2. \A f \in Emitters : hand'[f] = IF f = e THEN <<>> ELSE hand[f]
  BY <1>1 DEF PieceInv, PieceTypes
<1>3. hand[e] \in Seq(Pieces) /\ cache \in Seq(Seq(Pieces)) /\ DistinctIn(cache) /\ Distinct(hand[e])
  BY DEF PieceInv, PieceTypes, OnceThere
<1>4. PiecesIn(cache) \cap PiecesOf(hand[e]) = {}
  <2>. SUFFICES ASSUME NEW p \in PiecesIn(cache), p \in PiecesOf(hand[e]) PROVE FALSE
    OBVIOUS
  <2>1. At(p, <<"cache", 0>>) /\ At(p, <<"hand", e>>)
    BY DEF At
  <2>2. p \in Pieces
    BY <1>3, SomeFacts
  <2>. QED
    BY <2>1, <2>2, Somewhere DEF PieceInv
<1>5. DistinctIn(cache')
  BY <1>1, <1>3, <1>4, AppendPackage
<1>6. OnceThere'
  BY <1>1, <1>2, <1>5, EmptyFacts DEF PieceInv, OnceThere
<1>. QED
  BY <1>1, <1>6, UploadKept

LEMMA OncePop ==
  ASSUME PieceInv, Pop
  PROVE  OnceThere' /\ UploadOK'
<1>0. UNCHANGED <<todo, batch, hand, given>>
  BY DEF Pop, batcherVars, callVars
<1>1. DistinctIn(cache')
  <2>1. CASE UNCHANGED cache
    BY <2>1 DEF PieceInv, OnceThere, DistinctIn
  <2>2. ASSUME NEW ss \in Seq(Seq(Pieces)), DistinctIn(ss), ss # <<>>, cache' = Tail(ss)
        PROVE  DistinctIn(cache')
    BY <2>2, HeadPackage
  <2>3. ASSUME NEW ss \in Seq(Seq(Pieces)), DistinctIn(ss), cache' = ss
        PROVE  DistinctIn(cache')
    BY <2>3
  <2>. QED
    BY <2>1, <2>2, <2>3, PopFacts
<1>2. \A p \in Pieces : p \notin given => reports'[p] = reports[p]
  <2>. SUFFICES ASSUME NEW p \in Pieces, p \notin given PROVE reports'[p] = reports[p]
    OBVIOUS
  <2>1. p \notin PiecesIn(cache)
    <3>1. p \in PiecesIn(cache) => At(p, <<"cache", 0>>)
      BY DEF At
    <3>. QED
      BY <3>1, Somewhere DEF PieceInv
  <2>2. UNCHANGED reports \/ \E S \in SUBSET PiecesIn(cache) : Report(S)
    BY PopFacts
  <2>. QED
    BY <2>1, <2>2 DEF Report
<1>3. OnceThere'
  BY <1>0, <1>1 DEF PieceInv, OnceThere
<1>. QED
  BY <1>0, <1>2, <1>3, UploadKept

LEMMA OnceNext ==
  ASSUME PieceInv, Next
  PROVE  OnceThere' /\ UploadOK'
<1>1. ASSUME NEW e \in Emitters, Notify(e, batch),
             UNCHANGED <<todo, cache, pack, tasks, given, reports>>
      PROVE  OnceThere' /\ UploadOK'
  <2>1. \A f \in Emitters : hand'[f] = IF f = e THEN batch ELSE hand[f]
    BY <1>1 DEF PieceInv, PieceTypes, Notify
  <2>2. OnceThere'
    BY <1>1, <2>1, EmptyFacts DEF PieceInv, OnceThere, Notify
  <2>. QED
    BY <1>1, <2>2, UploadKept
<1>2. ASSUME UNCHANGED <<todo, batch, hand, cache, given, reports>>
      PROVE  OnceThere' /\ UploadOK'
  BY <1>2, UploadKept DEF PieceInv, OnceThere
<1>3. ASSUME NEW w \in tasks, Finish(w)
      PROVE  OnceThere' /\ UploadOK'
  <2>1. UNCHANGED <<todo, batch, hand, cache, given>> /\ Report(PiecesOf(w.pack)) /\ w.at = "run"
    BY <1>3 DEF Finish, batcherVars, callVars
  <2>2. \A p \in Pieces : p \notin given => reports'[p] = reports[p]
    <3>. SUFFICES ASSUME NEW p \in Pieces, p \notin given PROVE reports'[p] = reports[p]
      OBVIOUS
    <3>1. p \in PiecesOf(w.pack) => At(p, <<"task", w>>)
      BY <2>1 DEF At
    <3>2. p \notin PiecesOf(w.pack)
      BY <3>1, Somewhere DEF PieceInv
    <3>. QED
      BY <2>1, <3>2 DEF Report
  <2>3. OnceThere'
    BY <2>1 DEF PieceInv, OnceThere
  <2>. QED
    BY <2>1, <2>2, <2>3, UploadKept
<1>. QED
  BY <1>1, <1>2, <1>3, StepKinds, OnceUpload, OnceAddItem, OncePushStatic, OncePushBatch, OncePop
-----------------------------------------------------------------------------
LEMMA PieceInit ==
  ASSUME Init
  PROVE  PieceInv
<1>1. Min(Engines) \in Engines
  BY Numbers
<1>2. PieceTypes
  BY EmptyFacts DEF Init, PieceTypes
<1>3. ControlTypes
  BY <1>1, FS_EmptySet, ExecutorAssumption DEF Init, ControlTypes, None
<1>4. \A p, x : ~At(p, x)
  BY EmptyFacts DEF Init, At
<1>5. OnceThere
  BY EmptyFacts DEF Init, OnceThere
<1>6. UploadOK
  BY EmptyFacts DEF Init, UploadOK
<1>. QED
  BY <1>2, <1>3, <1>4, <1>5, <1>6 DEF PieceInv, OnePlace

LEMMA PieceNext ==
  ASSUME PieceInv, [Next]_vars
  PROVE  PieceInv'
<1>1. CASE Next
  <2>1. DistinctIn(cache)
    BY DEF PieceInv, OnceThere
  <2>. QED
    BY <1>1, <2>1, TypesNext, PlaceNext, OnceNext DEF PieceInv
<1>2. CASE UNCHANGED vars
  <2>1. UNCHANGED <<todo, batch, hand, cache, pack, tasks, given, reports>>
    BY <1>2 DEF vars, batcherVars, engineVars, callVars
  <2>2. UNCHANGED <<strategy, timeout, first_item, timer_id, events, created, tloop, dispatch, idle,
                    task_num, owner>>
    BY <1>2 DEF vars, config, batcherVars, timerVars, engineVars
  <2>3. PieceTypes'
    BY <2>1 DEF PieceInv, PieceTypes
  <2>4. ControlTypes'
    BY <2>1, <2>2, ControlKept DEF PieceInv, ControlTypes
  <2>5. OnePlace'
    BY <2>1, StillPlace
  <2>6. OnceThere' /\ UploadOK'
    BY <2>1 DEF PieceInv, OnceThere, UploadOK
  <2>. QED
    BY <2>3, <2>4, <2>5, <2>6 DEF PieceInv
<1>. QED
  BY <1>1, <1>2

LEMMA PieceAlways == Spec => []PieceInv
BY PieceInit, PieceNext, PTL DEF Spec

-----------------------------------------------------------------------------
(* ExactlyOnce                                                              *)

\* A report of pieces that are somewhere is a Report of ExactlyOnce.
LEMMA ReportStep ==
  ASSUME PieceInv, UNCHANGED given, NEW S, Report(S), \A p \in S : p \in Pieces /\ \E x : At(p, x)
  PROVE  Promise!Next
<1>1. \A p \in S : p \in given /\ reports[p] = 0
  BY Somewhere DEF PieceInv
<1>2. reports' = [p \in Pieces |-> IF p \in S THEN 1 ELSE reports[p]]
  BY <1>1 DEF Report
<1>3. Promise!Report(S)
  BY <1>1, <1>2 DEF Promise!Report
<1>. QED
  BY <1>3 DEF Promise!Next

LEMMA PromiseNext ==
  ASSUME PieceInv, Next
  PROVE  Promise!Next \/ UNCHANGED <<given, reports>>
<1>1. ASSUME NEW r \in Requests, Upload(r) PROVE Promise!Next
  <2>. DEFINE M == {<<r, i>> : i \in 1 .. DataNum}
  <2>1. M \subseteq Pieces
    BY PackageTypes
  <2>2. <<r, 1>> \notin given
    <3>1. r \in 1 .. r
      BY DEF Requests
    <3>. QED
      BY <1>1, <3>1 DEF Upload
  <2>3. M \cap given = {}
    BY <2>2 DEF PieceInv, UploadOK
  <2>4. given' = given \cup M /\ UNCHANGED reports
    BY <1>1 DEF Upload
  <2>. HIDE DEF M
  <2>5. Promise!Give(M)
    BY <2>3, <2>4 DEF Promise!Give
  <2>. QED
    BY <2>1, <2>5 DEF Promise!Next
<1>2. ASSUME Pop PROVE Promise!Next \/ UNCHANGED <<given, reports>>
  <2>1. UNCHANGED given
    BY <1>2 DEF Pop, callVars
  <2>2. ASSUME NEW S \in SUBSET PiecesIn(cache), Report(S) PROVE Promise!Next
    <3>1. ASSUME NEW p \in S PROVE p \in Pieces /\ At(p, <<"cache", 0>>)
      <4>1. PICK i \in DOMAIN cache : p \in PiecesOf(cache[i])
        BY <2>2, <3>1 DEF PiecesIn
      <4>2. cache[i] \in Seq(Pieces)
        BY DEF PieceInv, PieceTypes
      <4>. QED
        BY <2>2, <3>1, <4>1, <4>2, SomeFacts DEF At
    <3>. QED
      BY <2>1, <2>2, <3>1, ReportStep
  <2>. QED
    BY <1>2, <2>1, <2>2, PopFacts
<1>3. ASSUME NEW w \in tasks, Finish(w) PROVE Promise!Next
  <2>1. Report(PiecesOf(w.pack)) /\ UNCHANGED given /\ w.at = "run" /\ w.pack \in Seq(Pieces)
    BY <1>3 DEF Finish, callVars, PieceInv, ControlTypes
  <2>2. \A p \in PiecesOf(w.pack) : p \in Pieces /\ At(p, <<"task", w>>)
    BY <2>1, SomeFacts DEF At
  <2>. QED
    BY <2>1, <2>2, ReportStep
<1>4. \A r \in Requests : AddItem(r) \/ PushStatic(r) => UNCHANGED <<given, reports>>
  BY DEF AddItem, PushStatic
<1>5. \A e \in Emitters : PushBatch(e) => UNCHANGED <<given, reports>>
  BY DEF PushBatch, callVars
<1>. QED
  BY <1>1, <1>2, <1>3, <1>4, <1>5, StepKinds

\* Engines and the cleaning of the cache report a piece at most once between them:
\* the executor implements ExactlyOnce.
THEOREM ReportsAtMostOnce == Spec => ReportsOnce
<1>1. Init => Promise!Init
  BY DEF Init, Promise!Init
<1>2. ASSUME PieceInv, [Next]_vars PROVE [Promise!Next]_<<given, reports>>
  <2>1. CASE Next
    BY <1>2, <2>1, PromiseNext
  <2>2. CASE UNCHANGED vars
    BY <2>2 DEF vars, callVars
  <2>. QED
    BY <1>2, <2>1, <2>2
<1>. QED
  BY <1>1, <1>2, PieceAlways, PTL DEF Spec, ReportsOnce, Promise!Spec

-----------------------------------------------------------------------------
(* The end of the executor                                                  *)

\* A step uploads only while a session is linked, and takes back no report.
LEMMA GivenKept ==
  ASSUME PieceInv, Next
  PROVE  /\ owner # "linked" => given' = given
         /\ given' = given \/ \E r \in Requests : Upload(r)
         /\ \A p \in Pieces : reports[p] > 0 => reports'[p] > 0
<1>1. ASSUME NEW S, Report(S) PROVE \A p \in Pieces : reports[p] > 0 => reports'[p] > 0
  BY <1>1 DEF Report, PieceInv, PieceTypes
<1>2. CASE UNCHANGED <<given, reports>>
  BY <1>2
<1>3. ASSUME NEW r \in Requests, Upload(r) PROVE owner = "linked" /\ UNCHANGED reports
  BY <1>3 DEF Upload
<1>4. Pop => UNCHANGED given /\ (UNCHANGED reports \/ Report(PiecesIn(cache) \ PiecesIn(Kept)))
  BY DEF Pop, callVars
<1>5. ASSUME NEW w \in tasks, Finish(w) PROVE UNCHANGED given /\ Report(PiecesOf(w.pack))
  BY <1>5 DEF Finish, callVars
<1>6. \A r \in Requests : AddItem(r) \/ PushStatic(r) => UNCHANGED <<given, reports>>
  BY DEF AddItem, PushStatic
<1>7. \A e \in Emitters : PushBatch(e) => UNCHANGED <<given, reports>>
  BY DEF PushBatch, callVars
<1>. QED
  BY <1>1, <1>2, <1>3, <1>4, <1>5, <1>6, <1>7, StepKinds

\* How ~Executor moves, and when the dispatch thread may.
LEMMA EndKinds ==
  ASSUME ControlTypes, Next
  PROVE  /\ owner' # "linked" => owner # "linked" \/ Stop
         /\ owner' \in {"closing", "gone"} => owner \in {"closing", "gone"} \/ dispatch = "ended"
         /\ dispatch = "ended" => dispatch' = "ended"
         /\ owner' = "gone" => owner = "gone" \/ Close
<1>. USE DEF ControlTypes
<1>1. ASSUME NEW r \in Requests, Upload(r) \/ Discard(r) \/ AddItem(r)
      PROVE  UNCHANGED <<owner, dispatch>>
  BY <1>1 DEF Upload, Discard, AddItem
<1>2. ASSUME NEW r \in Requests, PushStatic(r)
      PROVE  owner' = owner /\ (dispatch = "ended" => dispatch' = "ended")
  BY <1>2 DEF PushStatic
<1>3. ASSUME NEW e \in Emitters, PushBatch(e)
      PROVE  owner' = owner /\ (dispatch = "ended" => dispatch' = "ended")
  BY <1>3 DEF PushBatch
<1>4. FlushCache \/ Fire \/ TimerEmit \/ TimerStore => UNCHANGED <<owner, dispatch>>
  BY DEF FlushCache, Fire, TimerEmit, TimerStore
<1>5. Pop \/ Block \/ Dispatch => owner' = owner /\ dispatch # "ended"
  BY DEF Pop, Block, Dispatch
<1>6. ASSUME NEW w \in tasks, Finish(w) \/ Decrement(w) \/ Announce(w)
      PROVE  owner' = owner /\ (dispatch = "ended" => dispatch' = "ended")
  BY <1>6 DEF Finish, Decrement, Announce
<1>7. Stop \/ StopEmit \/ StopNotify =>
        owner' \in {"emit", "notify", "join"} /\ (dispatch = "ended" => dispatch' = "ended")
  BY DEF Stop, StopEmit, StopNotify, NotifyCache
<1>8. StopEmit \/ StopNotify \/ Join \/ Close => owner # "linked"
  BY DEF StopEmit, StopNotify, Join, Close
<1>9. Join => owner' = "closing" /\ dispatch = "ended" /\ dispatch' = dispatch
  BY DEF Join
<1>10. Close => owner = "closing" /\ dispatch' = dispatch
  BY DEF Close
<1>. QED
  BY <1>1, <1>2, <1>3, <1>4, <1>5, <1>6, <1>7, <1>8, <1>9, <1>10, Numbers
     DEF Next, SenderStep, TimerStep, DispatchStep, EngineStep, OwnerStep

LEMMA StopNext ==
  ASSUME PieceInv, StopOK, Next
  PROVE  StopOK'
<1>1. ASSUME owner' # "linked", NEW p \in given' PROVE reports'[p] > 0
  <2>1. given' = given /\ reports[p] > 0
    <3>1. CASE owner # "linked"
      BY <1>1, <3>1, GivenKept DEF StopOK
    <3>2. CASE Stop
      BY <1>1, <3>2 DEF Stop, callVars
    <3>. QED
      BY <1>1, <3>1, <3>2, EndKinds DEF PieceInv
  <2>2. p \in Pieces
    BY <1>1, <2>1 DEF PieceInv, PieceTypes
  <2>. QED
    BY <2>1, <2>2, GivenKept
<1>2. owner' \in {"closing", "gone"} => dispatch' = "ended"
  BY EndKinds DEF PieceInv, StopOK
<1>. QED
  BY <1>1, <1>2 DEF StopOK

\* Once ~Executor has begun no piece is anywhere.
LEMMA NothingLeft ==
  ASSUME PieceInv, StopOK, owner # "linked"
  PROVE  /\ cache = <<>> /\ batch = <<>> /\ pack = <<>>
         /\ \A e \in Emitters : hand[e] = <<>>
         /\ \A r \in Requests : todo[r] = <<>>
<1>1. \A p \in Pieces : \A x : ~At(p, x)
  BY Somewhere DEF PieceInv, StopOK
<1>2. /\ batch \in Seq(Pieces) /\ pack \in Seq(Pieces) /\ \A e \in Emitters : hand[e] \in Seq(Pieces)
      /\ cache \in Seq(Seq(Pieces)) /\ \A i \in DOMAIN cache : cache[i] # <<>>
  BY DEF PieceInv, PieceTypes
<1>3. ASSUME NEW s \in Seq(Pieces), NEW x, \A p \in PiecesOf(s) : At(p, x)
      PROVE  s = <<>>
  BY <1>1, <1>3, SomeFacts
<1>4. batch = <<>> /\ pack = <<>>
  <2>1. /\ \A p \in PiecesOf(batch) : At(p, <<"batch", 0>>)
        /\ \A p \in PiecesOf(pack) : At(p, <<"pack", 0>>)
    BY DEF At
  <2>. QED
    BY <1>2, <1>3, <2>1
<1>5. ASSUME NEW e \in Emitters PROVE hand[e] = <<>>
  <2>1. \A p \in PiecesOf(hand[e]) : At(p, <<"hand", e>>)
    BY DEF At
  <2>. QED
    BY <1>2, <1>3, <2>1
<1>6. cache = <<>>
  <2>. SUFFICES ASSUME cache # <<>> PROVE FALSE
    OBVIOUS
  <2>1. 1 \in DOMAIN cache /\ cache[1] \in Seq(Pieces) /\ cache[1] # <<>>
    BY <1>2
  <2>2. \A p \in PiecesOf(cache[1]) : At(p, <<"cache", 0>>)
    BY <2>1 DEF At, PiecesIn
  <2>. QED
    BY <1>3, <2>1, <2>2
<1>7. ASSUME NEW r \in Requests PROVE todo[r] = <<>>
  <2>1. todo[r] \in Seq(Pieces) /\ \A p \in PiecesOf(todo[r]) : At(p, <<"todo", r>>)
    BY DEF At, PieceInv, PieceTypes
  <2>. QED
    BY <1>3, <2>1
<1>. QED
  BY <1>4, <1>5, <1>6, <1>7

-----------------------------------------------------------------------------
(* The timer of a batch                                                     *)

FullBatch == FirstOK /\ BatchHasTimer

\* Batcher::Notify leaves an empty batch, and first_item_ set if there was one.
LEMMA NotifyEmpties ==
  ASSUME ControlTypes, FirstOK, NEW e \in Emitters, Notify(e, batch), UNCHANGED timeout
  PROVE  FullBatch'
BY DEF FullBatch, FirstOK, BatchHasTimer, Notify, ControlTypes

LEMMA AddItemTimer ==
  ASSUME PieceTypes, ControlTypes, FullBatch, NEW r \in Requests, AddItem(r)
  PROVE  FullBatch'
<1>. DEFINE items == Append(batch, Head(todo[r]))
<1>1. items \in Seq(Pieces) /\ items # <<>>
  <2>1. todo[r] \in Seq(Pieces) /\ todo[r] # <<>> /\ batch \in Seq(Pieces)
    BY DEF AddItem, PieceTypes
  <2>2. Head(todo[r]) \in Pieces
    BY <2>1, HeadPiece
  <2>3. ASSUME NEW s \in Seq(Pieces), NEW a \in Pieces
        PROVE  Append(s, a) \in Seq(Pieces) /\ Append(s, a) # <<>>
    <3>1. Len(Append(s, a)) = Len(s) + 1 /\ Len(s) \in Nat /\ Append(s, a) \in Seq(Pieces)
      OBVIOUS
    <3>. QED
      BY <3>1
  <2>. QED
    BY <2>1, <2>2, <2>3
<1>2. UNCHANGED <<timeout, tloop>>
  BY DEF AddItem, config
<1>3. CASE Notify(r, items)
  BY <1>1, <1>2, <1>3 DEF Notify, FullBatch, FirstOK, BatchHasTimer, ControlTypes
<1>4. CASE batch' = items /\ first_item' = (first_item /\ ~timeout)
  <2>1. FirstOK'
    BY <1>1, <1>4 DEF FirstOK
  <2>2. ASSUME timeout PROVE events' # {} \/ tloop' = "emit"
    <3>1. CASE first_item
      BY <2>2, <3>1 DEF AddItem, Rearm
    <3>2. CASE ~first_item
      <4>1. UNCHANGED events
        BY <3>2 DEF AddItem, timerVars
      <4>. QED
        BY <1>2, <2>2, <3>2, <4>1 DEF FullBatch, FirstOK, BatchHasTimer
    <3>. QED
      BY <3>1, <3>2
  <2>. QED
    BY <1>2, <2>1, <2>2 DEF FullBatch, BatchHasTimer
<1>. QED
  BY <1>3, <1>4 DEF AddItem

LEMMA TimerNext ==
  ASSUME PieceInv, StopOK, FullBatch, Next
  PROVE  FullBatch'
<1>. USE DEF FullBatch, FirstOK, BatchHasTimer
<1>0. PieceTypes /\ ControlTypes
  BY DEF PieceInv
<1>. DEFINE Kept5 == UNCHANGED <<timeout, batch, first_item, events, tloop>>
<1>1. \A r \in Requests : Upload(r) \/ Discard(r) \/ PushStatic(r) => Kept5
  BY DEF Upload, Discard, PushStatic, config, batcherVars, timerVars
<1>2. \A e \in Emitters : PushBatch(e) => Kept5
  BY DEF PushBatch, config, batcherVars, timerVars
<1>3. Pop \/ Block \/ Dispatch => Kept5
  BY DEF Pop, Block, Dispatch, config, batcherVars, timerVars
<1>4. \A w \in tasks : Finish(w) \/ Decrement(w) \/ Announce(w) => Kept5
  BY DEF Finish, Decrement, Announce, config, batcherVars, timerVars
<1>5. Stop \/ StopNotify \/ Close => Kept5
  BY DEF Stop, StopNotify, Close, config, batcherVars, timerVars
<1>6. ASSUME Kept5 PROVE FullBatch'
  BY <1>6
<1>7. CASE FlushCache \/ StopEmit
  <2>1. UNCHANGED timeout
    BY <1>7 DEF FlushCache, StopEmit, config
  <2>2. CASE \E e \in Emitters : Notify(e, batch)
    BY <1>0, <2>1, <2>2, NotifyEmpties
  <2>3. CASE UNCHANGED batcherVars /\ ~timeout
    BY <2>1, <2>3
  <2>. QED
    BY <1>7, <2>2, <2>3, Numbers DEF FlushCache, StopEmit
<1>8. CASE TimerEmit
  <2>1. UNCHANGED timeout
    BY <1>8 DEF TimerEmit, config
  <2>. QED
    BY <1>0, <1>8, <2>1, Numbers, NotifyEmpties DEF TimerEmit
<1>9. CASE Fire
  BY <1>9 DEF Fire, config, batcherVars
<1>10. CASE TimerStore
  BY <1>10 DEF TimerStore, config, batcherVars
<1>11. CASE Join
  <2>1. batch = <<>>
    BY <1>11, NothingLeft DEF Join
  <2>. QED
    BY <1>11, <2>1 DEF Join, config, batcherVars
<1>12. \A r \in Requests : AddItem(r) => FullBatch'
  BY <1>0, AddItemTimer
<1>. HIDE DEF Kept5, FullBatch
<1>. QED
  BY <1>1, <1>2, <1>3, <1>4, <1>5, <1>6, <1>7, <1>8, <1>9, <1>10, <1>11, <1>12, Numbers
     DEF Next, SenderStep, TimerStep, DispatchStep, EngineStep, OwnerStep

LEMMA StopTimerInit ==
  ASSUME Init
  PROVE  StopOK /\ FullBatch
BY DEF Init, StopOK, FullBatch, FirstOK, BatchHasTimer

\* A Cancel, the late store of an event that has run and the destructor leave a
\* batch that is not full the event that will emit it.
THEOREM TimerRuns == Spec => []BatchHasTimer
<1>1. Init => TimerInv
  BY PieceInit, StopTimerInit DEF TimerInv, FullBatch
<1>2. TimerInv /\ [Next]_vars => TimerInv'
  <2>. SUFFICES ASSUME TimerInv, [Next]_vars PROVE TimerInv'
    OBVIOUS
  <2>1. PieceInv'
    BY PieceNext DEF TimerInv
  <2>2. CASE Next
    BY <2>1, <2>2, StopNext, TimerNext DEF TimerInv, FullBatch
  <2>3. CASE UNCHANGED vars
    BY <2>1, <2>3 DEF TimerInv, StopOK, FirstOK, BatchHasTimer, vars, config, batcherVars, timerVars,
                      callVars
  <2>. QED
    BY <2>2, <2>3
<1>3. TimerInv => BatchHasTimer
  BY DEF TimerInv
<1>. QED
  BY <1>1, <1>2, <1>3, PTL DEF Spec

\* The steps that touch the timer: one sets it, Fire and TimerStore end an event,
\* Join cancels.
LEMMA TasksNext ==
  ASSUME PieceInv, StopOK, HoldsOneTask, Next
  PROVE  HoldsOneTask'
<1>. USE DEF HoldsOneTask
<1>1. ASSUME UNCHANGED timerVars,
             owner' \in {"closing", "gone"} => owner \in {"closing", "gone"}
      PROVE  HoldsOneTask'
  BY <1>1 DEF timerVars
<1>2. ASSUME NEW r \in Requests, AddItem(r) PROVE HoldsOneTask'
  <2>1. owner' = owner /\ todo[r] # <<>>
    BY <1>2 DEF AddItem
  <2>2. owner = "linked"
    BY <1>2, <2>1, NothingLeft
  <2>3. CASE UNCHANGED timerVars
    BY <1>1, <2>1, <2>3
  <2>4. CASE Rearm
    BY <2>1, <2>2, <2>4 DEF Rearm
  <2>. QED
    BY <1>2, <2>3, <2>4 DEF AddItem
<1>3. CASE Fire
  BY <1>3 DEF Fire
<1>4. CASE TimerStore
  BY <1>4 DEF TimerStore
<1>5. CASE Join
  BY <1>5 DEF Join
<1>6. \A r \in Requests : Upload(r) \/ Discard(r) \/ PushStatic(r) => UNCHANGED <<timerVars, owner>>
  BY DEF Upload, Discard, PushStatic
<1>7. \A e \in Emitters : PushBatch(e) => UNCHANGED <<timerVars, owner>>
  BY DEF PushBatch
<1>8. FlushCache \/ TimerEmit \/ Pop \/ Block \/ Dispatch => UNCHANGED <<timerVars, owner>>
  BY DEF FlushCache, TimerEmit, Pop, Block, Dispatch
<1>9. \A w \in tasks : Finish(w) \/ Decrement(w) \/ Announce(w) => UNCHANGED <<timerVars, owner>>
  BY DEF Finish, Decrement, Announce
<1>10. Stop \/ StopEmit \/ StopNotify =>
         UNCHANGED timerVars /\ owner' \in {"emit", "notify", "join"}
  BY DEF Stop, StopEmit, StopNotify
<1>11. Close => UNCHANGED timerVars /\ owner = "closing"
  BY DEF Close
<1>. HIDE DEF HoldsOneTask
<1>. QED
  BY <1>1, <1>2, <1>3, <1>4, <1>5, <1>6, <1>7, <1>8, <1>9, <1>10, <1>11, Numbers
     DEF Next, SenderStep, TimerStep, DispatchStep, EngineStep, OwnerStep

\* A timer holds one task, and the destructor of its batcher cancels it: whatever is
\* pending beside it has been forgotten by the late store of 0.
THEOREM TimerHoldsOneTask == Spec => []HoldsOneTask
<1>. DEFINE IInv == PieceInv /\ StopOK /\ HoldsOneTask
<1>1. Init => IInv
  BY PieceInit, StopTimerInit DEF Init, HoldsOneTask
<1>2. IInv /\ [Next]_vars => IInv'
  <2>. SUFFICES ASSUME IInv, [Next]_vars PROVE IInv'
    OBVIOUS
  <2>1. PieceInv'
    BY PieceNext
  <2>2. CASE Next
    BY <2>1, <2>2, StopNext, TasksNext
  <2>3. CASE UNCHANGED vars
    BY <2>1, <2>3 DEF StopOK, HoldsOneTask, vars, timerVars, callVars
  <2>. QED
    BY <2>2, <2>3
<1>. QED
  BY <1>1, <1>2, PTL DEF Spec

-----------------------------------------------------------------------------
(* The load of an engine                                                    *)

LEMMA LoadStill ==
  ASSUME LoadOK, UNCHANGED engineVars, owner' = "gone" => owner = "gone"
  PROVE  LoadOK'
BY DEF LoadOK, engineVars, Counted

LEMMA CountedFinite ==
  ASSUME ControlTypes
  PROVE  \A e : IsFiniteSet(Counted(e)) /\ Cardinality(Counted(e)) \in Nat
<1>. SUFFICES ASSUME NEW e PROVE IsFiniteSet(Counted(e)) /\ Cardinality(Counted(e)) \in Nat
  OBVIOUS
<1>1. Counted(e) \subseteq tasks /\ IsFiniteSet(tasks)
  BY DEF Counted, ControlTypes
<1>. QED
  BY <1>1, FS_Subset, FS_CardinalityType

LEMMA RunLoad ==
  ASSUME ControlTypes, LoadOK, NEW e \in Engines, Run(e), NEW f \in Engines
  PROVE  Cardinality(Counted(f)') <= task_num'[f]
<1>. DEFINE w == [engine |-> e, pack |-> pack, at |-> "run"]
            T == Counted(f)
<1>1. w.engine = e /\ w.at = "run" /\ tasks' = tasks \cup {w}
  BY DEF Run
<1>2. task_num[f] \in Int /\ task_num'[f] = IF f = e THEN task_num[f] + 1 ELSE task_num[f]
  BY DEF Run, ControlTypes
<1>3. IsFiniteSet(T) /\ Cardinality(T) \in Nat /\ Cardinality(T) <= task_num[f]
  BY CountedFinite DEF LoadOK
<1>. HIDE DEF w
<1>4. Counted(f)' = IF f = e THEN T \cup {w} ELSE T
  BY <1>1 DEF Counted
<1>. HIDE DEF T
<1>5. Cardinality(T \cup {w}) <= Cardinality(T) + 1
  <2>1. Cardinality(T \cup {w}) = IF w \in T THEN Cardinality(T) ELSE Cardinality(T) + 1
    BY <1>3, FS_AddElement
  <2>. QED
    BY <1>3, <2>1
<1>6. Cardinality(T \cup {w}) \in Nat
  BY <1>3, FS_AddElement, FS_CardinalityType
<1>. QED
  BY <1>2, <1>3, <1>4, <1>5, <1>6

\* Finish, Decrement and Announce, for the engine of the package and for the others.
LEMMA EngineLoad ==
  ASSUME ControlTypes, LoadOK, NEW w \in tasks, Finish(w) \/ Decrement(w) \/ Announce(w),
         NEW f \in Engines
  PROVE  Cardinality(Counted(f)') <= task_num'[f]
<1>. DEFINE T == Counted(f)
            v == [w EXCEPT !.at = "reported"]
<1>1. IsFiniteSet(T) /\ Cardinality(T) \in Nat /\ Cardinality(T) <= task_num[f] /\ task_num[f] \in Int
  BY CountedFinite DEF LoadOK, ControlTypes
<1>2. w \in [engine : Engines, pack : Seq(Pieces), at : {"run", "reported", "announce"}]
  BY DEF ControlTypes
<1>3. CASE Finish(w)
  <2>1. w.at = "run" /\ tasks' = (tasks \ {w}) \cup {v} /\ task_num' = task_num
    BY <1>3 DEF Finish
  <2>2. v.engine = w.engine /\ v.at = "reported"
    BY <1>2
  <2>. HIDE DEF v
  <2>3. Counted(f)' = IF f = w.engine THEN (T \ {w}) \cup {v} ELSE T
    BY <2>1, <2>2 DEF Counted
  <2>4. f = w.engine => w \in T
    BY <2>1 DEF Counted
  <2>. HIDE DEF T
  <2>5. f = w.engine => /\ IsFiniteSet(T \ {w}) /\ Cardinality(T \ {w}) = Cardinality(T) - 1
                        /\ Cardinality(T \ {w}) \in Nat
    BY <1>1, <2>4, FS_RemoveElement, FS_CardinalityType
  <2>. DEFINE R == T \ {w}
  <2>. HIDE DEF R
  <2>6. f = w.engine => Cardinality(R \cup {v}) \in {Cardinality(R), Cardinality(R) + 1}
    BY <2>5, FS_AddElement DEF R
  <2>7. f = w.engine => Cardinality(Counted(f)') <= task_num'[f]
    <3>1. f = w.engine => Cardinality(Counted(f)') = Cardinality(R \cup {v})
      BY <2>3 DEF R
    <3>2. f = w.engine => Cardinality(R) = Cardinality(T) - 1
      BY <2>5 DEF R
    <3>. QED
      BY <1>1, <2>1, <2>6, <3>1, <3>2
  <2>. QED
    BY <1>1, <2>1, <2>3, <2>7
<1>4. CASE Decrement(w)
  <2>1. /\ w.at = "reported" /\ tasks' = (tasks \ {w}) \cup {[w EXCEPT !.at = "announce"]}
        /\ task_num' = [task_num EXCEPT ![w.engine] = @ - 1]
    BY <1>4 DEF Decrement
  <2>2. [w EXCEPT !.at = "announce"].at = "announce"
    BY <1>2
  <2>3. Counted(f)' = IF f = w.engine THEN T \ {w} ELSE T
    BY <2>1, <2>2 DEF Counted
  <2>4. f = w.engine => w \in T
    BY <2>1 DEF Counted
  <2>5. task_num'[f] = IF f = w.engine THEN task_num[f] - 1 ELSE task_num[f]
    BY <1>2, <2>1 DEF ControlTypes
  <2>. HIDE DEF T
  <2>6. f = w.engine => Cardinality(T \ {w}) = Cardinality(T) - 1
    BY <1>1, <2>4, FS_RemoveElement
  <2>. QED
    BY <1>1, <2>3, <2>5, <2>6
<1>5. CASE Announce(w)
  <2>1. w.at = "announce" /\ tasks' = tasks \ {w} /\ task_num' = task_num
    BY <1>5 DEF Announce
  <2>2. Counted(f)' = T
    BY <2>1 DEF Counted
  <2>. QED
    BY <1>1, <2>1, <2>2
<1>. QED
  BY <1>3, <1>4, <1>5

\* When an engine may be closed all its packages have left its nodes.
LEMMA ClosedEmpty ==
  ASSUME ControlTypes, LoadOK, \A e \in Engines : task_num[e] = 0
  PROVE  \A w \in tasks : w.at = "announce"
<1>. SUFFICES ASSUME NEW w \in tasks, w.at # "announce" PROVE FALSE
  OBVIOUS
<1>1. w.engine \in Engines
  BY DEF ControlTypes
<1>. DEFINE T == Counted(w.engine)
<1>2. IsFiniteSet(T) /\ Cardinality(T) \in Nat /\ Cardinality(T) <= 0
  BY <1>1, CountedFinite DEF LoadOK
<1>3. w \in T
  BY DEF Counted
<1>. HIDE DEF T
<1>. QED
  BY <1>2, <1>3, FS_EmptySet

LEMMA LoadNext ==
  ASSUME PieceInv, StopOK, LoadOK, Next
  PROVE  LoadOK'
<1>0. ControlTypes
  BY DEF PieceInv
<1>1. ASSUME NEW e \in Engines, Run(e), dispatch # "ended", UNCHANGED owner
      PROVE  LoadOK'
  <2>1. owner # "gone"
    BY <1>1 DEF StopOK
  <2>2. \A f \in Engines : Cardinality(Counted(f)') <= task_num'[f]
    BY <1>0, <1>1, RunLoad
  <2>. QED
    BY <1>1, <2>1, <2>2 DEF LoadOK
<1>2. ASSUME NEW w \in tasks, Finish(w) \/ Decrement(w) \/ Announce(w)
      PROVE  LoadOK'
  <2>1. \A f \in Engines : Cardinality(Counted(f)') <= task_num'[f]
    BY <1>0, <1>2, EngineLoad
  <2>2. UNCHANGED owner
    BY <1>2 DEF Finish, Decrement, Announce
  <2>3. ASSUME owner = "gone" PROVE FALSE
    <3>1. w.at = "announce"
      BY <2>3 DEF LoadOK
    <3>. QED
      BY <1>2, <2>3, <3>1 DEF Finish, Decrement, Announce
  <2>. QED
    BY <2>1, <2>2, <2>3 DEF LoadOK
<1>3. CASE Dispatch
  <2>1. dispatch # "ended" /\ UNCHANGED owner
    BY <1>3 DEF Dispatch
  <2>2. (\E e \in Engines : Run(e)) \/ UNCHANGED engineVars
    <3>1. Free # {} => Min(Free) \in Engines
      <4>1. Free \in SUBSET Engines
        BY DEF Free
      <4>. QED
        BY <4>1, Numbers
    <3>2. idle # None => idle \in Engines
      BY <1>0 DEF ControlTypes
    <3>. QED
      BY <1>3, <3>1, <3>2 DEF Dispatch
  <2>. QED
    BY <1>1, <2>1, <2>2, LoadStill
<1>4. CASE Close
  <2>1. \A w \in tasks : w.at = "announce"
    BY <1>0, <1>4, ClosedEmpty DEF Close
  <2>2. UNCHANGED engineVars
    BY <1>4 DEF Close
  <2>. QED
    BY <2>1, <2>2 DEF LoadOK, engineVars, Counted
<1>5. ASSUME NEW r \in Requests, Upload(r) \/ SenderStep(r) \/ Discard(r)
      PROVE  UNCHANGED <<engineVars, owner>>
  BY <1>5 DEF Upload, SenderStep, AddItem, PushStatic, PushBatch, Discard
<1>6. FlushCache \/ PushBatch(Flusher) => UNCHANGED <<engineVars, owner>>
  BY DEF FlushCache, PushBatch
<1>7. TimerStep => UNCHANGED <<engineVars, owner>>
  BY DEF TimerStep, Fire, TimerEmit, PushBatch, TimerStore
<1>8. Pop \/ Block => UNCHANGED <<engineVars, owner>>
  BY DEF Pop, Block
<1>9. Stop \/ StopEmit \/ PushBatch(Owner) \/ StopNotify \/ Join =>
        UNCHANGED engineVars /\ (owner' = "gone" => owner = "gone")
  BY DEF Stop, StopEmit, PushBatch, StopNotify, Join
<1>. QED
  BY <1>2, <1>3, <1>4, <1>5, <1>6, <1>7, <1>8, <1>9, LoadStill
     DEF Next, DispatchStep, EngineStep, OwnerStep

\* ~Executor waits for every package: what task_num_ counts is what is in the engines,
\* and what the sessions have uploaded is all reported.
THEOREM QuietAtEnd == Spec => []QuietWhenGone
<1>1. Init => QuietInv
  <2>. SUFFICES ASSUME Init PROVE QuietInv
    OBVIOUS
  <2>1. \A e : Counted(e) = {}
    BY DEF Init, Counted
  <2>2. \A e \in Engines : Cardinality(Counted(e)) = 0 /\ task_num[e] = 0
    BY <2>1, FS_EmptySet DEF Init
  <2>3. LoadOK
    BY <2>2 DEF Init, LoadOK
  <2>. QED
    BY <2>3, PieceInit, StopTimerInit DEF QuietInv
<1>2. QuietInv /\ [Next]_vars => QuietInv'
  <2>. SUFFICES ASSUME QuietInv, [Next]_vars PROVE QuietInv'
    OBVIOUS
  <2>1. PieceInv'
    BY PieceNext DEF QuietInv
  <2>2. CASE Next
    BY <2>1, <2>2, StopNext, LoadNext DEF QuietInv
  <2>3. CASE UNCHANGED vars
    <3>1. StopOK'
      BY <2>3 DEF QuietInv, StopOK, vars, callVars
    <3>2. LoadOK'
      BY <2>3, LoadStill DEF QuietInv, vars
    <3>. QED
      BY <2>1, <3>1, <3>2 DEF QuietInv
  <2>. QED
    BY <2>2, <2>3
<1>3. QuietInv => QuietWhenGone
  BY NothingLeft DEF QuietInv, QuietWhenGone, LoadOK
<1>. QED
  BY <1>1, <1>2, <1>3, PTL DEF Spec

-----------------------------------------------------------------------------
(* No piece is lost                                                         *)

\* Where an uploaded piece can be: with its sender, in the batcher or on its way into
\* the cache, in the cache, with the dispatch thread, in an engine.
Waits(p) ==
  \/ \E r \in Requests : p \in PiecesOf(todo[r])
  \/ p \in PiecesOf(batch) \/ \E e \in Emitters : p \in PiecesOf(hand[e])
  \/ p \in PiecesIn(cache) \/ p \in PiecesOf(pack)
  \/ \E w \in tasks : w.at = "run" /\ p \in PiecesOf(w.pack)

\* No piece is lost between the threads: Notify, Take and Run never overwrite a batch
\* or a package with something in it, and ClearDiscard reports all that it drops.
NothingLost == \A p \in given : reports[p] > 0 \/ Waits(p)

\* What a thread fills is empty: the timer's hand before the notifier, the dispatch
\* thread's package before Pop.
EmptyOK ==
  /\ tloop # "store" => hand[TimerThread] = <<>>
  /\ dispatch \in {"pop", "held", "wait", "ended"} => pack = <<>>

LostInv == PieceInv /\ StopOK /\ EmptyOK /\ NothingLost

KeepsAll == \A p : Waits(p) => Waits(p)' \/ (p \in Pieces => reports'[p] > 0)

LEMMA HeadPieceAll ==
  ASSUME NEW s \in Seq(Pieces), s # <<>>
  PROVE  PiecesOf(s) \subseteq {Head(s)} \cup PiecesOf(Tail(s))
<1>. DEFINE t == Tail(s)
<1>1. /\ Head(s) = s[1] /\ DOMAIN s = 1 .. Len(s) /\ Len(s) \in Nat /\ DOMAIN t = 1 .. Len(s) - 1
      /\ \A i \in DOMAIN t : t[i] = s[i + 1]
  OBVIOUS
<1>. HIDE DEF t
<1>2. \A i \in DOMAIN s : i = 1 \/ (i - 1 \in DOMAIN t /\ t[i - 1] = s[i])
  BY <1>1
<1>3. PiecesOf(s) \subseteq {Head(s)} \cup PiecesOf(t)
  BY <1>1, <1>2 DEF PiecesOf
<1>. QED
  BY <1>3 DEF t

LEMMA HeadPackageAll ==
  ASSUME NEW ss \in Seq(Seq(Pieces)), ss # <<>>
  PROVE  PiecesIn(ss) \subseteq PiecesOf(Head(ss)) \cup PiecesIn(Tail(ss))
<1>. DEFINE t == Tail(ss)
<1>1. /\ Head(ss) = ss[1] /\ DOMAIN ss = 1 .. Len(ss) /\ Len(ss) \in Nat /\ DOMAIN t = 1 .. Len(ss) - 1
      /\ \A i \in DOMAIN t : t[i] = ss[i + 1]
  OBVIOUS
<1>. HIDE DEF t
<1>2. \A i \in DOMAIN ss : i = 1 \/ (i - 1 \in DOMAIN t /\ t[i - 1] = ss[i])
  BY <1>1
<1>3. PiecesIn(ss) \subseteq PiecesOf(Head(ss)) \cup PiecesIn(t)
  BY <1>1, <1>2 DEF PiecesIn
<1>. QED
  BY <1>3 DEF t

LEMMA SplitAll ==
  ASSUME NEW s \in Seq(Pieces), NEW n \in 1 .. Len(s)
  PROVE  PiecesOf(s) \subseteq PiecesOf(SubSeq(s, 1, n)) \cup PiecesOf(SubSeq(s, n + 1, Len(s)))
<1>. DEFINE a == SubSeq(s, 1, n)
            b == SubSeq(s, n + 1, Len(s))
<1>1. /\ DOMAIN s = 1 .. Len(s) /\ Len(s) \in Nat /\ n \in 1 .. Len(s)
      /\ DOMAIN a = 1 .. n /\ \A i \in 1 .. n : a[i] = s[i]
  OBVIOUS
<1>2. DOMAIN b = 1 .. Len(s) - n /\ \A i \in 1 .. Len(s) - n : b[i] = s[i + n]
  OBVIOUS
<1>. HIDE DEF a, b
<1>3. \A i \in DOMAIN s : (i \in DOMAIN a /\ a[i] = s[i]) \/ (i - n \in DOMAIN b /\ b[i - n] = s[i])
  BY <1>1, <1>2
<1>4. PiecesOf(s) \subseteq PiecesOf(a) \cup PiecesOf(b)
  BY <1>3 DEF PiecesOf
<1>. QED
  BY <1>4 DEF a, b

LEMMA UploadKeeps ==
  ASSUME PieceInv, NEW r \in Requests, Upload(r)
  PROVE  KeepsAll /\ \A p \in given' \ given : Waits(p)'
<1>. DEFINE s == [i \in 1 .. DataNum |-> <<r, i>>]
            M == {<<r, i>> : i \in 1 .. DataNum}
<1>1. /\ UNCHANGED <<batch, hand, cache, pack, tasks>>
      /\ given' = given \cup M /\ todo' = [todo EXCEPT ![r] = s]
  BY DEF Upload, batcherVars, engineVars
<1>2. PiecesOf(s) = M
  BY DEF PiecesOf
<1>3. <<r, 1>> \notin given
  <2>1. r \in 1 .. r
    BY DEF Requests
  <2>. QED
    BY <2>1 DEF Upload
<1>4. \A p \in PiecesOf(todo[r]) : FALSE
  <2>. SUFFICES ASSUME NEW p \in PiecesOf(todo[r]) PROVE FALSE
    OBVIOUS
  <2>1. todo[r] \in Seq(Pieces)
    BY DEF PieceInv, PieceTypes
  <2>2. p \in Pieces /\ At(p, <<"todo", r>>) /\ p[1] = r
    BY <2>1, SomeFacts DEF At, PieceInv, UploadOK
  <2>3. p \in given
    BY <2>2, Somewhere DEF PieceInv
  <2>4. PICK i \in 1 .. DataNum : p = <<r, i>>
    BY <2>2, Numbers
  <2>. QED
    BY <1>3, <2>3, <2>4 DEF PieceInv, UploadOK
<1>. HIDE DEF s, M
<1>5. \A q \in Requests : todo'[q] = IF q = r THEN s ELSE todo[q]
  BY <1>1 DEF PieceInv, PieceTypes
<1>6. KeepsAll
  BY <1>1, <1>4, <1>5 DEF KeepsAll, Waits, PiecesIn
<1>. QED
  BY <1>1, <1>2, <1>5, <1>6 DEF Waits

LEMMA AddItemKeeps ==
  ASSUME PieceInv, NEW r \in Requests, AddItem(r)
  PROVE  KeepsAll
<1>. DEFINE a == Head(todo[r])
            items == Append(batch, a)
<1>1. /\ UNCHANGED <<cache, pack, tasks>> /\ hand[r] = <<>> /\ r \in Emitters
      /\ todo' = [todo EXCEPT ![r] = Tail(@)]
      /\ todo[r] \in Seq(Pieces) /\ todo[r] # <<>> /\ batch \in Seq(Pieces)
  BY Numbers DEF AddItem, engineVars, PieceInv, PieceTypes
<1>2. PiecesOf(todo[r]) \subseteq {a} \cup PiecesOf(Tail(todo[r])) /\ a \in Pieces
  BY <1>1, HeadPieceAll, HeadPiece
<1>3. PiecesOf(items) = PiecesOf(batch) \cup {a}
  BY <1>1, <1>2, AppendPiece
<1>4. \A q \in Requests : todo'[q] = IF q = r THEN Tail(todo[r]) ELSE todo[q]
  BY <1>1 DEF PieceInv, PieceTypes
<1>5. \/ hand' = [hand EXCEPT ![r] = items]
      \/ hand' = hand /\ batch' = items
  BY DEF AddItem, Notify
<1>. HIDE DEF a, items
<1>6. ASSUME NEW p, p \in PiecesOf(items) PROVE Waits(p)'
  <2>1. CASE hand' = [hand EXCEPT ![r] = items]
    <3>1. hand'[r] = items
      BY <1>1, <2>1 DEF PieceInv, PieceTypes
    <3>. QED
      BY <1>1, <1>6, <3>1 DEF Waits
  <2>2. CASE batch' = items
    BY <1>6, <2>2 DEF Waits
  <2>. QED
    BY <1>5, <2>1, <2>2
<1>7. ASSUME NEW p, NEW e \in Emitters, p \in PiecesOf(hand[e]) PROVE Waits(p)'
  <2>1. e # r
    BY <1>1, <1>7, EmptyFacts
  <2>2. hand'[e] = hand[e]
    <3>1. CASE hand' = [hand EXCEPT ![r] = items]
      BY <2>1, <3>1 DEF PieceInv, PieceTypes
    <3>. QED
      BY <1>5, <3>1
  <2>. QED
    BY <1>7, <2>2 DEF Waits
<1>8. ASSUME NEW p, NEW q \in Requests, p \in PiecesOf(todo[q]) PROVE Waits(p)'
  <2>1. p \in PiecesOf(todo'[q]) \/ p = a
    BY <1>2, <1>4, <1>8
  <2>. QED
    BY <1>3, <1>6, <1>8, <2>1 DEF Waits
<1>9. ASSUME NEW p, p \in PiecesIn(cache) \/ p \in PiecesOf(pack)
                      \/ \E w \in tasks : w.at = "run" /\ p \in PiecesOf(w.pack)
      PROVE  Waits(p)'
  BY <1>1, <1>9 DEF Waits, PiecesIn
<1>. QED
  BY <1>3, <1>6, <1>7, <1>8, <1>9 DEF KeepsAll, Waits

LEMMA PushStaticKeeps ==
  ASSUME PieceInv, NEW r \in Requests, PushStatic(r)
  PROVE  KeepsAll
<1>1. UNCHANGED <<hand, batch, pack, tasks>>
  BY DEF PushStatic, batcherVars, engineVars
<1>2. PICK n \in 1 .. Len(todo[r]) :
           /\ cache' = Append(cache, SubSeq(todo[r], 1, n))
           /\ todo' = [todo EXCEPT ![r] = SubSeq(@, n + 1, Len(@))]
           /\ SubSeq(todo[r], 1, n) \in Seq(Pieces)
  BY PushStaticFacts DEF PieceInv
<1>. DEFINE b == SubSeq(todo[r], 1, n)
            c == SubSeq(todo[r], n + 1, Len(todo[r]))
<1>3. PiecesOf(todo[r]) \subseteq PiecesOf(b) \cup PiecesOf(c)
  BY SplitAll DEF PieceInv, PieceTypes
<1>4. \A q \in Requests : todo'[q] = IF q = r THEN c ELSE todo[q]
  BY <1>2 DEF PieceInv, PieceTypes
<1>5. PiecesIn(cache') = PiecesIn(cache) \cup PiecesOf(b)
  BY <1>2, AppendPackage DEF PieceInv, PieceTypes
<1>. HIDE DEF b, c
<1>6. ASSUME NEW p, NEW q \in Requests, p \in PiecesOf(todo[q]) PROVE Waits(p)'
  <2>1. p \in PiecesOf(todo'[q]) \/ p \in PiecesIn(cache')
    BY <1>3, <1>4, <1>5, <1>6
  <2>. QED
    BY <2>1 DEF Waits, PiecesIn
<1>7. ASSUME NEW p, p \in PiecesIn(cache) PROVE Waits(p)'
  BY <1>5, <1>7 DEF Waits, PiecesIn
<1>. QED
  BY <1>1, <1>6, <1>7 DEF KeepsAll, Waits

LEMMA PushBatchKeeps ==
  ASSUME PieceInv, NEW e \in Emitters, PushBatch(e)
  PROVE  KeepsAll
<1>1. /\ UNCHANGED <<todo, batch, pack, tasks>>
      /\ cache' = Append(cache, hand[e]) /\ hand' = [hand EXCEPT ![e] = <<>>]
  BY DEF PushBatch, batcherVars, engineVars, callVars
<1>2. PiecesIn(cache') = PiecesIn(cache) \cup PiecesOf(hand[e])
  BY <1>1, AppendPackage DEF PieceInv, PieceTypes
<1>3. \A f \in Emitters : f # e => hand'[f] = hand[f]
  BY <1>1 DEF PieceInv, PieceTypes
<1>4. ASSUME NEW p, p \in PiecesIn(cache) \/ p \in PiecesOf(hand[e]) PROVE Waits(p)'
  BY <1>2, <1>4 DEF Waits, PiecesIn
<1>. QED
  BY <1>1, <1>3, <1>4 DEF KeepsAll, Waits

\* A batch is taken into an empty hand.
LEMMA NotifyKeeps ==
  ASSUME PieceInv, NEW e \in Emitters, hand[e] = <<>>, Notify(e, batch),
         UNCHANGED <<todo, cache, pack, tasks>>
  PROVE  KeepsAll
<1>1. \A f \in Emitters : hand'[f] = IF f = e THEN batch ELSE hand[f]
  BY DEF Notify, PieceInv, PieceTypes
<1>2. \A p : p \in PiecesOf(batch) => Waits(p)'
  BY <1>1 DEF Waits
<1>3. \A p : p \notin PiecesOf(hand[e])
  BY EmptyFacts
<1>4. ASSUME NEW p, NEW f \in Emitters, p \in PiecesOf(hand[f]) PROVE Waits(p)'
  BY <1>1, <1>3, <1>4 DEF Waits
<1>. QED
  BY <1>2, <1>4 DEF KeepsAll, Waits, PiecesIn

LEMMA PopKeeps ==
  ASSUME PieceInv, EmptyOK, Pop
  PROVE  KeepsAll
<1>0. UNCHANGED <<todo, batch, hand, tasks>>
  BY DEF Pop, batcherVars, engineVars, callVars
<1>1. pack = <<>> /\ \A p : p \notin PiecesOf(pack)
  BY EmptyFacts DEF Pop, EmptyOK
<1>2. ASSUME NEW ss \in Seq(Seq(Pieces)), ss # <<>>, Take(ss), NEW p \in PiecesIn(ss)
      PROVE  Waits(p)'
  <2>1. pack' = Head(ss) /\ cache' = Tail(ss)
    BY <1>2 DEF Take
  <2>2. p \in PiecesOf(pack') \/ p \in PiecesIn(cache')
    BY <1>2, <2>1, HeadPackageAll
  <2>. QED
    BY <2>2 DEF Waits, PiecesIn
<1>3. ASSUME NEW p, p \in PiecesIn(cache) PROVE Waits(p)' \/ (p \in Pieces => reports'[p] > 0)
  <2>0. cache \in Seq(Seq(Pieces)) /\ Kept \in Seq(Seq(Pieces))
    BY KeptFacts DEF PieceInv, PieceTypes, OnceThere
  <2>1. CASE cache = <<>>
    BY <1>3, <2>1, EmptyFacts
  <2>2. CASE cache # <<>> /\ Take(cache)
    BY <1>2, <1>3, <2>0, <2>2
  <2>3. CASE /\ Report(PiecesIn(cache) \ PiecesIn(Kept))
             /\ \/ Kept # <<>> /\ Take(Kept)
                \/ Kept = <<>>
    <3>1. p \in PiecesIn(Kept) => Waits(p)'
      BY <1>2, <2>0, <2>3, EmptyFacts
    <3>2. p \in PiecesIn(cache) \ PiecesIn(Kept) /\ p \in Pieces => reports'[p] > 0
      BY <2>3 DEF Report, PieceInv, PieceTypes
    <3>. QED
      BY <1>3, <3>1, <3>2
  <2>. QED
    BY <2>1, <2>2, <2>3 DEF Pop
<1>. QED
  BY <1>0, <1>1, <1>3 DEF KeepsAll, Waits

LEMMA RunKeeps ==
  ASSUME PieceInv, NEW e \in Engines, Run(e), UNCHANGED <<todo, batch, hand, cache>>
  PROVE  KeepsAll
<1>. DEFINE w == [engine |-> e, pack |-> pack, at |-> "run"]
<1>1. tasks' = tasks \cup {w} /\ w.pack = pack /\ w.at = "run"
  BY DEF Run
<1>. HIDE DEF w
<1>2. \A p : p \in PiecesOf(pack) => Waits(p)'
  BY <1>1 DEF Waits
<1>. QED
  BY <1>1, <1>2 DEF KeepsAll, Waits, PiecesIn

LEMMA EngineKeeps ==
  ASSUME PieceInv, NEW w \in tasks, Finish(w) \/ Decrement(w) \/ Announce(w)
  PROVE  KeepsAll
<1>1. UNCHANGED <<todo, batch, hand, cache, pack>> /\ tasks \ {w} \subseteq tasks'
  BY DEF Finish, Decrement, Announce, batcherVars, callVars
<1>2. ASSUME NEW p \in Pieces, w.at = "run", p \in PiecesOf(w.pack) PROVE reports'[p] > 0
  <2>1. Report(PiecesOf(w.pack))
    BY <1>2 DEF Finish, Decrement, Announce
  <2>. QED
    BY <1>2, <2>1 DEF Report, PieceInv, PieceTypes
<1>. QED
  BY <1>1, <1>2 DEF KeepsAll, Waits, PiecesIn

LEMMA StillKeeps ==
  ASSUME UNCHANGED <<todo, batch, hand, cache, pack, tasks>>
  PROVE  KeepsAll
BY DEF KeepsAll, Waits, PiecesIn

\* The timer's thread is the only one that fills its hand.
LEMMA TimerHandNext ==
  ASSUME PieceInv, EmptyOK, Next
  PROVE  tloop' # "store" => hand'[TimerThread] = <<>>
<1>. DEFINE Clear == tloop' # "store" => hand'[TimerThread] = <<>>
<1>0. /\ tloop # "store" => hand[TimerThread] = <<>>
      /\ hand \in [Emitters -> Seq(Pieces)] /\ TimerThread \in Emitters
  BY Numbers DEF EmptyOK, PieceInv, PieceTypes
<1>1. ASSUME NEW e \in Emitters, e # TimerThread, NEW b, hand' = [hand EXCEPT ![e] = b],
             UNCHANGED tloop
      PROVE  Clear
  BY <1>0, <1>1
<1>2. UNCHANGED <<hand, tloop>> => Clear
  BY <1>0
<1>3. ASSUME NEW r \in Requests, AddItem(r) PROVE Clear
  <2>1. r \in Emitters /\ r # TimerThread /\ UNCHANGED tloop
    BY <1>3, Numbers DEF AddItem, Requests, TimerThread
  <2>2. UNCHANGED hand \/ hand' = [hand EXCEPT ![r] = Append(batch, Head(todo[r]))]
    BY <1>3 DEF AddItem, Notify
  <2>. HIDE DEF Clear
  <2>. QED
    BY <1>1, <1>2, <2>1, <2>2
<1>4. ASSUME NEW e \in Emitters, PushBatch(e) PROVE Clear
  BY <1>0, <1>4 DEF PushBatch
<1>5. ASSUME FlushCache PROVE Clear
  <2>1. Flusher \in Emitters /\ Flusher # TimerThread /\ UNCHANGED tloop
    BY <1>5, Numbers DEF FlushCache, Flusher, TimerThread
  <2>2. UNCHANGED hand \/ hand' = [hand EXCEPT ![Flusher] = batch]
    BY <1>5 DEF FlushCache, Notify
  <2>. HIDE DEF Clear
  <2>. QED
    BY <1>1, <1>2, <2>1, <2>2
<1>6. ASSUME StopEmit PROVE Clear
  <2>1. Owner \in Emitters /\ Owner # TimerThread /\ UNCHANGED tloop
    BY <1>6, Numbers DEF StopEmit, Owner, TimerThread
  <2>2. hand' = [hand EXCEPT ![Owner] = batch]
    BY <1>6 DEF StopEmit, Notify
  <2>. HIDE DEF Clear
  <2>. QED
    BY <1>1, <2>1, <2>2
<1>7. Fire \/ TimerEmit \/ TimerStore => Clear
  BY <1>0 DEF Fire, TimerEmit, TimerStore
<1>8. ASSUME NEW r \in Requests, Upload(r) \/ PushStatic(r) \/ Discard(r) PROVE UNCHANGED <<hand, tloop>>
  BY <1>8 DEF Upload, PushStatic, Discard
<1>9. Pop \/ Block \/ Dispatch \/ Stop \/ StopNotify \/ Join \/ Close => UNCHANGED <<hand, tloop>>
  BY DEF Pop, Block, Dispatch, Stop, StopNotify, Join, Close
<1>10. EngineStep => UNCHANGED <<hand, tloop>>
  BY DEF EngineStep, Finish, Decrement, Announce
<1>. HIDE DEF Clear
<1>11. Clear
  BY <1>2, <1>3, <1>4, <1>5, <1>6, <1>7, <1>8, <1>9, <1>10, Numbers
     DEF Next, SenderStep, TimerStep, DispatchStep, OwnerStep
<1>. QED
  BY <1>11 DEF Clear

\* The dispatch thread comes to Pop with no package in its hands.
LEMMA PackNext ==
  ASSUME EmptyOK, Next
  PROVE  dispatch' \in {"pop", "held", "wait", "ended"} => pack' = <<>>
<1>. DEFINE Bare == dispatch' \in {"pop", "held", "wait", "ended"} => pack' = <<>>
<1>0. dispatch \in {"pop", "held", "wait", "ended"} => pack = <<>>
  BY DEF EmptyOK
<1>1. UNCHANGED pack /\ (UNCHANGED dispatch \/ (dispatch = "wait" /\ dispatch' = "pop")) => Bare
  BY <1>0
<1>2. ASSUME NEW r \in Requests, Upload(r) \/ AddItem(r) \/ PushStatic(r) \/ Discard(r) PROVE Bare
  BY <1>1, <1>2 DEF Upload, AddItem, PushStatic, Discard
<1>3. ASSUME NEW e, PushBatch(e) PROVE Bare
  BY <1>1, <1>3 DEF PushBatch
<1>4. FlushCache \/ Fire \/ TimerEmit \/ TimerStore => UNCHANGED <<pack, dispatch>>
  BY DEF FlushCache, Fire, TimerEmit, TimerStore
<1>5. Pop \/ Block => Bare
  BY <1>0 DEF Pop, Block, Take
<1>6. Dispatch => Bare
  BY <1>0 DEF Dispatch, Run
<1>7. EngineStep => Bare
  BY <1>0 DEF EngineStep, Finish, Decrement, Announce
<1>8. Stop \/ StopNotify => Bare
  BY <1>1 DEF Stop, StopNotify, NotifyCache
<1>9. StopEmit \/ Join \/ Close => UNCHANGED <<pack, dispatch>>
  BY DEF StopEmit, Join, Close
<1>. HIDE DEF Bare
<1>10. Bare
  BY <1>1, <1>2, <1>3, <1>4, <1>5, <1>6, <1>7, <1>8, <1>9
     DEF Next, SenderStep, TimerStep, DispatchStep, OwnerStep
<1>. QED
  BY <1>10 DEF Bare

LEMMA AllKept ==
  ASSUME PieceInv, StopOK, EmptyOK, Next
  PROVE  KeepsAll
<1>1. ASSUME NEW r \in Requests, Upload(r) \/ AddItem(r) \/ PushStatic(r) PROVE KeepsAll
  BY <1>1, UploadKeeps, AddItemKeeps, PushStaticKeeps
<1>2. ASSUME NEW e \in Emitters, PushBatch(e) PROVE KeepsAll
  BY <1>2, PushBatchKeeps
<1>3. ASSUME NEW r \in Requests, Discard(r) PROVE KeepsAll
  BY <1>3, StillKeeps DEF Discard, batcherVars, engineVars
<1>4. ASSUME FlushCache PROVE KeepsAll
  <2>1. CASE strategy = "DYNAMIC"
    BY <1>4, <2>1, Numbers, NotifyKeeps DEF FlushCache, engineVars
  <2>2. CASE strategy # "DYNAMIC"
    BY <1>4, <2>2, StillKeeps DEF FlushCache, batcherVars, engineVars
  <2>. QED
    BY <2>1, <2>2
<1>5. ASSUME TimerEmit PROVE KeepsAll
  <2>1. hand[TimerThread] = <<>>
    BY <1>5 DEF TimerEmit, EmptyOK
  <2>. QED
    BY <1>5, <2>1, Numbers, NotifyKeeps DEF TimerEmit, engineVars, callVars
<1>6. ASSUME StopEmit PROVE KeepsAll
  <2>1. hand[Owner] = <<>>
    BY <1>6, NothingLeft, Numbers DEF StopEmit
  <2>. QED
    BY <1>6, <2>1, Numbers, NotifyKeeps DEF StopEmit, engineVars, callVars
<1>7. Fire \/ TimerStore \/ Block => KeepsAll
  BY StillKeeps DEF Fire, TimerStore, Block, batcherVars, engineVars, callVars
<1>8. Pop => KeepsAll
  BY PopKeeps
<1>9. ASSUME Dispatch PROVE KeepsAll
  <2>1. UNCHANGED <<todo, batch, hand, cache>>
    BY <1>9 DEF Dispatch, batcherVars, callVars
  <2>2. (\E e \in Engines : Run(e)) \/ UNCHANGED <<pack, engineVars>>
    <3>1. Free # {} => Min(Free) \in Engines
      <4>1. Free \in SUBSET Engines
        BY DEF Free
      <4>. QED
        BY <4>1, Numbers
    <3>2. idle # None => idle \in Engines
      BY DEF PieceInv, ControlTypes
    <3>. QED
      BY <1>9, <3>1, <3>2 DEF Dispatch
  <2>3. UNCHANGED <<pack, engineVars>> => KeepsAll
    BY <2>1, StillKeeps DEF engineVars
  <2>. QED
    BY <2>1, <2>2, <2>3, RunKeeps
<1>10. EngineStep => KeepsAll
  BY EngineKeeps DEF EngineStep
<1>11. Stop \/ StopNotify => KeepsAll
  BY StillKeeps DEF Stop, StopNotify, batcherVars, engineVars, callVars
<1>12. Join \/ Close => KeepsAll
  BY StillKeeps DEF Join, Close, batcherVars, engineVars, callVars
<1>. QED
  BY <1>1, <1>2, <1>3, <1>4, <1>5, <1>6, <1>7, <1>8, <1>9, <1>10, <1>11, <1>12, Numbers
     DEF Next, SenderStep, TimerStep, DispatchStep, OwnerStep

LEMMA LostNext ==
  ASSUME PieceInv, StopOK, EmptyOK, NothingLost, Next
  PROVE  NothingLost'
<1>. SUFFICES ASSUME NEW p \in given' PROVE reports'[p] > 0 \/ Waits(p)'
  BY DEF NothingLost
<1>1. CASE p \in given
  <2>1. p \in Pieces /\ (reports[p] > 0 \/ Waits(p))
    BY <1>1 DEF NothingLost, PieceInv, PieceTypes
  <2>2. reports[p] > 0 => reports'[p] > 0
    BY <2>1, GivenKept
  <2>3. Waits(p) => Waits(p)' \/ reports'[p] > 0
    BY <2>1, AllKept DEF KeepsAll
  <2>. QED
    BY <2>1, <2>2, <2>3
<1>2. CASE p \notin given
  <2>1. PICK r \in Requests : Upload(r)
    BY <1>2, GivenKept
  <2>. QED
    BY <1>2, <2>1, UploadKeeps
<1>. QED
  BY <1>1, <1>2

\* Nothing that was uploaded disappears between the threads: each piece is reported,
\* or it is where a thread of the executor will find it.
THEOREM NoPieceLost == Spec => []NothingLost
<1>1. Init => LostInv
  <2>. SUFFICES ASSUME Init PROVE LostInv
    OBVIOUS
  <2>1. EmptyOK
    BY Numbers DEF Init, EmptyOK
  <2>2. NothingLost
    BY DEF Init, NothingLost
  <2>. QED
    BY <2>1, <2>2, PieceInit, StopTimerInit DEF LostInv
<1>2. LostInv /\ [Next]_vars => LostInv'
  <2>. SUFFICES ASSUME LostInv, [Next]_vars PROVE LostInv'
    OBVIOUS
  <2>1. PieceInv'
    BY PieceNext DEF LostInv
  <2>2. CASE Next
    <3>1. EmptyOK'
      BY <2>2, TimerHandNext, PackNext DEF LostInv, EmptyOK
    <3>2. NothingLost' /\ StopOK'
      BY <2>2, LostNext, StopNext DEF LostInv
    <3>. QED
      BY <2>1, <3>1, <3>2 DEF LostInv
  <2>3. CASE UNCHANGED vars
    <3>1. StopOK' /\ EmptyOK'
      BY <2>3 DEF LostInv, StopOK, EmptyOK, vars, callVars
    <3>2. NothingLost'
      BY <2>3 DEF LostInv, NothingLost, Waits, PiecesIn, vars, callVars, batcherVars, engineVars
    <3>. QED
      BY <2>1, <3>1, <3>2 DEF LostInv
  <2>. QED
    BY <2>2, <2>3
<1>3. LostInv => NothingLost
  BY DEF LostInv
<1>. QED
  BY <1>1, <1>2, <1>3, PTL DEF Spec
=============================================================================
