------------------------ MODULE SerialJournal_proofs ------------------------
(***************************************************************************)
(* The receive journal is honest, for any number of segments, records,     *)
(* starts and faults.                                                      *)
(*                                                                         *)
(* Two arguments meet.  On the disk, file numbers grow with time, names    *)
(* are in the order of their files and what has lost its name is older     *)
(* than what has one; rotation keeps that at every cut.  In the reader, a  *)
(* scan in which no examined record lacks its predecessor is a run from    *)
(* `since`, up to the cap; and a record at or past the received cursor was *)
(* seen, or the answer says that the capture is pending.                   *)
(***************************************************************************)
EXTENDS SerialJournal, FiniteSetTheorems, FunctionTheorems, SequenceTheorems, WellFoundedInduction, TLAPS

\* What the checkpoint has published covers what the status calls captured, while no fault is
\* recorded.
WriterInv ==
  /\ epoch \in 0..MaxEpochs /\ (wpc # "down" => epoch > 0)
  /\ mem.recv = rx /\ captured <= rx
  /\ wpc \in {"failing", "report"} => mem.err
  /\ ckpt.epoch = epoch /\ ~ckpt.err /\ ~mem.err => captured <= ckpt.recv

\* Names are in the order of their files, the active one is the newest, and a file without a
\* name is older than all that have one.
NamesInv ==
  /\ names[0] \in {0, Len(files)}
  /\ \A i, j \in Names : i > j /\ names[i] # 0 /\ names[j] # 0 => names[i] < names[j]
  /\ \A f \in 1..Len(files) : (\A i \in Names : names[i] # f) =>
       \A i \in Names : names[i] # 0 => f < names[i]

\* Past the oldest name, the one that rotation is about to remove is free already.
RotationInv ==
  /\ wpc \in {"remove", "rename"} => idx > 0
  /\ wpc = "rename" => names[idx] = 0
  /\ wpc = "remove" /\ idx < Segments - 1 => names[idx] = 0

Holds(f, i) == f \in DOMAIN files /\ i \in DOMAIN files[f] /\ files[f][i].k = "rec"
RecordAt(f, i) == <<files[f][i].e, files[f][i].n>>
Unwritten == wpc \in {"save", "remove", "rename", "open", "write"}

\* Records lie in the files in the order they were received, none is newer than the chunk at
\* hand, and what was written is in some file, named or not.
RecordsInv ==
  /\ \A f, i, g, j \in Nat :
       Holds(f, i) /\ Holds(g, j) /\ (f < g \/ (f = g /\ i < j)) => Before(RecordAt(f, i), RecordAt(g, j))
  /\ \A f, i \in Nat : Holds(f, i) =>
       \/ Before(RecordAt(f, i), <<epoch, rx>>)
       \/ RecordAt(f, i) = <<epoch, rx>> /\ ~Unwritten
  /\ \A a \in stored : \E f, i \in Nat : Holds(f, i) /\ RecordAt(f, i) = a

\* While a record is being written its line is the last of the active file.
LineInv ==
  wpc = "write" =>
    /\ names[0] # 0 /\ files[names[0]] # << >>
    /\ LET l == files[names[0]][Len(files[names[0]])]
       IN l.k # "mess" => l.k \in {"part", "bare"} /\ l.e = epoch /\ l.n = rx

\* What the reader holds: descriptors of files that exist, and a checkpoint that covers what
\* the capture thread had finished with when the read began.
ViewInv ==
  /\ rpc = "opening" => at >= 0
  /\ \A i \in DOMAIN opened : opened[i].file \in 1..Len(files)
  /\ rpc \in {"opening", "scanning"} /\ mark > 0 =>
       view.epoch = req.e /\ (view.err \/ mark <= view.recv)

JournalInv ==
  /\ JournalTypeOK /\ WriterInv
  /\ NamesInv /\ RotationInv /\ RecordsInv /\ LineInv
  /\ ViewInv /\ CleanReadIsComplete /\ ReadIsContiguous

USE JournalAssumption

-----------------------------------------------------------------------------
(***************************************************************************)
(* Sets of numbers.                                                        *)
(***************************************************************************)
\* A set of numbers that is not empty has a least one.
LEMMA LeastNumber ==
  ASSUME NEW S, S \subseteq Nat, S # {}
  PROVE  \E m \in S : \A n \in S : m <= n
<1>1. PICK m \in S : \A n \in S : ~(<<n, m>> \in OpToRel(<, Nat))
  BY NatLessThanWellFounded, WFMin
<1>2. \A n \in S : ~(n < m)
  BY <1>1 DEF OpToRel
<1> QED BY <1>2

\* How many numbers an interval has.
LEMMA IntervalSize ==
  ASSUME NEW a \in Int, NEW b \in Int, a <= b + 1
  PROVE  Cardinality(a..b) = b - a + 1
<1>1. Cardinality(a..b) = IF a > b THEN 0 ELSE b - a + 1
  BY FS_Interval
<1> QED BY <1>1

\* A finite set of numbers leaves one out above any bound.
LEMMA FiniteLeavesOneOut ==
  ASSUME NEW L \in SUBSET Nat, IsFiniteSet(L), NEW s \in Nat
  PROVE  \E m \in Nat : m > s /\ m \notin L
<1> DEFINE c == Cardinality(L)
           b == s + 1 + c
           I == (s + 1)..b
<1>1. c \in Nat
  BY FS_CardinalityType
<1>2. Cardinality(I) = c + 1
  <2> HIDE DEF c
  <2>1. s + 1 \in Int /\ b \in Int /\ s + 1 <= b + 1 /\ b - (s + 1) + 1 = c + 1
    BY <1>1
  <2> HIDE DEF b
  <2> QED BY <2>1, IntervalSize
<1>3. ~(I \subseteq L)
  <2> SUFFICES ASSUME I \subseteq L PROVE FALSE
    OBVIOUS
  <2>1. Cardinality(I) <= c
    BY FS_Subset
  <2> HIDE DEF I, c
  <2> QED BY <2>1, <1>1, <1>2
<1>4. PICK m \in I : m \notin L
  BY <1>3
<1> QED BY <1>4, <1>1

\* How many numbers of L are below n.
Below(L, n) == Cardinality({m \in L : m < n})

\* Below n, all of them, when L has every number from s to n.
LEMMA BelowInRun ==
  ASSUME NEW L \in SUBSET Nat, NEW s \in Nat, \A m \in L : m > s,
         NEW n \in Nat, n > s, (s + 1)..(n - 1) \subseteq L
  PROVE  Below(L, n) = n - s - 1
<1>1. {m \in L : m < n} = (s + 1)..(n - 1)
  <2>1. ASSUME NEW m \in L, m < n PROVE m \in (s + 1)..(n - 1)
    BY <2>1
  <2>2. ASSUME NEW m \in (s + 1)..(n - 1) PROVE m \in L /\ m < n
    BY <2>2
  <2> QED BY <2>1, <2>2
<1>2. s + 1 \in Int /\ n - 1 \in Int /\ s + 1 <= (n - 1) + 1 /\ (n - 1) - (s + 1) + 1 = n - s - 1
  OBVIOUS
<1>3. Cardinality((s + 1)..(n - 1)) = n - s - 1
  BY <1>2, IntervalSize
<1> QED BY <1>1, <1>3 DEF Below

\* If no number of L among the first M + 1 lacks its predecessor, L begins with a run from s,
\* and it is that run or the run is longer than M.
LEMMA RunFromSince ==
  ASSUME NEW L \in SUBSET Nat, IsFiniteSet(L), NEW s \in Nat, \A m \in L : m > s, NEW M \in Nat,
         \A n \in L : Below(L, n) <= M /\ n # s + 1 => n - 1 \in L
  PROVE  \E top \in Nat : /\ top >= s /\ (s + 1)..top \subseteq L
                          /\ L = (s + 1)..top \/ top - s > M
<1> DEFINE Out == {m \in Nat : m > s /\ m \notin L}
<1>1. PICK m \in Out : \A n \in Out : m <= n
  <2>1. Out # {}
    BY FiniteLeavesOneOut
  <2> HIDE DEF Out
  <2>2. Out \subseteq Nat
    BY DEF Out
  <2> QED BY <2>1, <2>2, LeastNumber
<1>2. m \in Nat /\ m > s /\ m \notin L /\ (s + 1)..(m - 1) \subseteq L
  BY <1>1
<1>3. CASE \A n \in L : n < m
  <2>1. L = (s + 1)..(m - 1)
    <3>1. ASSUME NEW x \in L PROVE x \in (s + 1)..(m - 1)
      BY <1>2, <1>3, <3>1
    <3> QED BY <3>1, <1>2
  <2>2. m - 1 \in Nat /\ m - 1 >= s
    BY <1>2
  <2> QED BY <2>1, <2>2, <1>2
<1>4. CASE \E n \in L : n > m
  <2> DEFINE Up == {n \in L : n > m}
  <2>1. PICK n \in Up : \A x \in Up : n <= x
    <3>1. Up \subseteq Nat /\ Up # {}
      BY <1>4
    <3> HIDE DEF Up
    <3> QED BY <3>1, LeastNumber
  <2>2. n \in L /\ n > m /\ n \in Nat /\ n - 1 \notin L /\ n # s + 1
    BY <2>1, <1>2
  <2>3. ~(Below(L, n) <= M)
    BY <2>2
  <2>4. {x \in L : x < n} = {x \in L : x < m}
    <3>1. ASSUME NEW x \in L, x < n PROVE x < m
      BY <3>1, <2>1, <1>2
    <3>2. ASSUME NEW x \in L, x < m PROVE x < n
      BY <3>2, <2>2, <1>2
    <3> QED BY <3>1, <3>2
  <2>5. Below(L, n) = m - s - 1
    <3>1. Below(L, m) = m - s - 1
      BY <1>2, BelowInRun
    <3> QED BY <3>1, <2>4 DEF Below
  <2>6. m - 1 \in Nat /\ m - 1 >= s /\ (m - 1) - s > M
    BY <2>3, <2>5, <1>2
  <2> QED BY <2>6, <1>2
<1>5. (\A n \in L : n < m) \/ (\E n \in L : n > m)
  BY <1>2
<1> QED BY <1>3, <1>4, <1>5

\* So the first M of them are a run from s, and reach as far as any number of L or to the cap.
LEMMA CappedRun ==
  ASSUME NEW L \in SUBSET Nat, IsFiniteSet(L), NEW s \in Nat, \A m \in L : m > s, NEW M \in Nat,
         \A n \in L : Below(L, n) <= M /\ n # s + 1 => n - 1 \in L
  PROVE  \E t \in Nat :
           /\ t >= s /\ {n \in L : Below(L, n) < M} = (s + 1)..t
           /\ \A n \in Nat, x \in L : n > t /\ n <= x => Cardinality(L) > M /\ n > s + M
<1>1. PICK top \in Nat : top >= s /\ (s + 1)..top \subseteq L /\ (L = (s + 1)..top \/ top - s > M)
  BY RunFromSince
<1>2. \A n \in (s + 1)..top : Below(L, n) = n - s - 1
  <2> TAKE n \in (s + 1)..top
  <2>1. n \in Nat /\ n > s /\ (s + 1)..(n - 1) \subseteq L
    BY <1>1
  <2> QED BY <2>1, BelowInRun
<1>3. \A n \in L : n > top => Below(L, n) >= M
  <2> SUFFICES ASSUME NEW n \in L, n > top PROVE Below(L, n) >= M
    OBVIOUS
  <2>1. top - s > M
    BY <1>1
  <2>2. (s + 1)..top \subseteq {x \in L : x < n}
    BY <1>1
  <2>3. IsFiniteSet({x \in L : x < n})
    BY FS_Subset
  <2>4. Cardinality((s + 1)..top) <= Below(L, n)
    BY <2>2, <2>3, FS_Subset DEF Below
  <2>5. Cardinality((s + 1)..top) = top - s
    <3>1. s + 1 \in Int /\ top \in Int /\ s + 1 <= top + 1 /\ top - (s + 1) + 1 = top - s
      BY <1>1
    <3> QED BY <3>1, IntervalSize
  <2>6. Below(L, n) \in Nat
    BY <2>3, FS_CardinalityType DEF Below
  <2> QED BY <2>1, <2>4, <2>5, <2>6
<1> DEFINE t == IF top < s + M THEN top ELSE s + M
<1>4. t \in Nat /\ t >= s /\ t <= top /\ t <= s + M
  BY <1>1
<1>5. {n \in L : Below(L, n) < M} = (s + 1)..t
  <2>1. ASSUME NEW n \in L, Below(L, n) < M PROVE n \in (s + 1)..t
    <3>0. n \in Nat /\ n > s
      OBVIOUS
    <3>1. n <= top
      <4>1. CASE n > top
        <5>1. Below(L, n) \in Nat
          BY FS_Subset, FS_CardinalityType DEF Below
        <5> QED BY <5>1, <4>1, <1>3, <2>1
      <4> QED BY <4>1, <3>0
    <3>2. Below(L, n) = n - s - 1
      BY <3>0, <3>1, <1>2
    <3> QED BY <3>0, <3>1, <3>2, <2>1
  <2>2. ASSUME NEW n \in (s + 1)..t PROVE n \in L /\ Below(L, n) < M
    <3>1. n \in (s + 1)..top
      BY <1>4
    <3>2. n \in L /\ Below(L, n) = n - s - 1
      BY <3>1, <1>1, <1>2
    <3> QED BY <3>2, <1>4
  <2> QED BY <2>1, <2>2
<1>6. ASSUME NEW n \in Nat, NEW x \in L, n > t, n <= x
      PROVE  Cardinality(L) > M /\ n > s + M
  <2>1. top - s > M
    BY <1>1, <1>6
  <2>2. Cardinality((s + 1)..top) = top - s
    <3>1. s + 1 \in Int /\ top \in Int /\ s + 1 <= top + 1 /\ top - (s + 1) + 1 = top - s
      BY <1>1
    <3> QED BY <3>1, IntervalSize
  <2>3. Cardinality((s + 1)..top) <= Cardinality(L)
    BY <1>1, FS_Subset
  <2>4. Cardinality(L) \in Nat
    BY FS_CardinalityType
  <2> QED BY <2>1, <2>2, <2>3, <2>4, <1>6, <1>4
<1> HIDE DEF t
<1> QED BY <1>4, <1>5, <1>6

-----------------------------------------------------------------------------
(***************************************************************************)
(* Sequences.                                                              *)
(***************************************************************************)
\* The places of a sequence and what is there.
LEMMA SeqFacts ==
  ASSUME NEW S, NEW q \in Seq(S)
  PROVE  Len(q) \in Nat /\ DOMAIN q = 1..Len(q) /\ (\A i \in 1..Len(q) : q[i] \in S) /\ (q # << >> <=> Len(q) > 0)
BY LenProperties, ElementOfSeq, EmptySeq

\* What is so of the elements of a function on 1..n is so of a sequence.
LEMMA FunctionIsSeq ==
  ASSUME NEW S, NEW n \in Nat, NEW f \in [1..n -> S]
  PROVE  f \in Seq(S) /\ Len(f) = n
BY SeqDef, LenProperties

-----------------------------------------------------------------------------
(***************************************************************************)
(* What a read answers.                                                    *)
(***************************************************************************)
\* The numbers a read may return are finitely many, and after `since`.
LEMMA LaterFacts ==
  ASSUME JournalTypeOK
  PROVE  /\ Selected \subseteq Nat
         /\ Later \in SUBSET Nat /\ IsFiniteSet(Later) /\ \A m \in Later : m > req.since
         /\ req.since \in Nat
<1> DEFINE D == 1..Len(seen)
           F == [i \in D |-> seen[i].line.n]
           T == {F[i] : i \in D}
<1>1. DOMAIN seen = D /\ Len(seen) \in Nat /\ \A i \in D : seen[i].line.n \in Nat
  <2>1. seen \in Seq([active : BOOLEAN, line : Line])
    BY DEF JournalTypeOK
  <2>2. \A i \in 1..Len(seen) : seen[i] \in [active : BOOLEAN, line : Line]
    BY ONLY <2>1, SeqFacts
  <2>3. \A x \in [active : BOOLEAN, line : Line] : x.line.n \in Nat
    BY DEF Line
  <2> QED BY <2>1, <2>2, <2>3, SeqFacts
<1>2. Selected \subseteq T
  <2> SUFFICES ASSUME NEW n \in Selected PROVE n \in T
    OBVIOUS
  <2>1. PICK x \in Seen : n = x.line.n
    BY DEF Selected, Acquired, Parsed
  <2>2. PICK i \in D : x = seen[i]
    BY <2>1, <1>1 DEF Seen
  <2> QED BY <2>1, <2>2
<1>3. T \subseteq Nat
  BY <1>1
<1>4. IsFiniteSet(T)
  <2>1. IsFiniteSet(D)
    BY <1>1, FS_Interval
  <2>2. F \in Surjection(D, T)
    BY DEF Surjection
  <2> HIDE DEF F, T, D
  <2> QED BY <2>1, <2>2, FS_Surjection
<1>5. req.since \in Nat
  BY DEF JournalTypeOK
<1>6. Later \in SUBSET T
  BY <1>2 DEF Later
<1>7. IsFiniteSet(Later)
  BY <1>4, <1>6, FS_Subset
<1> HIDE DEF T
<1> QED BY <1>2, <1>3, <1>5, <1>6, <1>7 DEF Later

\* An answer without a gap is a run from `since`, which ends at the cap or past all that was
\* selected.
LEMMA ReportIsRun ==
  ASSUME JournalTypeOK, ~Report.gap
  PROVE  \E t \in Nat :
           /\ t >= req.since /\ Report.records = (req.since + 1)..t
           /\ \A n \in Nat, x \in Selected : n > t /\ n > req.since /\ n <= x =>
                Report.capped /\ n > req.since + MaxRecords
<1>1. ~Breaks
  BY DEF Report
<1>2. \A n \in Later : Rank(n) = Below(Later, n)
  BY DEF Rank, Below
<1>3. \A n \in Later : Below(Later, n) <= MaxRecords /\ n # req.since + 1 => n - 1 \in Later
  BY <1>1, <1>2 DEF Breaks
<1>4. PICK t \in Nat :
        /\ t >= req.since /\ {n \in Later : Below(Later, n) < MaxRecords} = (req.since + 1)..t
        /\ \A n \in Nat, x \in Later : n > t /\ n <= x =>
             Cardinality(Later) > MaxRecords /\ n > req.since + MaxRecords
  <2>1. MaxRecords \in Nat
    OBVIOUS
  <2> QED BY <2>1, <1>3, LaterFacts, CappedRun
<1>5. Report.records = {n \in Later : Below(Later, n) < MaxRecords}
  BY <1>2 DEF Report
<1>6. Report.capped = (Cardinality(Later) > MaxRecords)
  BY DEF Report
<1>7. ASSUME NEW n \in Nat, NEW x \in Selected, n > t, n > req.since, n <= x
      PROVE  Report.capped /\ n > req.since + MaxRecords
  <2>1. x \in Later
    BY <1>7, LaterFacts DEF Later
  <2> QED BY <2>1, <1>4, <1>6, <1>7
<1> QED BY <1>4, <1>5, <1>7

\* A read that ends is contiguous and complete, or says that it is not.
LEMMA FinishedReadIsHonest ==
  ASSUME JournalInv, FinishRead
  PROVE  answer' \in Answer /\ CleanReadIsComplete' /\ ReadIsContiguous'
<1>0. JournalTypeOK /\ rpc = "scanning" /\ answer' = Report /\ req' = req /\ mark' = mark /\ mark \in Nat
  BY DEF JournalInv, FinishRead, JournalTypeOK
<1>1. Report \in Answer
  <2>1. Report.records \subseteq Nat
    BY <1>0, LaterFacts DEF Report
  <2>2. Report = [records |-> Report.records, gap |-> Report.gap, pending |-> Report.pending,
                  missing |-> Report.missing, capped |-> Report.capped]
    BY DEF Report
  <2>3. Report.gap \in BOOLEAN /\ Report.pending \in BOOLEAN /\ Report.missing \in BOOLEAN
        /\ Report.capped \in BOOLEAN
    BY DEF Report
  <2> QED BY <2>1, <2>2, <2>3 DEF Answer
<1>2. ReadIsContiguous'
  <2> SUFFICES ASSUME ~Report.gap
               PROVE  Report.records = (req.since + 1)..(req.since + Cardinality(Report.records))
    BY <1>0 DEF ReadIsContiguous
  <2>1. PICK t \in Nat : t >= req.since /\ Report.records = (req.since + 1)..t
    BY <1>0, ReportIsRun
  <2>2. req.since \in Nat
    BY <1>0, LaterFacts
  <2>3. Cardinality((req.since + 1)..t) = t - (req.since + 1) + 1
    BY <2>1, <2>2, IntervalSize
  <2>4. req.since + (t - (req.since + 1) + 1) = t
    BY <2>2
  <2> QED BY <2>1, <2>3, <2>4
<1>3. CleanReadIsComplete'
  <2> SUFFICES ASSUME ~Report.gap, ~Report.pending, NEW n \in (req.since + 1)..mark
               PROVE  n \in Report.records \/ (Report.capped /\ n > req.since + MaxRecords)
    BY <1>0 DEF CleanReadIsComplete, Clean
  <2>0. req.since \in Nat /\ n \in Nat /\ n > req.since /\ n <= mark
    BY <1>0, LaterFacts
  <2>1. PICK t \in Nat :
          /\ t >= req.since /\ Report.records = (req.since + 1)..t
          /\ \A m \in Nat, x \in Selected : m > t /\ m > req.since /\ m <= x =>
                Report.capped /\ m > req.since + MaxRecords
    BY <1>0, ReportIsRun
  <2>2. view.epoch = req.e /\ mark <= view.recv /\ view.recv \in Nat
    <3>1. ~view.err
      BY DEF Report
    <3>2. view \in Checkpoint /\ mark > 0
      BY <2>0, <1>0 DEF JournalTypeOK
    <3>3. ViewInv
      BY DEF JournalInv
    <3>4. view.recv \in Nat
      BY <3>2 DEF Checkpoint
    <3> QED BY <3>1, <3>2, <3>3, <3>4, <1>0 DEF ViewInv
  <2>3. PICK x \in Selected : ~(x < view.recv)
    BY <2>2 DEF Report, Behind
  <2>4. x \in Nat /\ n <= x
    BY <2>0, <2>2, <2>3, <1>0, LaterFacts
  <2> QED BY <2>0, <2>1, <2>4
<1> QED BY <1>0, <1>1, <1>2, <1>3

-----------------------------------------------------------------------------
(***************************************************************************)
(* What a write does to the records on disk.                               *)
(***************************************************************************)
\* A first piece of a record disturbs no record, and is the last line or damages it.
LEMMA TornFacts ==
  ASSUME NEW lines \in Seq(Line), epoch \in Nat, rx \in Nat, NEW k \in {"part", "bare"}
  PROVE  /\ Torn(lines, k) \in Seq(Line) /\ Len(Torn(lines, k)) > 0
         /\ \A i \in Nat : (i \in 1..Len(Torn(lines, k)) /\ Torn(lines, k)[i].k = "rec")
                             <=> (i \in 1..Len(lines) /\ lines[i].k = "rec")
         /\ \A i \in 1..Len(lines) : lines[i].k = "rec" => Torn(lines, k)[i] = lines[i]
         /\ LET l == Torn(lines, k)[Len(Torn(lines, k))]
            IN l.k # "mess" => l.k \in {"part", "bare"} /\ l.e = epoch /\ l.n = rx
<1> DEFINE n == Len(lines)
<1>0. n \in Nat /\ (lines # << >> <=> n > 0) /\ \A i \in 1..n : lines[i] \in Line
  BY SeqFacts
<1>1. CASE lines # << >> /\ Unterminated(lines[n])
  <2> DEFINE m == [lines[n] EXCEPT !.k = "mess"]
  <2>1. n \in 1..n /\ lines[n] \in Line
    BY <1>0, <1>1
  <2>2. m \in Line /\ m.k = "mess"
    BY <2>1 DEF Line, LineKinds
  <2>3. Torn(lines, k) = [lines EXCEPT ![n] = m]
    BY <1>1 DEF Torn
  <2>4. lines[n].k # "rec"
    BY <1>1 DEF Unterminated
  <2> HIDE DEF m
  <2>5. /\ Torn(lines, k) \in Seq(Line) /\ Len(Torn(lines, k)) = n
        /\ \A i \in 1..n : Torn(lines, k)[i] = IF i = n THEN m ELSE lines[i]
    BY <2>1, <2>2, <2>3, ExceptSeq
  <2> HIDE DEF n
  <2> QED BY <1>0, <2>1, <2>2, <2>4, <2>5 DEF n
<1>2. CASE ~(lines # << >> /\ Unterminated(lines[n]))
  <2> DEFINE a == [k |-> k, e |-> epoch, n |-> rx]
  <2>1. a \in Line /\ a.k \in {"part", "bare"} /\ a.e = epoch /\ a.n = rx
    BY DEF Line, LineKinds
  <2>2. Torn(lines, k) = Append(lines, a)
    BY <1>2 DEF Torn
  <2> HIDE DEF a
  <2>3. /\ Torn(lines, k) \in Seq(Line) /\ Len(Torn(lines, k)) = n + 1
        /\ \A i \in 1..n : Torn(lines, k)[i] = lines[i]
        /\ Torn(lines, k)[n + 1] = a
    BY <2>1, <2>2, AppendProperties
  <2> QED BY <1>0, <2>1, <2>3
<1> QED BY <1>1, <1>2

\* Opening the active file and starting a line on it: the file is created if it has no name,
\* and no record comes or goes.
LEMMA StartWriteFiles ==
  ASSUME JournalInv, NEW k \in {"part", "bare"}, StartWrite(k)
  PROVE  /\ files' \in Seq(Seq(Line)) /\ names' \in [Names -> 0..Len(files')]
         /\ names'[0] = Len(files') /\ names'[0] > 0
         /\ \/ names' = names /\ Len(files') = Len(files)
            \/ names[0] = 0 /\ names' = [names EXCEPT ![0] = Len(files) + 1] /\ Len(files') = Len(files) + 1
         /\ \A f, i \in Nat : Holds(f, i)' <=> Holds(f, i)
         /\ \A f, i \in Nat : Holds(f, i) => RecordAt(f, i)' = RecordAt(f, i)
         /\ files'[names'[0]] # << >>
         /\ LET l == files'[names'[0]][Len(files'[names'[0]])]
            IN l.k # "mess" => l.k \in {"part", "bare"} /\ l.e = epoch /\ l.n = rx
<1>0. /\ files \in Seq(Seq(Line)) /\ names \in [Names -> 0..Len(files)] /\ epoch \in Nat /\ rx \in Nat
      /\ names[0] \in {0, Len(files)} /\ 0 \in Names
  BY DEF JournalInv, JournalTypeOK, NamesInv, Names
<1>1. Len(files) \in Nat /\ DOMAIN files = 1..Len(files) /\ \A f \in 1..Len(files) : files[f] \in Seq(Line)
  BY <1>0, SeqFacts
<1>2. \A f \in 1..Len(files) : DOMAIN files[f] = 1..Len(files[f])
  BY <1>1, SeqFacts
<1>3. CASE names[0] = 0
  <2>2. PICK empty \in Seq(Line) : empty = << >> /\ Len(empty) = 0
    BY EmptySeq
  <2> DEFINE t == Torn(empty, k)
  <2>1. files' = Append(files, t) /\ names' = [names EXCEPT ![0] = Len(files) + 1]
    BY <1>3, <2>2 DEF StartWrite
  <2>3. /\ t \in Seq(Line) /\ Len(t) > 0 /\ (\A i \in 1..Len(t) : t[i].k # "rec")
        /\ t[Len(t)].k # "mess" => t[Len(t)].k \in {"part", "bare"} /\ t[Len(t)].e = epoch /\ t[Len(t)].n = rx
    <3>1. \A i \in Nat : (i \in 1..Len(t) /\ t[i].k = "rec") <=> (i \in 1..Len(empty) /\ empty[i].k = "rec")
      BY <1>0, TornFacts
    <3>2. /\ t \in Seq(Line) /\ Len(t) > 0
          /\ t[Len(t)].k # "mess" => t[Len(t)].k \in {"part", "bare"} /\ t[Len(t)].e = epoch /\ t[Len(t)].n = rx
      BY <1>0, TornFacts
    <3> HIDE DEF t
    <3>3. Len(t) \in Nat
      BY <3>2, SeqFacts
    <3>4. Len(empty) = 0
      BY <2>2
    <3>5. \A i \in 1..Len(t) : t[i].k # "rec"
      BY ONLY <3>1, <3>3, <3>4
    <3> QED BY <3>2, <3>5
  <2> HIDE DEF t
  <2>4. /\ files' \in Seq(Seq(Line)) /\ Len(files') = Len(files) + 1
        /\ \A f \in 1..Len(files) : files'[f] = files[f]
        /\ files'[Len(files) + 1] = t
    BY <1>0, <2>1, <2>3, AppendProperties
  <2>5. DOMAIN files' = 1..(Len(files) + 1) /\ DOMAIN t = 1..Len(t) /\ t # << >>
    BY <2>3, <2>4, SeqFacts
  <2>6. names'[0] = Len(files) + 1 /\ names' \in [Names -> 0..(Len(files) + 1)]
    BY <1>0, <1>1, <2>1
  <2>7. \A f, i \in Nat : Holds(f, i)' <=> Holds(f, i)
    BY <1>1, <2>3, <2>4, <2>5 DEF Holds
  <2>8. \A f, i \in Nat : Holds(f, i) => RecordAt(f, i)' = RecordAt(f, i)
    BY <1>1, <2>4 DEF Holds, RecordAt
  <2>9. /\ files' \in Seq(Seq(Line)) /\ names' \in [Names -> 0..Len(files')]
        /\ names'[0] = Len(files') /\ names'[0] > 0
    BY ONLY <1>1, <2>4, <2>6
  <2>10. files'[names'[0]] = t
    BY ONLY <2>4, <2>6
  <2> QED BY ONLY <1>3, <2>1, <2>3, <2>4, <2>5, <2>7, <2>8, <2>9, <2>10
<1>4. CASE names[0] # 0
  <2> DEFINE g == names[0]
             t == Torn(files[g], k)
  <2>1. files' = [files EXCEPT ![g] = t] /\ names' = names
    BY <1>4 DEF StartWrite
  <2>2. g \in 1..Len(files) /\ g = Len(files) /\ files[g] \in Seq(Line)
    BY <1>0, <1>1, <1>4
  <2>3. /\ t \in Seq(Line) /\ Len(t) > 0
        /\ \A i \in Nat : (i \in 1..Len(t) /\ t[i].k = "rec") <=> (i \in 1..Len(files[g]) /\ files[g][i].k = "rec")
        /\ \A i \in 1..Len(files[g]) : files[g][i].k = "rec" => t[i] = files[g][i]
        /\ t[Len(t)].k # "mess" => t[Len(t)].k \in {"part", "bare"} /\ t[Len(t)].e = epoch /\ t[Len(t)].n = rx
    BY <1>0, <2>2, TornFacts
  <2> HIDE DEF t, g
  <2>4. /\ files' \in Seq(Seq(Line)) /\ Len(files') = Len(files)
        /\ \A f \in 1..Len(files) : files'[f] = IF f = g THEN t ELSE files[f]
    BY <1>0, <2>1, <2>2, <2>3, ExceptSeq
  <2>5. DOMAIN files' = 1..Len(files) /\ DOMAIN t = 1..Len(t) /\ t # << >> /\ DOMAIN files[g] = 1..Len(files[g])
    BY <2>2, <2>3, <2>4, <1>2, SeqFacts
  <2>6. \A f, i \in Nat : Holds(f, i)' <=> Holds(f, i)
    BY <1>1, <2>2, <2>3, <2>4, <2>5 DEF Holds
  <2>7. \A f, i \in Nat : Holds(f, i) => RecordAt(f, i)' = RecordAt(f, i)
    <3>1. SUFFICES ASSUME NEW f \in Nat, NEW i \in Nat, Holds(f, i) PROVE files'[f][i] = files[f][i]
      BY DEF RecordAt
    <3>2. f \in 1..Len(files) /\ i \in DOMAIN files[f] /\ files[f][i].k = "rec"
      BY <3>1, <1>1 DEF Holds
    <3>3. CASE f = g
      BY ONLY <3>2, <3>3, <2>3, <2>4, <2>5
    <3>4. CASE f # g
      BY ONLY <3>2, <3>4, <2>4
    <3> QED BY <3>3, <3>4
  <2>8. names'[0] = g /\ files'[g] = t
    BY <2>1, <2>2, <2>4 DEF g
  <2> QED BY <1>0, <2>1, <2>2, <2>3, <2>4, <2>5, <2>6, <2>7, <2>8
<1> QED BY <1>3, <1>4

\* A step that adds the record under way as the last of all, line n of file g, or none.
Adds(g, n) ==
  /\ \A f, i \in Nat : Holds(f, i) =>
       /\ Holds(f, i)' /\ RecordAt(f, i)' = RecordAt(f, i)
       /\ f < g \/ (f = g /\ i < n)
  /\ \/ stored' = stored /\ \A f, i \in Nat : Holds(f, i)' => Holds(f, i)
     \/ /\ stored' = stored \cup {<<epoch, rx>>}
        /\ Holds(g, n)' /\ RecordAt(g, n)' = <<epoch, rx>>
        /\ \A f, i \in Nat : Holds(f, i)' => Holds(f, i) \/ (f = g /\ i = n)

\* The newline adds it at the end of the newest file.
LEMMA FinishWriteFiles ==
  ASSUME JournalInv, FinishWrite
  PROVE  /\ files' \in Seq(Seq(Line)) /\ Len(files') = Len(files)
         /\ \E g, n \in Nat : Adds(g, n)
<1>0. /\ files \in Seq(Seq(Line)) /\ names \in [Names -> 0..Len(files)] /\ epoch \in Nat /\ rx \in Nat
      /\ names[0] \in {0, Len(files)} /\ 0 \in Names
  BY DEF JournalInv, JournalTypeOK, NamesInv, Names
<1>1. Len(files) \in Nat /\ DOMAIN files = 1..Len(files) /\ \A f \in 1..Len(files) : files[f] \in Seq(Line)
  BY <1>0, SeqFacts
<1>2. wpc = "write" /\ LineInv
  BY DEF JournalInv, FinishWrite
<1>3. PICK g \in 1..Len(files) : g = names[0] /\ g = Len(files) /\ files[g] \in Seq(Line) /\ files[g] # << >>
  <2>1. names[0] # 0 /\ files[names[0]] # << >>
    BY <1>2 DEF LineInv
  <2>2. names[0] = Len(files) /\ names[0] \in 1..Len(files)
    BY <2>1, <1>0, <1>1
  <2> QED BY <2>1, <2>2, <1>1
<1>g. g \in Nat
  BY <1>1
<1>4. PICK n \in Nat : n = Len(files[g]) /\ n > 0 /\ DOMAIN files[g] = 1..n
  BY <1>3, SeqFacts
<1> DEFINE l == files[g][n]
           m == [l EXCEPT !.k = IF @ = "mess" THEN "bad" ELSE "rec"]
           t == [files[g] EXCEPT ![n] = m]
<1>a. l \in Line /\ (l.k # "mess" => l.k \in {"part", "bare"} /\ l.e = epoch /\ l.n = rx)
  <2>1. l \in Line
    BY <1>3, <1>4, SeqFacts
  <2> QED BY <2>1, <1>2, <1>3, <1>4 DEF LineInv
<1>5. /\ files' = [files EXCEPT ![g] = t]
      /\ stored' = IF l.k = "mess" THEN stored ELSE stored \cup {<<epoch, rx>>}
  BY <1>3, <1>4 DEF FinishWrite
<1>6. m \in Line /\ m.k = (IF l.k = "mess" THEN "bad" ELSE "rec") /\ m.e = l.e /\ m.n = l.n
  BY <1>a DEF Line, LineKinds
<1>11. l = files[g][n] /\ l.k # "rec"
  BY <1>a
<1> HIDE DEF m, l
<1>8. t \in Seq(Line) /\ Len(t) = n /\ \A i \in 1..n : t[i] = IF i = n THEN m ELSE files[g][i]
  BY <1>3, <1>4, <1>6, ExceptSeq
<1> HIDE DEF t
<1>9. /\ files' \in Seq(Seq(Line)) /\ Len(files') = Len(files)
      /\ \A f \in 1..Len(files) : files'[f] = IF f = g THEN t ELSE files[f]
  BY <1>0, <1>3, <1>5, <1>8, ExceptSeq
<1>10. DOMAIN files' = 1..Len(files) /\ DOMAIN t = 1..n
  BY <1>8, <1>9, SeqFacts
<1>12. ASSUME NEW f \in Nat, NEW i \in Nat, Holds(f, i)
       PROVE  Holds(f, i)' /\ RecordAt(f, i)' = RecordAt(f, i) /\ (f < g \/ (f = g /\ i < n))
  <2>1. f \in 1..Len(files) /\ i \in DOMAIN files[f] /\ files[f][i].k = "rec"
    BY <1>12, <1>1 DEF Holds
  <2>2. CASE f # g
    <3>0. g = Len(files)
      BY <1>3
    <3>1. f < g
      BY <2>1, <2>2, <3>0, <1>1
    <3>2. files'[f] = files[f] /\ f \in DOMAIN files'
      BY <2>1, <2>2, <1>9, <1>10
    <3> QED BY <3>1, <3>2, <2>1 DEF Holds, RecordAt
  <2>3. CASE f = g
    <3>1. i \in 1..n /\ i # n
      BY <2>1, <2>3, <1>4, <1>11
    <3>2. files'[g] = t /\ t[i] = files[g][i] /\ i < n
      BY <3>1, <1>4, <1>8, <1>9
    <3>3. g \in DOMAIN files' /\ i \in DOMAIN t
      BY <3>1, <1>10
    <3> QED BY <3>1, <3>2, <3>3, <2>1, <2>3 DEF Holds, RecordAt
  <2> QED BY <2>2, <2>3
<1>13. ASSUME NEW f \in Nat, NEW i \in Nat, Holds(f, i)'
       PROVE  Holds(f, i) \/ (f = g /\ i = n)
  <2>1. f \in 1..Len(files) /\ i \in DOMAIN files'[f] /\ files'[f][i].k = "rec"
    BY <1>13, <1>10 DEF Holds
  <2>2. CASE f # g
    BY <2>1, <2>2, <1>1, <1>9 DEF Holds
  <2>3. CASE f = g
    BY <2>1, <2>3, <1>1, <1>3, <1>4, <1>8, <1>9, <1>10 DEF Holds
  <2> QED BY <2>2, <2>3
<1>14. files'[g] = t /\ t[n] = m /\ n \in 1..n
  BY <1>3, <1>4, <1>8, <1>9
<1>15. CASE l.k = "mess"
  <2>1. stored' = stored /\ m.k # "rec"
    BY <1>5, <1>6, <1>15
  <2>2. ~Holds(g, n)'
    BY <2>1, <1>14 DEF Holds
  <2>3. stored' = stored /\ \A f, i \in Nat : Holds(f, i)' => Holds(f, i)
    <3> SUFFICES ASSUME NEW f \in Nat, NEW i \in Nat, Holds(f, i)' PROVE Holds(f, i)
      BY <2>1
    <3>1. CASE f = g /\ i = n
      BY <3>1, <2>2
    <3> QED BY <3>1, <1>13
  <2>4. Adds(g, n)
    BY <2>3, <1>12 DEF Adds
  <2> QED BY <2>4, <1>g, <1>9
<1>16. CASE l.k # "mess"
  <2>1. stored' = stored \cup {<<epoch, rx>>} /\ m.k = "rec" /\ m.e = epoch /\ m.n = rx
    BY <1>a, <1>5, <1>6, <1>16
  <2>2. Holds(g, n)' /\ RecordAt(g, n)' = <<epoch, rx>>
    BY <2>1, <1>3, <1>10, <1>14 DEF Holds, RecordAt
  <2>3. /\ stored' = stored \cup {<<epoch, rx>>}
           /\ Holds(g, n)' /\ RecordAt(g, n)' = <<epoch, rx>>
           /\ \A f, i \in Nat : Holds(f, i)' => Holds(f, i) \/ (f = g /\ i = n)
    BY <2>1, <2>2, <1>13
  <2>4. Adds(g, n)
    BY <2>3, <1>12 DEF Adds
  <2> QED BY <2>4, <1>g, <1>9
<1> QED BY <1>15, <1>16

-----------------------------------------------------------------------------
(***************************************************************************)
(* The invariant's parts, action by action.                                *)
(***************************************************************************)
LEMMA JournalTypeStep ==
  ASSUME JournalInv, JournalNext
  PROVE  JournalTypeOK'
<1> USE DEF JournalInv
<1>0. 0 \in Names /\ Segments - 1 \in Names /\ Segments \in Nat
  BY DEF Names
<1>1. CASE Start
  <2>1. epoch + 1 \in Nat /\ ckpt \in Checkpoint
    BY DEF JournalTypeOK
  <2>2. mem' \in Checkpoint
    BY <1>1, <2>1 DEF Start, Checkpoint, Fresh
  <2>3. ckpt' \in Checkpoint
    BY <1>1, <2>1, <2>2 DEF Start
  <2> QED BY <1>1, <2>1, <2>2, <2>3 DEF Start, JournalTypeOK, WriterStates, readerVars
<1>2. CASE Crash
  BY <1>2 DEF Crash, JournalTypeOK, WriterStates, diskVars, readerVars
<1>3. CASE BeginAppend
  <2>0. mem \in Checkpoint /\ rx \in Nat
    BY DEF JournalTypeOK
  <2>a. rx' = rx + 1 /\ mem' = [mem EXCEPT !.recv = rx + 1]
    BY <1>3 DEF BeginAppend
  <2>1. mem' \in Checkpoint /\ rx' \in Nat
    BY ONLY <2>0, <2>a DEF Checkpoint
  <2> QED BY <1>3, <2>1 DEF BeginAppend, JournalTypeOK, WriterStates, diskVars, readerVars
<1>4. CASE SaveReceived
  BY <1>0, <1>4 DEF SaveReceived, JournalTypeOK, WriterStates, readerVars
<1>5. CASE RemoveDest
  BY <1>5 DEF RemoveDest, JournalTypeOK, WriterStates, readerVars
<1>6. CASE RenameSource
  <2>1. idx - 1 \in Names /\ idx \in Names /\ names \in [Names -> 0..Len(files)]
    BY <1>6 DEF RenameSource, RotationInv, Names, JournalTypeOK
  <2>2. names' \in [Names -> 0..Len(files)]
    BY <1>6, <2>1 DEF RenameSource
  <2> QED BY <1>6, <2>1, <2>2 DEF RenameSource, JournalTypeOK, WriterStates, readerVars
<1>7. ASSUME NEW k \in {"part", "bare"}, StartWrite(k) PROVE JournalTypeOK'
  <2>1. files' \in Seq(Seq(Line)) /\ names' \in [Names -> 0..Len(files')]
    BY <1>7, StartWriteFiles
  <2> QED BY <1>7, <2>1 DEF StartWrite, JournalTypeOK, WriterStates, readerVars
<1>8. CASE FinishWrite
  <2>1. files' \in Seq(Seq(Line)) /\ Len(files') = Len(files)
    BY <1>8, FinishWriteFiles
  <2>2. stored' \in SUBSET (Nat \X Nat)
    <3>1. stored \in SUBSET (Nat \X Nat) /\ <<epoch, rx>> \in Nat \X Nat
      BY DEF JournalTypeOK
    <3>2. stored' = stored \/ stored' = stored \cup {<<epoch, rx>>}
      BY <1>8 DEF FinishWrite
    <3> QED BY <3>1, <3>2
  <2>3. mem' \in Checkpoint
    BY <1>8 DEF FinishWrite, JournalTypeOK, Checkpoint
  <2>4. names' = names /\ names \in [Names -> 0..Len(files)]
    BY <1>8 DEF FinishWrite, JournalTypeOK
  <2> QED BY <1>8, <2>1, <2>2, <2>3, <2>4 DEF FinishWrite, JournalTypeOK, WriterStates, readerVars
<1>9. CASE SavePersisted
  BY <1>9 DEF SavePersisted, JournalTypeOK, WriterStates, readerVars
<1>10. CASE Fail
  <2>0. mem \in Checkpoint /\ rx \in Nat /\ faults \in Nat
    BY DEF JournalTypeOK
  <2>4. faults' = faults + 1
    BY <1>10 DEF Fail
  <2>1. mem \in Checkpoint /\ rx \in Nat /\ faults' \in Nat
    BY <2>0, <2>4
  <2>2. mem' = [mem EXCEPT !.err = TRUE, !.failed = IF @ = 0 THEN rx ELSE @]
    BY <1>10 DEF Fail
  <2>3. mem' \in Checkpoint
    BY <2>1, <2>2 DEF Checkpoint
  <2> QED BY <1>10, <2>1, <2>3 DEF Fail, JournalTypeOK, WriterStates, diskVars, readerVars
<1>11. CASE ArchiveFailure
  <2>1. archive' \in Seq(Nat \X Nat) /\ Len(archive') <= Segments
    <3>0. archive \in Seq(Nat \X Nat) /\ Len(archive) <= Segments /\ <<epoch, rx>> \in Nat \X Nat /\ Len(archive) \in Nat
      BY DEF JournalTypeOK
    <3> DEFINE a == <<epoch, rx>>
               q == <<a>> \o archive
               m == IF Len(archive) < Segments THEN Len(archive) + 1 ELSE Segments
    <3>1. <<a>> \in Seq(Nat \X Nat) /\ Len(<<a>>) = 1
      BY <3>0
    <3>2. q \in Seq(Nat \X Nat) /\ Len(q) = Len(archive) + 1
      <4> HIDE DEF a
      <4>1. <<a>> \o archive \in Seq(Nat \X Nat) /\ Len(<<a>> \o archive) = 1 + Len(archive)
        BY <3>0, <3>1, ConcatProperties
      <4> QED BY <4>1, <3>0
    <3>3. m \in Nat /\ m > 0 /\ m <= Len(archive) + 1 /\ m <= Segments
      BY <3>0, <1>0
    <3> HIDE DEF q, m
    <3>4. \A i \in 1..m : q[i] \in Nat \X Nat
      BY <3>0, <3>2, <3>3, SeqFacts
    <3>5. SubSeq(q, 1, m) \in Seq(Nat \X Nat) /\ Len(SubSeq(q, 1, m)) = m
      <4>1. Len(SubSeq(q, 1, m)) = (IF 1 <= m THEN m - 1 + 1 ELSE 0) /\ SubSeq(q, 1, m) \in Seq(Nat \X Nat)
        BY <3>3, <3>4, SubSeqProperties
      <4> QED BY <4>1, <3>3
    <3>6. archive' = archive \/ archive' = SubSeq(q, 1, m)
      BY <1>11 DEF ArchiveFailure, q, m
    <3> QED BY <3>0, <3>3, <3>5, <3>6
  <2>2. archived' \in BOOLEAN
    BY <1>11 DEF ArchiveFailure, JournalTypeOK
  <2> QED BY <1>11, <2>1, <2>2 DEF ArchiveFailure, JournalTypeOK, WriterStates, readerVars
<1>12. CASE ReportFailure
  BY <1>12 DEF ReportFailure, JournalTypeOK, WriterStates, readerVars
<1>13. ASSUME NEW e \in Epochs, NEW since \in 0..(MaxRx - 1), BeginRead(e, since) PROVE JournalTypeOK'
  <2>1. e \in Nat /\ since \in Nat /\ progress[e] \in Nat
    BY DEF Epochs, JournalTypeOK
  <2> QED BY <1>0, <1>13, <2>1 DEF BeginRead, JournalTypeOK, writerVars, diskVars
<1>14. CASE OpenSegment
  <2>1. at \in Names /\ at' \in Names \cup {-1}
    <3>1. at \in Names \cup {-1} /\ at >= 0 /\ at' = at - 1
      BY <1>14 DEF OpenSegment, JournalTypeOK, ViewInv
    <3> QED BY ONLY <3>1, JournalAssumption DEF Names
  <2>2. names[at] \in Nat
    BY <2>1, SeqFacts DEF JournalTypeOK
  <2>3. [active |-> at = 0, file |-> names[at]] \in [active : BOOLEAN, file : Nat]
    BY <2>2
  <2>4. opened' \in Seq([active : BOOLEAN, file : Nat])
    BY <1>14, <2>3, AppendProperties DEF OpenSegment, JournalTypeOK
  <2> QED BY <1>14, <2>1, <2>4 DEF OpenSegment, JournalTypeOK, writerVars, diskVars
<1>15. CASE ScanSegment
  <2> DEFINE R == [active : BOOLEAN, line : Line]
  <2>1. opened \in Seq([active : BOOLEAN, file : Nat]) /\ opened # << >> /\ files \in Seq(Seq(Line)) /\ seen \in Seq(R)
    BY <1>15 DEF ScanSegment, JournalTypeOK
  <2>2. opened' \in Seq([active : BOOLEAN, file : Nat])
    BY <1>15, <2>1, HeadTailProperties DEF ScanSegment
  <2>3. PICK d : d = Head(opened) /\ d.active \in BOOLEAN /\ d.file \in 1..Len(files)
    <3>1. Head(opened) = opened[1] /\ 1 \in DOMAIN opened
      BY <2>1, SeqFacts
    <3>2. opened[1] \in [active : BOOLEAN, file : Nat]
      BY <2>1, <3>1, SeqFacts
    <3> QED BY <3>1, <3>2 DEF ViewInv
  <2>4. files[d.file] \in Seq(Line)
    BY <2>1, <2>3, SeqFacts
  <2> DEFINE q == [i \in DOMAIN files[d.file] |-> [active |-> d.active, line |-> files[d.file][i]]]
             n == Len(files[d.file])
  <2>5. q \in [1..n -> R] /\ n \in Nat
    <3>1. DOMAIN files[d.file] = 1..n /\ n \in Nat /\ \A i \in 1..n : files[d.file][i] \in Line
      BY <2>4, SeqFacts
    <3> HIDE DEF n
    <3>2. \A i \in 1..n : [active |-> d.active, line |-> files[d.file][i]] \in R
      BY <2>3, <3>1
    <3> HIDE DEF R
    <3> QED BY <3>1, <3>2
  <2>6. seen' = seen \o q
    BY <1>15, <2>3 DEF ScanSegment
  <2> HIDE DEF q, n, R
  <2>7. q \in Seq(R)
    BY <2>5, FunctionIsSeq
  <2>8. seen' \in Seq(R)
    BY <2>1, <2>6, <2>7, ConcatProperties
  <2> QED BY <1>15, <2>2, <2>8 DEF ScanSegment, JournalTypeOK, writerVars, diskVars, R
<1>16. CASE FinishRead
  <2>1. answer' \in Answer
    BY <1>16, FinishedReadIsHonest
  <2>2. << >> \in Seq([active : BOOLEAN, line : Line])
    BY EmptySeq
  <2>3. view' \in Checkpoint
    BY <1>16 DEF FinishRead, Fresh, Checkpoint
  <2> QED BY <1>16, <2>1, <2>2, <2>3 DEF FinishRead, JournalTypeOK, writerVars, diskVars
<1>17. CASE Quiescent
  BY <1>17 DEF Quiescent, JournalTypeOK, journalVars, writerVars, diskVars, readerVars
<1> QED BY <1>1, <1>2, <1>3, <1>4, <1>5, <1>6, <1>7, <1>8, <1>9, <1>10, <1>11, <1>12, <1>13, <1>14, <1>15,
           <1>16, <1>17 DEF JournalNext, Writer, Reader

\* Every step keeps what checkpoint, memory and status say of one another.
LEMMA WriterStep ==
  ASSUME JournalInv, JournalNext
  PROVE  WriterInv'
<1>0. /\ epoch \in Nat /\ rx \in Nat /\ captured \in Nat /\ mem \in Checkpoint /\ ckpt \in Checkpoint /\ WriterInv
      /\ MaxEpochs \in Nat
  BY DEF JournalInv, JournalTypeOK
<1> USE DEF WriterInv
<1>1. CASE Start
  <2>1. mem'.recv = 0 /\ epoch' = epoch + 1 /\ rx' = 0 /\ captured' = 0 /\ epoch < MaxEpochs /\ wpc' = "idle"
    BY <1>1 DEF Start, Fresh
  <2>2. ckpt'.recv \in Nat
    BY <1>0, <1>1 DEF Start, Fresh, Checkpoint
  <2> QED BY <1>0, <2>1, <2>2
<1>2. CASE Crash
  BY <1>0, <1>2 DEF Crash, diskVars
<1>3. CASE BeginAppend
  <2>1. /\ mem'.recv = rx + 1 /\ mem'.err = mem.err /\ rx' = rx + 1 /\ epoch' = epoch /\ wpc' = "save"
        /\ wpc # "down" /\ captured' = captured /\ ckpt' = ckpt
    BY <1>0, <1>3 DEF BeginAppend, Checkpoint, diskVars
  <2> QED BY <1>0, <2>1
<1>4. CASE SaveReceived
  BY <1>0, <1>4 DEF SaveReceived
<1>5. CASE RemoveDest
  BY <1>0, <1>5 DEF RemoveDest
<1>6. CASE RenameSource
  BY <1>0, <1>6 DEF RenameSource
<1>7. ASSUME NEW k \in {"part", "bare"}, StartWrite(k) PROVE WriterInv'
  BY <1>0, <1>7 DEF StartWrite
<1>8. CASE FinishWrite
  <2>1. mem'.recv = mem.recv /\ mem'.err = mem.err
    BY <1>0, <1>8 DEF FinishWrite, Checkpoint
  <2> QED BY <1>0, <1>8, <2>1 DEF FinishWrite
<1>9. CASE SavePersisted
  BY <1>0, <1>9 DEF SavePersisted
<1>10. CASE Fail
  <2>1. mem' = [mem EXCEPT !.err = TRUE, !.failed = IF @ = 0 THEN rx ELSE @]
    BY <1>10 DEF Fail
  <2>2. mem'.recv = mem.recv /\ mem'.err
    BY <1>0, <2>1 DEF Checkpoint
  <2> QED BY <1>0, <1>10, <2>2 DEF Fail, diskVars
<1>11. CASE ArchiveFailure
  BY <1>0, <1>11 DEF ArchiveFailure
<1>12. CASE ReportFailure
  BY <1>0, <1>12 DEF ReportFailure
<1>13. CASE Reader \/ Quiescent
  BY <1>0, <1>13 DEF Reader, BeginRead, OpenSegment, ScanSegment, FinishRead, Quiescent, journalVars, writerVars, diskVars
<1> QED BY <1>1, <1>2, <1>3, <1>4, <1>5, <1>6, <1>7, <1>8, <1>9, <1>10, <1>11, <1>12, <1>13 DEF JournalNext, Writer

\* Names and files change in four steps only.
LEMMA NamesStep ==
  ASSUME JournalInv, JournalNext
  PROVE  NamesInv' /\ RotationInv'
<1>0. /\ names \in [Names -> 0..Len(files)] /\ Len(files) \in Nat /\ NamesInv /\ RotationInv /\ idx \in Names
      /\ 0 \in Names /\ Segments - 1 \in Names /\ Segments \in Nat /\ Segments > 1
  BY SeqFacts DEF JournalInv, JournalTypeOK, Names
<1>1. CASE UNCHANGED <<names, files>> /\ wpc' \notin {"remove", "rename"}
  BY <1>0, <1>1 DEF NamesInv, RotationInv
<1>2. CASE UNCHANGED <<names, files, wpc, idx>>
  BY <1>0, <1>2 DEF NamesInv, RotationInv
<1>3. CASE SaveReceived
  <2>1. names' = names /\ files' = files /\ idx' = Segments - 1 /\ wpc' \in {"remove", "open"}
    BY <1>3 DEF SaveReceived
  <2> QED BY <1>0, <2>1 DEF NamesInv, RotationInv
<1>4. CASE RemoveDest
  <2>1. names' = [names EXCEPT ![idx] = 0] /\ files' = files /\ idx' = idx /\ wpc' = "rename" /\ wpc = "remove" /\ idx > 0
    BY <1>0, <1>4 DEF RemoveDest, RotationInv
  <2>2. RotationInv'
    BY <1>0, <2>1 DEF RotationInv
  <2>3. \A i \in Names : names'[i] = IF i = idx THEN 0 ELSE names[i]
    BY <1>0, <2>1
  <2>4. \A i \in Names : i <= Segments - 1 /\ i \in Int
    BY <1>0 DEF Names
  <2>5. names'[0] \in {0, Len(files')}
    BY <1>0, <2>1, <2>3 DEF NamesInv
  <2>6. \A i, j \in Names : i > j /\ names'[i] # 0 /\ names'[j] # 0 => names'[i] < names'[j]
    BY <1>0, <2>3 DEF NamesInv
  <2>7. ASSUME NEW f \in 1..Len(files'), \A i \in Names : names'[i] # f, NEW i \in Names, names'[i] # 0
        PROVE  f < names'[i]
    <3>1. names'[i] = names[i] /\ i # idx /\ names[i] # 0
      BY <2>3, <2>7
    <3>2. CASE \A j \in Names : names[j] # f
      BY <1>0, <2>1, <2>7, <3>1, <3>2 DEF NamesInv
    <3>3. CASE names[idx] = f
      <4>1. names[idx] # 0
        BY <3>3, <1>0, <2>1, <2>7
      <4>2. idx > i
        BY <4>1, <3>1, <1>0, <2>1, <2>4 DEF RotationInv
      <4> QED BY <4>1, <4>2, <3>1, <3>3, <1>0 DEF NamesInv
    <3>4. \A j \in Names : j # idx => names[j] # f
      BY <2>3, <2>7
    <3> QED BY <3>2, <3>3, <3>4
  <2> QED BY <2>2, <2>5, <2>6, <2>7 DEF NamesInv
<1>5. CASE RenameSource
  <2>1. /\ files' = files /\ idx' = idx - 1 /\ wpc = "rename" /\ idx > 0 /\ names[idx] = 0 /\ idx \in Int
        /\ wpc' = IF idx = 1 THEN "open" ELSE "remove"
    BY <1>0, <1>5 DEF RenameSource, RotationInv, Names
  <2>2. idx - 1 \in Names
    BY <1>0, <2>1 DEF Names
  <2>3. \A i \in Names : names'[i] = IF i = idx THEN names[idx - 1] ELSE IF i = idx - 1 THEN 0 ELSE names[i]
    BY <1>0, <1>5, <2>1, <2>2 DEF RenameSource
  <2>4. \A i \in Names : i \in Int
    BY DEF Names
  <2>5. names'[0] \in {0, Len(files')}
    BY <1>0, <2>1, <2>3 DEF NamesInv
  <2>6. \A i, j \in Names : i > j /\ names'[i] # 0 /\ names'[j] # 0 => names'[i] < names'[j]
    BY <1>0, <2>1, <2>2, <2>3, <2>4 DEF NamesInv
  <2>7. ASSUME NEW f \in 1..Len(files'), \A i \in Names : names'[i] # f, NEW i \in Names, names'[i] # 0
        PROVE  f < names'[i]
    <3>1. \A j \in Names : names[j] # f
      BY <2>1, <2>2, <2>3, <2>7, <1>0
    <3>2. \E j \in Names : names'[i] = names[j] /\ names[j] # 0
      BY <2>2, <2>3, <2>7
    <3> QED BY <3>1, <3>2, <2>1, <2>7, <1>0 DEF NamesInv
  <2>8. RotationInv'
    BY <1>0, <2>1, <2>2, <2>3 DEF RotationInv
  <2> QED BY <2>5, <2>6, <2>7, <2>8 DEF NamesInv
<1>6. ASSUME NEW k \in {"part", "bare"}, StartWrite(k) PROVE NamesInv' /\ RotationInv'
  <2>1. /\ names'[0] = Len(files') /\ wpc' = "write"
        /\ \/ names' = names /\ Len(files') = Len(files)
           \/ names[0] = 0 /\ names' = [names EXCEPT ![0] = Len(files) + 1] /\ Len(files') = Len(files) + 1
    BY <1>6, StartWriteFiles DEF StartWrite
  <2>2. CASE names' = names /\ Len(files') = Len(files)
    BY <1>0, <2>1, <2>2 DEF NamesInv, RotationInv
  <2>3. CASE names[0] = 0 /\ names' = [names EXCEPT ![0] = Len(files) + 1] /\ Len(files') = Len(files) + 1
    <3>1. \A i \in Names : names'[i] = IF i = 0 THEN Len(files) + 1 ELSE names[i]
      BY <1>0, <2>3
    <3>2. \A i \in Names : i \in Int /\ i >= 0 /\ names[i] \in Int /\ names[i] <= Len(files)
      BY <1>0 DEF Names
    <3>3. \A i, j \in Names : i > j /\ names'[i] # 0 /\ names'[j] # 0 => names'[i] < names'[j]
      BY <1>0, <3>1, <3>2 DEF NamesInv
    <3>4. ASSUME NEW f \in 1..Len(files'), \A i \in Names : names'[i] # f, NEW i \in Names, names'[i] # 0
          PROVE  f < names'[i]
      <4>1. f # Len(files) + 1 /\ f \in 1..Len(files)
        BY <3>1, <3>4, <2>3, <1>0
      <4>2. \A j \in Names : names[j] # f
        BY <3>1, <3>4, <2>3, <4>1, <1>0
      <4> QED BY <3>1, <3>2, <3>4, <4>1, <4>2, <1>0 DEF NamesInv
    <3> QED BY <2>1, <3>3, <3>4 DEF NamesInv, RotationInv
  <2> QED BY <2>1, <2>2, <2>3
<1>7. CASE FinishWrite
  <2>1. Len(files') = Len(files) /\ names' = names /\ wpc' = "checkpoint"
    BY <1>7, FinishWriteFiles DEF FinishWrite
  <2> QED BY <1>0, <2>1 DEF NamesInv, RotationInv
<1> QED
  BY <1>1, <1>2, <1>3, <1>4, <1>5, <1>6, <1>7
  DEF JournalNext, Writer, Reader, Start, Crash, BeginAppend, SavePersisted, Fail, ArchiveFailure, ReportFailure,
      BeginRead, OpenSegment, ScanSegment, FinishRead, Quiescent, journalVars, writerVars, diskVars, readerVars

\* The chunk at hand changes, or none is added: the records keep their order.
LEMMA KeepRecords ==
  ASSUME JournalTypeOK, RecordsInv, stored' = stored, epoch' \in Nat, rx' \in Nat,
         \A f, i \in Nat : Holds(f, i)' <=> Holds(f, i),
         \A f, i \in Nat : Holds(f, i) => RecordAt(f, i)' = RecordAt(f, i),
         \/ epoch' = epoch /\ rx' = rx /\ (Unwritten' => Unwritten)
         \/ epoch' > epoch \/ (epoch' = epoch /\ rx' > rx)
  PROVE  RecordsInv'
<1>0. epoch \in Nat /\ rx \in Nat
  BY DEF JournalTypeOK
<1>1. \A f, i \in Nat : Holds(f, i) => files[f][i].e \in Nat /\ files[f][i].n \in Nat
  <2> SUFFICES ASSUME NEW f \in Nat, NEW i \in Nat, Holds(f, i)
               PROVE  files[f][i].e \in Nat /\ files[f][i].n \in Nat
    OBVIOUS
  <2>1. files \in Seq(Seq(Line))
    BY DEF JournalTypeOK
  <2>2. files[f] \in Seq(Line)
    BY <2>1, SeqFacts DEF Holds
  <2>3. files[f][i] \in Line
    BY <2>2, SeqFacts DEF Holds
  <2> QED BY <2>3 DEF Line
<1>2. \A f, i, g, j \in Nat :
        Holds(f, i)' /\ Holds(g, j)' /\ (f < g \/ (f = g /\ i < j)) => Before(RecordAt(f, i)', RecordAt(g, j)')
  BY DEF RecordsInv
<1>3. ASSUME NEW f \in Nat, NEW i \in Nat, Holds(f, i)'
      PROVE  \/ Before(RecordAt(f, i)', <<epoch', rx'>>)
             \/ RecordAt(f, i)' = <<epoch', rx'>> /\ ~Unwritten'
  <2>1. Holds(f, i) /\ RecordAt(f, i)' = RecordAt(f, i)
    BY <1>3
  <2>2. Before(RecordAt(f, i), <<epoch, rx>>) \/ (RecordAt(f, i) = <<epoch, rx>> /\ ~Unwritten)
    BY <2>1 DEF RecordsInv
  <2>3. CASE epoch' = epoch /\ rx' = rx /\ (Unwritten' => Unwritten)
    BY <2>1, <2>2, <2>3
  <2>4. CASE epoch' > epoch \/ (epoch' = epoch /\ rx' > rx)
    <3>1. RecordAt(f, i) = <<files[f][i].e, files[f][i].n>> /\ files[f][i].e \in Nat /\ files[f][i].n \in Nat
      BY <1>1, <2>1 DEF RecordAt
    <3>2. Before(RecordAt(f, i), <<epoch', rx'>>)
      BY <3>1, <2>2, <2>4, <1>0 DEF Before
    <3> QED BY <3>2, <2>1
  <2> QED BY <2>3, <2>4
<1>4. \A a \in stored' : \E f, i \in Nat : Holds(f, i)' /\ RecordAt(f, i)' = a
  BY DEF RecordsInv
<1> QED BY <1>2, <1>3, <1>4 DEF RecordsInv, Before

\* The record under way is newer than all the others.
LEMMA AddRecord ==
  ASSUME RecordsInv, wpc = "write", UNCHANGED <<epoch, rx>>, wpc' = "checkpoint",
         NEW g \in Nat, NEW n \in Nat, Adds(g, n)
  PROVE  RecordsInv'
<1>1. \A f, i \in Nat : Holds(f, i) => Before(RecordAt(f, i), <<epoch, rx>>)
  BY DEF RecordsInv, Unwritten
<1>2. ~Unwritten'
  BY DEF Unwritten
<1>3. CASE stored' = stored /\ \A f, i \in Nat : Holds(f, i)' => Holds(f, i)
  <2>1. \A f, i \in Nat : (Holds(f, i)' <=> Holds(f, i)) /\ (Holds(f, i) => RecordAt(f, i)' = RecordAt(f, i))
    BY <1>3 DEF Adds
  <2>2. \A f, i, h, j \in Nat :
          Holds(f, i)' /\ Holds(h, j)' /\ (f < h \/ (f = h /\ i < j)) => Before(RecordAt(f, i)', RecordAt(h, j)')
    BY <2>1 DEF RecordsInv
  <2>3. \A f, i \in Nat : Holds(f, i)' => Before(RecordAt(f, i)', <<epoch', rx'>>)
    BY <2>1, <1>1
  <2>4. \A a \in stored' : \E f, i \in Nat : Holds(f, i)' /\ RecordAt(f, i)' = a
    BY <2>1, <1>3 DEF RecordsInv
  <2> QED BY <2>2, <2>3, <2>4 DEF RecordsInv, Before
<1>4. CASE /\ stored' = stored \cup {<<epoch, rx>>}
           /\ Holds(g, n)' /\ RecordAt(g, n)' = <<epoch, rx>>
           /\ \A f, i \in Nat : Holds(f, i)' => Holds(f, i) \/ (f = g /\ i = n)
  <2>1. \A f, i \in Nat : Holds(f, i) =>
          Holds(f, i)' /\ RecordAt(f, i)' = RecordAt(f, i) /\ (f < g \/ (f = g /\ i < n))
    BY DEF Adds
  <2>2. ASSUME NEW f \in Nat, NEW i \in Nat, NEW h \in Nat, NEW j \in Nat,
               Holds(f, i)', Holds(h, j)', f < h \/ (f = h /\ i < j)
        PROVE  Before(RecordAt(f, i)', RecordAt(h, j)')
    <3>1. Holds(f, i)
      <4>1. CASE f = g /\ i = n
        <5>1. ~(h = g /\ j = n)
          BY <2>2, <4>1
        <5>2. Holds(h, j)
          BY <2>2, <5>1, <1>4
        <5> QED BY <5>2, <4>1, <2>1, <2>2
      <4> QED BY <4>1, <2>2, <1>4
    <3>2. CASE Holds(h, j)
      BY <3>1, <3>2, <2>1, <2>2 DEF RecordsInv
    <3>3. CASE h = g /\ j = n
      BY <3>1, <3>3, <2>1, <1>1, <1>4
    <3> QED BY <3>2, <3>3, <2>2, <1>4
  <2>3. \A f, i \in Nat : Holds(f, i)' => Before(RecordAt(f, i)', <<epoch', rx'>>) \/ RecordAt(f, i)' = <<epoch', rx'>>
    BY <2>1, <1>1, <1>4
  <2>4. \A a \in stored' : \E f, i \in Nat : Holds(f, i)' /\ RecordAt(f, i)' = a
    BY <2>1, <1>4 DEF RecordsInv
  <2> QED BY <2>2, <2>3, <2>4, <1>2 DEF RecordsInv, Before
<1> QED BY <1>3, <1>4 DEF Adds

\* Every step keeps the records in the order they were received.
LEMMA RecordsStep ==
  ASSUME JournalInv, JournalNext
  PROVE  RecordsInv'
<1>0. JournalTypeOK /\ RecordsInv /\ epoch \in Nat /\ rx \in Nat
  BY DEF JournalInv, JournalTypeOK
<1>1. CASE /\ UNCHANGED <<files, stored>>
           /\ \/ UNCHANGED <<epoch, rx>> /\ (Unwritten' => Unwritten)
              \/ epoch' = epoch + 1 /\ rx' = 0
              \/ epoch' = epoch /\ rx' = rx + 1
  <2>1. \A f, i \in Nat : (Holds(f, i)' <=> Holds(f, i)) /\ RecordAt(f, i)' = RecordAt(f, i)
    BY <1>1 DEF Holds, RecordAt
  <2>2. /\ epoch' \in Nat /\ rx' \in Nat /\ stored' = stored
        /\ \/ epoch' = epoch /\ rx' = rx /\ (Unwritten' => Unwritten)
           \/ epoch' > epoch \/ (epoch' = epoch /\ rx' > rx)
    BY <1>0, <1>1
  <2> QED BY <1>0, <2>1, <2>2, KeepRecords
<1>2. ASSUME NEW k \in {"part", "bare"}, StartWrite(k) PROVE RecordsInv'
  <2>1. UNCHANGED <<epoch, rx, stored>> /\ (Unwritten' => Unwritten)
    BY <1>2 DEF StartWrite, Unwritten
  <2>2. /\ \A f, i \in Nat : Holds(f, i)' <=> Holds(f, i)
        /\ \A f, i \in Nat : Holds(f, i) => RecordAt(f, i)' = RecordAt(f, i)
    BY <1>2, StartWriteFiles
  <2> QED BY <1>0, <2>1, <2>2, KeepRecords
<1>3. CASE FinishWrite
  <2>1. PICK g \in Nat, n \in Nat : Adds(g, n)
    BY <1>3, FinishWriteFiles
  <2>2. wpc = "write" /\ UNCHANGED <<epoch, rx>> /\ wpc' = "checkpoint"
    BY <1>3 DEF FinishWrite
  <2> QED BY <1>0, <2>1, <2>2, AddRecord
<1>4. CASE \/ Start \/ Crash \/ BeginAppend \/ SaveReceived \/ RemoveDest \/ RenameSource \/ SavePersisted
           \/ Fail \/ ArchiveFailure \/ ReportFailure \/ Reader \/ Quiescent
  <2>1. /\ UNCHANGED <<files, stored>>
        /\ \/ UNCHANGED <<epoch, rx>> /\ (Unwritten' => Unwritten)
           \/ epoch' = epoch + 1 /\ rx' = 0
           \/ epoch' = epoch /\ rx' = rx + 1
    BY <1>4 DEF Start, Crash, BeginAppend, SaveReceived, RemoveDest, RenameSource, SavePersisted, Fail, ArchiveFailure,
                ReportFailure, Reader, BeginRead, OpenSegment, ScanSegment, FinishRead, Quiescent, journalVars,
                writerVars, diskVars, readerVars, Unwritten
  <2> QED BY <2>1, <1>1
<1> QED BY <1>2, <1>3, <1>4 DEF JournalNext, Writer

\* The line of a record that is being written stays the last of the active file.
LEMMA LineStep ==
  ASSUME JournalInv, JournalNext
  PROVE  LineInv'
<1>1. ASSUME NEW k \in {"part", "bare"}, StartWrite(k) PROVE LineInv'
  <2>1. UNCHANGED <<epoch, rx>>
    BY <1>1 DEF StartWrite
  <2> QED BY <1>1, <2>1, StartWriteFiles DEF LineInv
<1>2. CASE wpc' # "write"
  BY <1>2 DEF LineInv
<1>3. CASE UNCHANGED <<wpc, names, files, epoch, rx>>
  BY <1>3 DEF JournalInv, LineInv
<1> QED
  BY <1>1, <1>2, <1>3
  DEF JournalNext, Writer, Reader, Start, Crash, BeginAppend, SaveReceived, RemoveDest, RenameSource, FinishWrite,
      SavePersisted, Fail, ArchiveFailure, ReportFailure, BeginRead, OpenSegment, ScanSegment, FinishRead, Quiescent,
      journalVars, writerVars, diskVars, readerVars

\* What a read has opened stays what it is, and what it answers is honest: the writer's steps
\* leave it alone, and FinishRead is FinishedReadIsHonest.
LEMMA ReaderStep ==
  ASSUME JournalInv, JournalNext
  PROVE  ViewInv' /\ CleanReadIsComplete' /\ ReadIsContiguous'
<1>0. /\ ViewInv /\ CleanReadIsComplete /\ ReadIsContiguous /\ WriterInv
      /\ names \in [Names -> 0..Len(files)] /\ Len(files) \in Nat /\ opened \in Seq([active : BOOLEAN, file : Nat])
      /\ Segments \in Nat /\ Segments > 1
  BY SeqFacts DEF JournalInv, JournalTypeOK
<1>1. ASSUME UNCHANGED readerVars, Len(files') \in Nat, Len(files') >= Len(files)
      PROVE  ViewInv' /\ CleanReadIsComplete' /\ ReadIsContiguous'
  BY <1>0, <1>1 DEF readerVars, ViewInv, CleanReadIsComplete, ReadIsContiguous, Clean
<1>2. ASSUME NEW e \in Epochs, NEW since \in 0..(MaxRx - 1), BeginRead(e, since)
      PROVE  ViewInv' /\ CleanReadIsComplete' /\ ReadIsContiguous'
  <2>1. /\ req' = [e |-> e, since |-> since] /\ view' = ckpt /\ at' = Segments - 1 /\ rpc' = "opening"
        /\ opened' = opened /\ files' = files
        /\ mark' = IF e = epoch /\ ckpt.epoch = epoch /\ ckpt.err = mem.err THEN captured ELSE 0
    BY <1>2 DEF BeginRead, diskVars
  <2>2. mark' > 0 => view'.epoch = req'.e /\ (view'.err \/ mark' <= view'.recv)
    BY <1>0, <2>1 DEF WriterInv
  <2> QED BY <1>0, <2>1, <2>2 DEF ViewInv, CleanReadIsComplete, ReadIsContiguous, Clean
<1>3. CASE OpenSegment
  <2>1. /\ rpc = "opening" /\ at' = at - 1 /\ rpc' = (IF at = 0 THEN "scanning" ELSE "opening")
        /\ UNCHANGED <<files, req, view, mark>>
        /\ opened' = IF names[at] = 0 THEN opened ELSE Append(opened, [active |-> at = 0, file |-> names[at]])
    BY <1>3 DEF OpenSegment, diskVars
  <2>2. at \in Names /\ at \in Int /\ at >= 0
    BY <2>1, <1>0 DEF JournalInv, JournalTypeOK, ViewInv, Names
  <2>3. \A i \in DOMAIN opened' : opened'[i].file \in 1..Len(files)
    <3>1. CASE names[at] = 0
      BY <3>1, <2>1, <1>0 DEF ViewInv
    <3>2. CASE names[at] # 0
      <4> DEFINE d == [active |-> at = 0, file |-> names[at]]
      <4>1. names[at] \in 1..Len(files)
        BY <3>2, <2>2, <1>0
      <4>2. d \in [active : BOOLEAN, file : Nat] /\ d.file \in 1..Len(files)
        BY <4>1, <1>0
      <4>3. opened' = Append(opened, d)
        BY <3>2, <2>1
      <4> HIDE DEF d
      <4>4. /\ opened' \in Seq([active : BOOLEAN, file : Nat]) /\ Len(opened') = Len(opened) + 1
            /\ \A i \in 1..Len(opened) : opened'[i] = opened[i]
            /\ opened'[Len(opened) + 1] = d
        BY <4>2, <4>3, <1>0, AppendProperties
      <4>5. DOMAIN opened' = 1..(Len(opened) + 1) /\ DOMAIN opened = 1..Len(opened) /\ Len(opened) \in Nat
        BY <4>4, <1>0, SeqFacts
      <4>6. \A i \in 1..Len(opened) : opened[i].file \in 1..Len(files)
        BY <4>5, <1>0 DEF ViewInv
      <4> QED BY ONLY <4>2, <4>4, <4>5, <4>6
    <3> QED BY <3>1, <3>2
  <2> QED BY <1>0, <2>1, <2>2, <2>3 DEF ViewInv, CleanReadIsComplete, ReadIsContiguous, Clean
<1>4. CASE ScanSegment
  <2>1. rpc = "scanning" /\ opened # << >> /\ opened' = Tail(opened) /\ UNCHANGED <<files, rpc, req, view, at, mark>>
    BY <1>4 DEF ScanSegment, diskVars
  <2>2. /\ opened' \in Seq([active : BOOLEAN, file : Nat]) /\ Len(opened') = Len(opened) - 1
        /\ \A i \in 1..Len(opened') : opened'[i] = opened[i + 1]
    BY <2>1, <1>0, HeadTailProperties
  <2>3. DOMAIN opened' = 1..(Len(opened) - 1) /\ DOMAIN opened = 1..Len(opened) /\ Len(opened) \in Nat
    BY <2>2, <1>0, SeqFacts
  <2>4. \A i \in 1..Len(opened) : opened[i].file \in 1..Len(files)
    BY <2>3, <1>0 DEF ViewInv
  <2>5. \A i \in DOMAIN opened' : opened'[i].file \in 1..Len(files)
    <3>1. TAKE i \in DOMAIN opened'
    <3>2. i \in 1..Len(opened') /\ i + 1 \in 1..Len(opened)
      BY ONLY <3>1, <2>2, <2>3
    <3>3. opened'[i] = opened[i + 1]
      BY ONLY <3>2, <2>2
    <3>4. opened[i + 1].file \in 1..Len(files)
      BY ONLY <3>2, <2>4
    <3> QED BY ONLY <3>3, <3>4
  <2> QED BY <1>0, <2>1, <2>2, <2>5 DEF ViewInv, CleanReadIsComplete, ReadIsContiguous, Clean
<1>5. CASE FinishRead
  <2>1. rpc' = "done" /\ opened' = opened /\ files' = files
    BY <1>5 DEF FinishRead, diskVars
  <2> QED BY <1>0, <1>5, <2>1, FinishedReadIsHonest DEF ViewInv
<1>6. ASSUME NEW k \in {"part", "bare"}, StartWrite(k) PROVE UNCHANGED readerVars /\ Len(files') \in Nat /\ Len(files') >= Len(files)
  BY <1>0, <1>6, StartWriteFiles DEF StartWrite
<1>7. CASE FinishWrite
  <2>1. UNCHANGED readerVars /\ Len(files') = Len(files)
    BY <1>7, FinishWriteFiles DEF FinishWrite
  <2> QED BY <1>0, <1>1, <2>1
<1>8. CASE \/ Start \/ Crash \/ BeginAppend \/ SaveReceived \/ RemoveDest \/ RenameSource \/ SavePersisted
           \/ Fail \/ ArchiveFailure \/ ReportFailure \/ Quiescent
  <2>1. UNCHANGED readerVars /\ files' = files
    BY <1>8 DEF Start, Crash, BeginAppend, SaveReceived, RemoveDest, RenameSource, SavePersisted, Fail, ArchiveFailure,
                ReportFailure, Quiescent, journalVars, diskVars
  <2> QED BY <1>0, <1>1, <2>1
<1> QED BY <1>1, <1>2, <1>3, <1>4, <1>5, <1>6, <1>7, <1>8 DEF JournalNext, Writer, Reader

-----------------------------------------------------------------------------
\* It holds before the daemon's first start.
LEMMA JournalInitInv == JournalInit => JournalInv
<1> SUFFICES ASSUME JournalInit PROVE JournalInv
  OBVIOUS
<1>0. Segments - 1 \in Nat /\ 0 \in Names
  BY DEF Names
<1>1. JournalTypeOK
  <2>1. mem \in Checkpoint /\ ckpt \in Checkpoint /\ view \in Checkpoint
    BY DEF JournalInit, Fresh, Checkpoint
  <2>2. answer \in Answer
    BY DEF JournalInit, NoAnswer, Answer
  <2>3. /\ files \in Seq(Seq(Line)) /\ archive \in Seq(Nat \X Nat) /\ Len(archive) <= Segments /\ Len(files) = 0
        /\ opened \in Seq([active : BOOLEAN, file : Nat]) /\ seen \in Seq([active : BOOLEAN, line : Line])
    BY <1>0, EmptySeq DEF JournalInit
  <2>4. names \in [Names -> 0..Len(files)]
    BY <2>3 DEF JournalInit
  <2> QED BY <1>0, <2>1, <2>2, <2>3, <2>4 DEF JournalInit, JournalTypeOK, WriterStates
<1>2. WriterInv
  BY DEF JournalInit, WriterInv, Fresh
<1>3. NamesInv /\ RotationInv /\ LineInv
  BY <1>0 DEF JournalInit, NamesInv, RotationInv, LineInv
<1>4. \A f, i \in Nat : ~Holds(f, i)
  BY DEF JournalInit, Holds
<1>5. RecordsInv
  BY <1>4 DEF JournalInit, RecordsInv
<1>6. ViewInv /\ CleanReadIsComplete /\ ReadIsContiguous
  BY DEF JournalInit, ViewInv, CleanReadIsComplete, ReadIsContiguous, Clean
<1> QED BY <1>1, <1>2, <1>3, <1>5, <1>6 DEF JournalInv

\* What is on the disk and how the reader stands to it, at every cut of an append, a rotation,
\* a fault or a read.
THEOREM JournalInvariant == JournalSpec => []JournalInv
<1>1. JournalInv /\ [JournalNext]_journalVars => JournalInv'
  <2> SUFFICES ASSUME JournalInv, [JournalNext]_journalVars PROVE JournalInv'
    OBVIOUS
  <2>1. CASE JournalNext
    BY <2>1, JournalTypeStep, WriterStep, NamesStep, RecordsStep, LineStep, ReaderStep DEF JournalInv
  <2>2. CASE UNCHANGED journalVars
    <3>1. UNCHANGED <<writerVars, diskVars, readerVars>>
      BY <2>2 DEF journalVars
    <3>2. JournalTypeOK'
      BY <3>1 DEF JournalInv, JournalTypeOK, writerVars, diskVars, readerVars
    <3>3. WriterInv' /\ NamesInv' /\ RotationInv' /\ LineInv'
      BY <3>1 DEF JournalInv, WriterInv, NamesInv, RotationInv, LineInv, writerVars, diskVars
    <3>4. RecordsInv'
      BY <3>1 DEF JournalInv, RecordsInv, Holds, RecordAt, Unwritten, writerVars, diskVars
    <3>5. ViewInv' /\ CleanReadIsComplete' /\ ReadIsContiguous'
      BY <3>1 DEF JournalInv, ViewInv, CleanReadIsComplete, ReadIsContiguous, Clean, diskVars, readerVars
    <3> QED BY <3>2, <3>3, <3>4, <3>5 DEF JournalInv
  <2> QED BY <2>1, <2>2
<1> QED BY <1>1, JournalInitInv, PTL DEF JournalSpec

\* A record of a named file is a line of it.
LEMMA RecordsOfFacts ==
  ASSUME JournalTypeOK, NEW f \in 1..Len(files), NEW a \in RecordsOf(f)
  PROVE  \E i \in Nat : Holds(f, i) /\ RecordAt(f, i) = a
<1>1. files \in Seq(Seq(Line))
  BY DEF JournalTypeOK
<1>2. DOMAIN files = 1..Len(files) /\ files[f] \in Seq(Line)
  BY <1>1, SeqFacts
<1>3. DOMAIN files[f] = 1..Len(files[f]) /\ Len(files[f]) \in Nat
  BY <1>2, SeqFacts
<1>4. PICK i \in DOMAIN files[f] : files[f][i].k = "rec" /\ a = <<files[f][i].e, files[f][i].n>>
  BY DEF RecordsOf
<1> QED BY <1>2, <1>3, <1>4 DEF Holds, RecordAt

\* Whatever is appended, rotated, failed or cut off by a crash, a read of the journal is complete
\* and contiguous or says that it is not, and retention forgets the oldest records first.
THEOREM JournalAlwaysHonest == JournalSpec => []JournalIsHonest
<1>1. JournalInv => JournalIsHonest
  <2> SUFFICES ASSUME JournalInv PROVE JournalIsHonest
    OBVIOUS
  <2>0. /\ JournalTypeOK /\ NamesInv /\ RecordsInv /\ names \in [Names -> 0..Len(files)] /\ Len(files) \in Nat
        /\ DOMAIN files = 1..Len(files)
    BY SeqFacts DEF JournalInv, JournalTypeOK
  <2>1. \A i \in Names : names[i] # 0 => names[i] \in 1..Len(files) /\ names[i] \in Nat
    BY <2>0
  <2>2. SegmentsOrdered
    <3> SUFFICES ASSUME NEW i \in Names, NEW j \in Names, i > j, names[i] # 0, names[j] # 0,
                        NEW a \in RecordsOf(names[i]), NEW b \in RecordsOf(names[j])
                 PROVE  Before(a, b)
      BY DEF SegmentsOrdered
    <3>1. PICK m \in Nat : Holds(names[i], m) /\ RecordAt(names[i], m) = a
      BY <2>0, <2>1, RecordsOfFacts
    <3>2. PICK n \in Nat : Holds(names[j], n) /\ RecordAt(names[j], n) = b
      BY <2>0, <2>1, RecordsOfFacts
    <3>3. names[i] < names[j] /\ names[i] \in Nat /\ names[j] \in Nat
      BY <2>0, <2>1 DEF NamesInv
    <3> QED BY <3>1, <3>2, <3>3, <2>0 DEF RecordsInv
  <2>3. RetentionIsSuffix
    <3> SUFFICES ASSUME NEW a \in stored, a \notin OnDisk, NEW b \in OnDisk PROVE Before(a, b)
      BY DEF RetentionIsSuffix
    <3>1. PICK f \in Nat, m \in Nat : Holds(f, m) /\ RecordAt(f, m) = a
      BY <2>0 DEF RecordsInv
    <3>2. PICK j \in Names : names[j] # 0 /\ b \in RecordsOf(names[j])
      BY DEF OnDisk
    <3>3. PICK n \in Nat : Holds(names[j], n) /\ RecordAt(names[j], n) = b
      BY <2>0, <2>1, <3>2, RecordsOfFacts
    <3>4. a \in RecordsOf(f) /\ f \in 1..Len(files)
      BY <3>1, <2>0 DEF RecordsOf, Holds, RecordAt
    <3>5. \A i \in Names : names[i] # f
      BY <3>4, <2>0 DEF OnDisk
    <3>6. f < names[j] /\ names[j] \in Nat
      BY <3>2, <3>4, <3>5, <2>0, <2>1 DEF NamesInv
    <3> QED BY <3>1, <3>3, <3>6, <2>0 DEF RecordsInv
  <2> QED BY <2>2, <2>3 DEF JournalIsHonest, JournalInv
<1> QED BY <1>1, JournalInvariant, PTL
=============================================================================
