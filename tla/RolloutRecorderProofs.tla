------------------------ MODULE RolloutRecorderProofs ------------------------
(***************************************************************************)
(* Theorems about the rollout recorder, for any number of items, calls,    *)
(* failures, crashes and restarts: its file can always be recovered, from  *)
(* any sidecar, the writer knows what the file holds, and the recorder     *)
(* implements a durable log.                                               *)
(***************************************************************************)
EXTENDS RolloutRecorder, OrderLemmas, SequenceTheorems, TLAPS

\* What any crash or failure leaves of the file: lines numbered as they stand, of
\* which only the last may be unfinished, checkpoints that carry the totals of the
\* lines before them, and the session's metadata nowhere but at the top.
Sound(lines) ==
    /\ lines \in Seq(Lines)
    /\ \A n \in 1..Len(lines) :
          /\ lines[n].seq = n - 1
          /\ lines[n].form # "fused"
          /\ lines[n].form = "full" \/ n = Len(lines)
          /\ lines[n].what = Checkpoint => lines[n].total = Totals(lines, 0)[n]
          /\ lines[n].what = Meta => n = 1

\* The sidecar names a checkpoint, and a file that was never made is empty.
FileInv ==
    /\ Sound(disk)
    /\ sidecar = 0 \/ IsCheckpoint(disk, sidecar)
    /\ ~exists => disk = <<>>

\* The places of the task at which it has the file open, and at which not.
WritingPCs == {"settle", "append", "appended", "checkpoint", "checkpointed"}
ClosedPCs == {"open", "stopping", "stopped", "down"}

\* What a writer knows of the file: the lines it counts, which may be all or all
\* but the last.
Follows(w, lines) ==
    /\ w.nextSeq \in {Len(lines), Len(lines) - 1}
    /\ \A n \in 1..w.nextSeq : lines[n].form = "full"
    /\ w.total = Totals(lines, 0)[w.nextSeq]
    /\ w.cp \in 0..w.nextSeq
    /\ w.cp # 0 => lines[w.cp].what = Checkpoint
    /\ \A n \in (w.cp + 1)..w.nextSeq : lines[n].what # Checkpoint
    /\ w.since = w.nextSeq - w.cp

\* The writer follows its file.  There is a line it does not count only in the
\* middle of a write, or when its checkpoint failed half way.
WriterInv ==
    /\ pc \in WritingPCs => writer.open
    /\ (pc \in ClosedPCs \/ deferred) => ~writer.open
    /\ pc \in {"settle", "appended", "checkpoint", "checkpointed"} => ~writer.poisoned
    /\ pc \in {"checkpoint", "checkpointed"} => writer.nextSeq > 0
    /\ writer.open =>
          /\ exists
          /\ Follows(writer, disk)
          /\ Len(disk) > writer.nextSeq =>
                \/ pc = "appended" /\ disk[Len(disk)].what = Head(pending)
                \/ pc = "checkpointed" /\ disk[Len(disk)].what = Checkpoint
                \/ writer.poisoned /\ disk[Len(disk)].what = Checkpoint

\* Line number seq, if it is in the file, is its last and is x.
Uncertain(lines, seq, x) ==
    /\ seq \in {Len(lines), Len(lines) - 1}
    /\ \A n \in 1..seq : lines[n].form = "full"
    /\ Len(lines) > seq => lines[Len(lines)].what = x

\* A write of unknown outcome was of the front of the queue, and the task settles it
\* before it writes again.
OutcomeInv ==
    /\ pc = "appended" => pending # <<>>
    /\ pc \in {"append", "appended", "checkpoint", "checkpointed"} => unconfirmed = NoSeq
    /\ writer.open /\ pc # "settle" => unconfirmed = NoSeq
    /\ unconfirmed # NoSeq /\ pc \in {"recv", "open", "settle"} => pending # <<>>
    /\ unconfirmed # NoSeq /\ pending # <<>> => Uncertain(disk, unconfirmed, Head(pending))

\* The session's metadata is queued before anything is written, and waits at the
\* front until it is known to be in the file.
MetaInv ==
    /\ meta => disk = <<>> /\ unconfirmed = NoSeq
    /\ writer.open /\ pc # "settle" => ~meta
    /\ \A n \in 1..Len(pending) : pending[n] = Meta =>
          /\ n = 1
          /\ ~meta
          /\ \/ disk = <<>>
             \/ /\ Len(disk) = 1 /\ disk[1].what = Meta
                /\ pc = "appended" \/ unconfirmed = 0
          /\ writer.open /\ pc # "settle" => writer.nextSeq = 0

\* What waits or is stored was recorded, and nothing waits for a stopped task.
HostInv ==
    /\ \A n \in 1..Len(inbox) : inbox[n] \in recorded \cup Calls
    /\ \A n \in 1..Len(pending) : pending[n] \in recorded \cup {Meta}
    /\ \A n \in 1..Len(disk) : disk[n].what \in recorded \cup {Meta, Checkpoint}
    /\ pc \in {"stopped", "down"} => inbox = <<>> /\ pending = <<>>

RecorderInv == TypeOK /\ FileInv /\ WriterInv /\ OutcomeInv /\ MetaInv /\ HostInv
-----------------------------------------------------------------------------
(* Lines, totals and greatest numbers                                      *)

\* The first elements of a sequence.
LEMMA FirstLines ==
    ASSUME NEW S, NEW s \in Seq(S), NEW k \in 0..Len(s)
    PROVE  /\ SubSeq(s, 1, k) \in Seq(S)
           /\ Len(SubSeq(s, 1, k)) = k
           /\ \A n \in 1..k : SubSeq(s, 1, k)[n] = s[n]
<1>1. k \in Int /\ 1 \in Int /\ \A n \in 1..k : s[n] \in S
  OBVIOUS
<1>2. /\ SubSeq(s, 1, k) \in Seq(S)
      /\ Len(SubSeq(s, 1, k)) = IF 1 <= k THEN k - 1 + 1 ELSE 0
      /\ \A n \in 1..(k - 1 + 1) : SubSeq(s, 1, k)[n] = s[1 + n - 1]
  BY <1>1, SubSeqProperties
<1> QED BY <1>1, <1>2

\* The fields of a line.
LEMMA LineFields ==
    ASSUME NEW line \in Lines
    PROVE  /\ line.seq \in Nat /\ line.total \in Nat
           /\ line.what \in Items \cup {Meta, Checkpoint}
           /\ line.form \in {"full", "open", "torn", "fused"}
           /\ Adds(line) \in Nat
<1>1. /\ line.seq \in Nat /\ line.total \in Nat
      /\ line.what \in Items \cup {Meta, Checkpoint}
      /\ line.form \in {"full", "open", "torn", "fused"}
  BY DEF Lines
<1>2. UseOf(line.what) \in Nat
  BY ItemsAssumption DEF UseOf
<1> QED BY <1>1, <1>2 DEF Adds

\* g counts what a scan adds that starts with `start` behind line `seed`.
Counts(g, lines, seed, start, n) ==
    /\ g \in [seed..n -> Nat]
    /\ g[seed] = start
    /\ \A i \in (seed + 1)..n : g[i] = g[i - 1] + Adds(lines[i])

\* There is such a count ...
LEMMA CountsExist ==
    ASSUME NEW lines \in Seq(Lines), NEW seed \in 0..Len(lines), NEW start \in Nat
    PROVE  \E g : Counts(g, lines, seed, start, Len(lines))
<1> DEFINE Bad == {n \in Nat : seed <= n /\ n <= Len(lines)
                               /\ ~ \E g : Counts(g, lines, seed, start, n)}
<1>0. Len(lines) \in Nat /\ seed \in Nat /\ seed <= Len(lines)
  OBVIOUS
<1>1. SUFFICES ASSUME Bad # {} PROVE FALSE
  BY <1>0
<1>2. PICK n \in Bad : \A m \in Bad : n <= m
  <2>1. Bad \subseteq Nat
    OBVIOUS
  <2> HIDE DEF Bad
  <2> QED BY <1>1, <2>1, LeastNatural
<1>3. n \in Nat /\ seed <= n /\ n <= Len(lines) /\ ~ \E g : Counts(g, lines, seed, start, n)
  OBVIOUS
<1>4. CASE n = seed
  <2>1. Counts([i \in seed..seed |-> start], lines, seed, start, seed)
    BY <1>0 DEF Counts
  <2> QED BY <1>3, <1>4, <2>1
<1>5. CASE n # seed
  <2>1. n - 1 \in Nat /\ seed <= n - 1 /\ n - 1 <= Len(lines) /\ n - 1 < n
    BY <1>0, <1>3, <1>5
  <2>2. n - 1 \notin Bad
    <3> HIDE DEF Bad
    <3> QED BY <1>2, <1>3, <2>1
  <2>3. PICK g : Counts(g, lines, seed, start, n - 1)
    BY <2>1, <2>2
  <2>4. g \in [seed..(n - 1) -> Nat] /\ g[n - 1] \in Nat
    BY <1>0, <1>3, <2>1, <2>3 DEF Counts
  <2>5. Adds(lines[n]) \in Nat
    BY <1>0, <1>3, <2>1, LineFields
  <2>6. PICK last \in Nat : last = g[n - 1] + Adds(lines[n])
    BY <2>4, <2>5
  <2> DEFINE h == [i \in seed..n |-> IF i = n THEN last ELSE g[i]]
  <2>7. h \in [seed..n -> Nat] /\ h[seed] = start
    BY <1>0, <1>3, <1>5, <2>1, <2>3, <2>4 DEF Counts
  <2>8. ASSUME NEW i \in (seed + 1)..n PROVE h[i] = h[i - 1] + Adds(lines[i])
    <3>1. i - 1 \in seed..(n - 1) /\ h[i - 1] = g[i - 1]
      BY <1>0, <1>3
    <3>2. CASE i = n
      BY <1>0, <1>3, <2>6, <3>1, <3>2
    <3>3. CASE i # n
      <4>1. i \in (seed + 1)..(n - 1) /\ h[i] = g[i]
        BY <1>0, <1>3, <3>3
      <4> QED BY <2>3, <3>1, <4>1 DEF Counts
    <3> QED BY <3>2, <3>3
  <2>9. Counts(h, lines, seed, start, n)
    BY <2>7, <2>8 DEF Counts
  <2> QED BY <1>3, <2>9
<1> QED BY <1>4, <1>5

\* ... and it is what Totals says.
LEMMA TotalsCount ==
    ASSUME NEW lines \in Seq(Lines), NEW seed \in 0..Len(lines)
    PROVE  Counts(Totals(lines, seed), lines, seed, SeedTotal(lines, seed), Len(lines))
<1>0. Len(lines) \in Nat /\ seed \in Nat /\ seed <= Len(lines)
  OBVIOUS
<1>1. PICK start \in Nat : start = SeedTotal(lines, seed)
  <2>1. seed # 0 => lines[seed] \in Lines
    BY <1>0
  <2> QED BY <2>1, LineFields DEF SeedTotal
<1> DEFINE U(g) == [n \in seed..Len(lines) |-> IF n = seed THEN SeedTotal(lines, seed)
                                               ELSE g[n - 1] + Adds(lines[n])]
<1>2. PICK g : Counts(g, lines, seed, start, Len(lines))
  BY CountsExist
<1>3. g = U(g)
  <2>1. g = [n \in seed..Len(lines) |-> g[n]]
    BY <1>2 DEF Counts
  <2>2. ASSUME NEW n \in seed..Len(lines) PROVE g[n] = U(g)[n]
    <3>1. n # seed => n \in (seed + 1)..Len(lines)
      BY <1>0
    <3> QED BY <1>1, <1>2, <3>1 DEF Counts
  <2> QED BY <2>1, <2>2
<1>4. PICK f : f = U(f) /\ Totals(lines, seed) = f
  <2> DEFINE x == CHOOSE y : y = U(y)
  <2>1. x = U(x)
    BY <1>3
  <2>2. Totals(lines, seed) = x
    BY DEF Totals
  <2> HIDE DEF x
  <2> QED BY <2>1, <2>2
<1>5. f[seed] = start /\ \A n \in (seed + 1)..Len(lines) : f[n] = f[n - 1] + Adds(lines[n])
  <2>1. \A n \in seed..Len(lines) : f[n] = U(f)[n]
    BY <1>4
  <2> QED BY <1>0, <1>1, <2>1
<1>6. f = [n \in seed..Len(lines) |-> f[n]]
  BY <1>4
<1> HIDE DEF U
<1>7. ASSUME NEW i \in seed..Len(lines) PROVE f[i] \in Nat
  <2> DEFINE Bad == {n \in seed..Len(lines) : f[n] \notin Nat}
  <2>1. SUFFICES ASSUME Bad # {} PROVE FALSE
    OBVIOUS
  <2>2. PICK n \in Bad : \A m \in Bad : n <= m
    <3>1. Bad \subseteq Nat
      BY <1>0
    <3> HIDE DEF Bad
    <3> QED BY <2>1, <3>1, LeastNatural
  <2>3. n \in (seed + 1)..Len(lines) /\ n - 1 \in seed..Len(lines) /\ f[n] \notin Nat
    BY <1>0, <1>5
  <2>4. n - 1 \notin Bad
    <3> HIDE DEF Bad
    <3> QED BY <1>0, <2>2, <2>3
  <2>5. f[n - 1] \in Nat
    BY <2>3, <2>4
  <2>6. lines[n] \in Lines
    BY <1>0, <2>3
  <2> QED BY <1>5, <2>3, <2>5, <2>6, LineFields
<1>8. f \in [seed..Len(lines) -> Nat]
  BY <1>6, <1>7
<1> QED BY <1>1, <1>4, <1>5, <1>8 DEF Counts

\* Two scans that agree at some line, and add the same behind it, go on agreeing.
LEMMA TotalsAgree ==
    ASSUME NEW a \in Seq(Lines), NEW b \in Seq(Lines),
           NEW s \in 0..Len(a), NEW t \in 0..Len(b), NEW from \in Nat, NEW to \in Nat,
           s <= from, t <= from, from <= to, to <= Len(a), to <= Len(b),
           Totals(a, s)[from] = Totals(b, t)[from],
           \A i \in (from + 1)..to : Adds(a[i]) = Adds(b[i])
    PROVE  \A i \in from..to : Totals(a, s)[i] = Totals(b, t)[i]
<1> DEFINE m == Len(a)
           n == Len(b)
<1>0. m \in Nat /\ n \in Nat /\ s \in Nat /\ t \in Nat
  OBVIOUS
<1>8. PICK g, h : /\ g = Totals(a, s) /\ h = Totals(b, t)
                  /\ Counts(g, a, s, SeedTotal(a, s), m) /\ Counts(h, b, t, SeedTotal(b, t), n)
  BY TotalsCount
<1> HIDE DEF m, n
<1> DEFINE Bad == {i \in from..to : g[i] # h[i]}
<1>1. SUFFICES ASSUME Bad # {} PROVE FALSE
  BY <1>8
<1>2. PICK i \in Bad : \A j \in Bad : i <= j
  <2>1. Bad \subseteq Nat
    OBVIOUS
  <2> HIDE DEF Bad
  <2> QED BY <1>1, <2>1, LeastNatural
<1>3. i \in (from + 1)..to /\ i - 1 \in from..to /\ g[i] # h[i]
  BY <1>8
<1>4. i - 1 \notin Bad
  <2> HIDE DEF Bad
  <2> QED BY <1>2, <1>3
<1>5. g[i - 1] = h[i - 1]
  BY <1>3, <1>4
<1>6. i \in (s + 1)..m /\ i \in (t + 1)..n
  BY <1>0, <1>3 DEF m, n
<1>7. g[i] = g[i - 1] + Adds(a[i]) /\ h[i] = h[i - 1] + Adds(b[i])
  BY <1>6, <1>8 DEF Counts
<1> QED BY <1>3, <1>5, <1>7

\* The greatest member of a set of numbers.
LEMMA MaxIs ==
    ASSUME NEW T, T \subseteq Int, NEW x \in T, \A y \in T : y <= x
    PROVE  Max(T) = x
<1>1. Max(T) \in T /\ \A y \in T : Max(T) >= y
  <2>1. \E z \in T : \A y \in T : z >= y
    BY SMT
  <2> QED BY <2>1, Zenon DEF Max
<1>2. Max(T) \in Int /\ x \in Int /\ Max(T) <= x /\ Max(T) >= x
  BY <1>1
<1> QED BY <1>2

\* The greater of two numbers.
LEMMA MaxOfTwo ==
    ASSUME NEW x \in Int, NEW y \in Int, y <= x
    PROVE  Max({x, y}) = x /\ Max({y, x}) = x
<1>1. PICK T : T = {x, y}
  OBVIOUS
<1>2. T \subseteq Int /\ x \in T /\ (\A z \in T : z <= x) /\ T = {y, x}
  BY <1>1
<1>3. Max(T) = x
  BY <1>2, MaxIs
<1> QED BY <1>1, <1>2, <1>3

\* The totals go up line by line.
LEMMA TotalsGrow ==
    ASSUME NEW lines \in Seq(Lines)
    PROVE  /\ Totals(lines, 0)[0] = 0
           /\ \A n \in 0..Len(lines) : Totals(lines, 0)[n] \in Nat
           /\ \A n \in 1..Len(lines) :
                 Totals(lines, 0)[n] = Totals(lines, 0)[n - 1] + Adds(lines[n])
<1>1. Len(lines) \in Nat /\ 0 \in 0..Len(lines)
  OBVIOUS
<1>2. Counts(Totals(lines, 0), lines, 0, SeedTotal(lines, 0), Len(lines))
  BY <1>1, TotalsCount
<1> QED BY <1>1, <1>2 DEF Counts, SeedTotal

\* Files that add the same up to some line have the same totals up to there.
LEMMA TotalsPrefix ==
    ASSUME NEW a \in Seq(Lines), NEW b \in Seq(Lines), NEW k \in Nat,
           k <= Len(a), k <= Len(b), \A n \in 1..k : Adds(a[n]) = Adds(b[n])
    PROVE  \A n \in 0..k : Totals(a, 0)[n] = Totals(b, 0)[n]
<1>1. /\ Len(a) \in Nat /\ Len(b) \in Nat
      /\ 0 \in 0..Len(a) /\ 0 \in 0..Len(b)
  OBVIOUS
<1>2. Totals(a, 0)[0] = Totals(b, 0)[0]
  BY TotalsGrow
<1>3. \A n \in (0 + 1)..k : Adds(a[n]) = Adds(b[n])
  OBVIOUS
<1> QED BY <1>1, <1>2, <1>3, TotalsAgree

\* A scan that starts from a checkpoint with the right total counts as one from the top.
LEMMA TotalsFrom ==
    ASSUME NEW lines \in Seq(Lines), NEW seed \in 0..Len(lines),
           seed # 0 => lines[seed].total = Totals(lines, 0)[seed]
    PROVE  \A n \in seed..Len(lines) : Totals(lines, seed)[n] = Totals(lines, 0)[n]
<1>1. Len(lines) \in Nat /\ 0 \in 0..Len(lines) /\ seed \in Nat /\ seed <= Len(lines)
  OBVIOUS
<1>3. Counts(Totals(lines, seed), lines, seed, SeedTotal(lines, seed), Len(lines))
  BY <1>1, TotalsCount
<1>4. Totals(lines, seed)[seed] = Totals(lines, 0)[seed]
  BY <1>3, TotalsGrow DEF Counts, SeedTotal
<1>5. \A i \in seed..Len(lines) : Totals(lines, seed)[i] = Totals(lines, 0)[i]
  BY <1>1, <1>4, TotalsAgree
<1> QED BY <1>5
-----------------------------------------------------------------------------
(* What opening the file finds                                             *)

\* r is the file with its last line cut off, if it was torn, or closed.
Repairs(r, lines) ==
    /\ r \in Seq(Lines)
    /\ Len(r) \in {Len(lines), Len(lines) - 1}
    /\ Len(r) < Len(lines) => lines[Len(lines)].form = "torn"
    /\ \A n \in 1..Len(r) :
          /\ r[n].form = "full"
          /\ r[n].seq = lines[n].seq
          /\ r[n].what = lines[n].what
          /\ r[n].total = lines[n].total
          /\ lines[n].form \in {"full", "open"}

\* That is what Repaired does.
LEMMA RepairedRepairs ==
    ASSUME NEW lines, Sound(lines)
    PROVE  Repairs(Repaired(lines), lines)
<1>0. lines \in Seq(Lines) /\ Len(lines) \in Nat
  BY DEF Sound
<1>1. \A n \in 1..Len(lines) : lines[n] \in Lines
  BY <1>0
<1>2. \A n \in 1..Len(lines) : n # Len(lines) => lines[n].form = "full"
  BY DEF Sound
<1>3. CASE lines = <<>>
  BY <1>0, <1>3 DEF Repairs, Repaired
<1>4. CASE lines # <<>>
  <2>1. Len(lines) > 0 /\ lines[Len(lines)] \in Lines
    BY <1>0, <1>1, <1>4
  <2>2. lines[Len(lines)].form \in {"full", "open", "torn"}
    BY <1>0, <2>1, LineFields DEF Sound
  <2>3. CASE lines[Len(lines)].form = "torn"
    <3>1. Repaired(lines) = SubSeq(lines, 1, Len(lines) - 1)
      BY <1>4, <2>3 DEF Repaired, Last, Front
    <3>2. PICK r \in Seq(Lines) :
            /\ r = SubSeq(lines, 1, Len(lines) - 1)
            /\ Len(r) = Len(lines) - 1
            /\ \A n \in 1..Len(r) : r[n] = lines[n]
      <4>1. Len(lines) - 1 \in 0..Len(lines)
        BY <1>0, <2>1
      <4>2. PICK k \in 0..Len(lines) : k = Len(lines) - 1
        BY <4>1
      <4>3. /\ SubSeq(lines, 1, k) \in Seq(Lines)
            /\ Len(SubSeq(lines, 1, k)) = k
            /\ \A n \in 1..k : SubSeq(lines, 1, k)[n] = lines[n]
        BY <1>0, FirstLines
      <4> QED BY <4>2, <4>3
    <3>3. \A n \in 1..Len(r) : lines[n].form = "full"
      BY <1>0, <1>2, <3>2
    <3>4. Repairs(r, lines)
      BY <2>3, <3>2, <3>3 DEF Repairs
    <3> QED BY <3>1, <3>2, <3>4
  <2>4. CASE lines[Len(lines)].form = "open"
    <3>1. Repaired(lines) = [lines EXCEPT ![Len(lines)].form = "full"]
      BY <1>4, <2>4 DEF Repaired, Last
    <3>2. PICK line \in Lines : line = [lines[Len(lines)] EXCEPT !.form = "full"]
      BY <2>1 DEF Lines
    <3>3. PICK r : r = [lines EXCEPT ![Len(lines)] = line]
      OBVIOUS
    <3>4. r = [lines EXCEPT ![Len(lines)].form = "full"]
      BY <3>2, <3>3
    <3>5. /\ r \in Seq(Lines) /\ Len(r) = Len(lines)
          /\ r[Len(lines)] = line
          /\ \A n \in 1..Len(lines) : n # Len(lines) => r[n] = lines[n]
      BY <1>0, <2>1, <3>3
    <3>6. /\ line.form = "full" /\ line.seq = lines[Len(lines)].seq
          /\ line.what = lines[Len(lines)].what /\ line.total = lines[Len(lines)].total
      BY <2>1, <3>2 DEF Lines
    <3>7. Repairs(r, lines)
      <4> SUFFICES ASSUME NEW n \in 1..Len(r)
                   PROVE  /\ r[n].form = "full"
                          /\ r[n].seq = lines[n].seq
                          /\ r[n].what = lines[n].what
                          /\ r[n].total = lines[n].total
                          /\ lines[n].form \in {"full", "open"}
        BY <1>0, <3>5 DEF Repairs
      <4>1. CASE n = Len(lines)
        BY <2>4, <3>5, <3>6, <4>1
      <4>2. CASE n # Len(lines)
        BY <1>2, <3>5, <4>2
      <4> QED BY <4>1, <4>2
    <3> QED BY <3>1, <3>4, <3>7
  <2>5. CASE lines[Len(lines)].form = "full"
    <3>1. Repaired(lines) = lines
      BY <1>4, <2>5 DEF Repaired, Last
    <3>2. \A n \in 1..Len(lines) : lines[n].form = "full"
      BY <1>0, <1>2, <2>5
    <3> QED BY <1>0, <3>1, <3>2 DEF Repairs
  <2> QED BY <2>2, <2>3, <2>4, <2>5
<1> QED BY <1>3, <1>4

\* A repaired file is sound, and every line of it is closed.
LEMMA RepairsSound ==
    ASSUME NEW lines, Sound(lines), NEW r, Repairs(r, lines)
    PROVE  /\ Sound(r)
           /\ \A n \in 0..Len(r) : Totals(r, 0)[n] = Totals(lines, 0)[n]
           /\ \A n \in 1..Len(lines) : IsCheckpoint(lines, n) => IsCheckpoint(r, n)
<1>1. lines \in Seq(Lines) /\ r \in Seq(Lines) /\ Len(r) \in Nat /\ Len(lines) \in Nat
  BY DEF Sound, Repairs
<1>2. Len(r) <= Len(lines)
  BY <1>1 DEF Repairs
<1>3. \A n \in 1..Len(r) : Adds(r[n]) = Adds(lines[n])
  BY DEF Repairs, Adds, Parses
<1>4. \A n \in 0..Len(r) : Totals(r, 0)[n] = Totals(lines, 0)[n]
  BY <1>1, <1>2, <1>3, TotalsPrefix
<1>5. Sound(r)
  <2> SUFFICES ASSUME NEW n \in 1..Len(r)
               PROVE  /\ r[n].seq = n - 1
                      /\ r[n].form # "fused"
                      /\ r[n].form = "full" \/ n = Len(r)
                      /\ r[n].what = Checkpoint => r[n].total = Totals(r, 0)[n]
                      /\ r[n].what = Meta => n = 1
    BY <1>1 DEF Sound
  <2>1. n \in 1..Len(lines) /\ n \in 0..Len(r)
    BY <1>1, <1>2
  <2>2. Totals(r, 0)[n] = Totals(lines, 0)[n]
    BY <1>4, <2>1
  <2> QED BY <2>1, <2>2 DEF Sound, Repairs
<1>6. ASSUME NEW n \in 1..Len(lines), IsCheckpoint(lines, n) PROVE IsCheckpoint(r, n)
  <2>1. n \in 1..Len(r)
    BY <1>1, <1>6 DEF Repairs, IsCheckpoint
  <2> QED BY <1>6, <2>1 DEF Repairs, IsCheckpoint
<1> QED BY <1>4, <1>5, <1>6

\* w is what a writer should know of a file all of whose lines are closed.
Knows(w, lines) ==
    /\ w.cp \in 0..Len(lines)
    /\ w.cp # 0 => lines[w.cp].what = Checkpoint
    /\ \A n \in (w.cp + 1)..Len(lines) : lines[n].what # Checkpoint
    /\ w = [open |-> TRUE, nextSeq |-> Len(lines), total |-> Totals(lines, 0)[Len(lines)],
            since |-> Len(lines) - w.cp, cp |-> w.cp, poisoned |-> FALSE]

\* A recovery from any checkpoint, or from the top, knows the file it repaired.
LEMMA RecoveredKnows ==
    ASSUME NEW lines, Sound(lines), NEW seed \in Nat, seed = 0 \/ IsCheckpoint(lines, seed)
    PROVE  Knows(Recovered(lines, seed), Repaired(lines))
<1>1. PICK r : r = Repaired(lines)
  OBVIOUS
<1>2. Repairs(r, lines)
  BY <1>1, RepairedRepairs
<1>3. Sound(r) /\ (seed = 0 \/ IsCheckpoint(r, seed))
  <2>1. seed # 0 => seed \in 1..Len(lines) /\ IsCheckpoint(lines, seed)
    BY DEF IsCheckpoint
  <2> QED BY <1>2, <2>1, RepairsSound
<1>4. r \in Seq(Lines) /\ Len(r) \in Nat /\ seed \in 0..Len(r)
  BY <1>3 DEF Sound, IsCheckpoint
<1>5. \A n \in 1..Len(r) : r[n].form = "full" /\ r[n].seq = n - 1
  BY <1>2, <1>3 DEF Repairs, Sound
<1>6. NextSeq(r, seed) = Len(r)
  <2> DEFINE I == ({seed} \cap DOMAIN r) \cup ((seed + 1)..Len(r))
             T == {-1} \cup {r[n].seq : n \in I}
  <2>1. NextSeq(r, seed) = 1 + Max(T)
    BY DEF NextSeq
  <2>2. I \subseteq 1..Len(r) /\ (Len(r) > 0 => Len(r) \in I)
    BY <1>4
  <2> HIDE DEF I
  <2>3. T \subseteq Int /\ \A y \in T : y <= Len(r) - 1
    BY <1>4, <1>5, <2>2
  <2>4. Len(r) - 1 \in T
    BY <1>4, <1>5, <2>2
  <2>5. Max(T) = Len(r) - 1
    <3> HIDE DEF T
    <3> QED BY <2>3, <2>4, MaxIs
  <2> QED BY <1>4, <2>1, <2>5
<1>7. PICK cp \in Nat :
        /\ cp = Max({seed, NewestCheckpoint(r, seed + 1)})
        /\ cp \in 0..Len(r)
        /\ cp # 0 => r[cp].what = Checkpoint
        /\ \A n \in (cp + 1)..Len(r) : r[n].what # Checkpoint
  <2> DEFINE C == {n \in (seed + 1)..Len(r) : IsCheckpoint(r, n)}
             T == {0} \cup C
  <2>1. T \subseteq 0..Len(r) /\ T # {} /\ T \subseteq Int
    BY <1>4
  <2>2. PICK k \in T : \A y \in T : y <= k
    <3> HIDE DEF T
    <3> QED BY <1>4, <2>1, GreatestNatural
  <2>3. NewestCheckpoint(r, seed + 1) = k
    <3>1. Max(T) = k
      <4> HIDE DEF T
      <4> QED BY <2>1, <2>2, MaxIs
    <3> QED BY <3>1 DEF NewestCheckpoint
  <2>4. \A n \in (seed + 1)..Len(r) : n > k => r[n].what # Checkpoint
    <3> SUFFICES ASSUME NEW n \in (seed + 1)..Len(r), n > k, r[n].what = Checkpoint
                 PROVE  FALSE
      OBVIOUS
    <3>1. n \in C
      BY <1>4, <1>5 DEF IsCheckpoint
    <3> QED BY <2>1, <2>2, <3>1
  <2>5. k \in 0..Len(r) /\ (k # 0 => k > seed /\ r[k].what = Checkpoint)
    BY <1>4, <2>1, <2>2 DEF IsCheckpoint
  <2>6. seed # 0 => r[seed].what = Checkpoint
    BY <1>3 DEF IsCheckpoint
  <2>7. CASE k = 0
    <3>1. Max({seed, k}) = seed
      BY <1>4, <2>5, <2>7, MaxOfTwo
    <3>2. Max({seed, NewestCheckpoint(r, seed + 1)}) = seed
      BY <2>3, <3>1, Zenon
    <3>3. \A n \in (seed + 1)..Len(r) : r[n].what # Checkpoint
      BY <1>4, <2>4, <2>7
    <3> QED BY <1>4, <2>6, <3>2, <3>3
  <2>8. CASE k # 0
    <3>1. Max({seed, k}) = k
      BY <1>4, <2>5, <2>8, MaxOfTwo
    <3>2. \A n \in (k + 1)..Len(r) : n \in (seed + 1)..Len(r) /\ n > k
      BY <1>4, <2>5, <2>8
    <3>3. Max({seed, NewestCheckpoint(r, seed + 1)}) = k
      BY <2>3, <3>1, Zenon
    <3>4. k \in Nat /\ k \in 0..Len(r) /\ r[k].what = Checkpoint
      BY <1>4, <2>5, <2>8
    <3>5. \A n \in (k + 1)..Len(r) : r[n].what # Checkpoint
      BY <2>4, <3>2
    <3> HIDE DEF T
    <3> QED BY <3>3, <3>4, <3>5
  <2> QED BY <2>7, <2>8
<1>8. Totals(r, seed)[Len(r)] = Totals(r, 0)[Len(r)]
  <2>1. seed # 0 => r[seed].total = Totals(r, 0)[seed]
    BY <1>3, <1>4 DEF Sound, IsCheckpoint
  <2>2. Len(r) \in seed..Len(r)
    BY <1>4
  <2> QED BY <1>4, <2>1, <2>2, TotalsFrom
<1>9. Recovered(lines, seed) =
        [open |-> TRUE, nextSeq |-> Len(r), total |-> Totals(r, 0)[Len(r)],
         since |-> Len(r) - cp, cp |-> cp, poisoned |-> FALSE]
  BY <1>1, <1>6, <1>7, <1>8 DEF Recovered, SinceCheckpoint
<1>10. PICK w : w = [open |-> TRUE, nextSeq |-> Len(r), total |-> Totals(r, 0)[Len(r)],
                     since |-> Len(r) - cp, cp |-> cp, poisoned |-> FALSE]
  OBVIOUS
<1>11. w.cp = cp
  BY <1>10
<1>12. Knows(w, r)
  BY <1>7, <1>10, <1>11 DEF Knows
<1> QED BY <1>1, <1>9, <1>10, <1>12

\* There is only one thing to know.
LEMMA KnowsOne ==
    ASSUME NEW lines \in Seq(Lines), NEW v, NEW w, Knows(v, lines), Knows(w, lines)
    PROVE  v = w
<1>1. Len(lines) \in Nat
  OBVIOUS
<1>2. v.cp = w.cp
  BY <1>1 DEF Knows
<1> QED BY <1>2 DEF Knows

\* A scan of a sound file, from a checkpoint or from the top, finds nothing wrong.
LEMMA SoundAccepted ==
    ASSUME NEW lines, Sound(lines), NEW seed \in Nat, seed = 0 \/ IsCheckpoint(lines, seed)
    PROVE  ScanAccepts(lines, seed)
<1>1. lines \in Seq(Lines) /\ Len(lines) \in Nat
  BY DEF Sound
<1>2. seed \in 0..Len(lines)
  BY <1>1 DEF IsCheckpoint
<1>3. \A n \in (seed + 1)..Len(lines) : n \in 1..Len(lines)
  BY <1>1, <1>2
<1>4. \A n \in (seed + 1)..Len(lines) : lines[n].form # "fused"
  BY <1>3 DEF Sound
<1>5. \A m, n \in 1..Len(lines) : m < n => lines[m].seq < lines[n].seq
  BY <1>1 DEF Sound
<1>6. \A n \in 1..Len(lines) : lines[n].what = Checkpoint => lines[n].total = Totals(lines, 0)[n]
  BY DEF Sound
<1>7. seed # 0 => seed \in 1..Len(lines)
  BY <1>2
<1> QED BY <1>3, <1>4, <1>5, <1>6, <1>7 DEF ScanAccepts
-----------------------------------------------------------------------------
(* What a write does to the file                                           *)

\* d is the first k lines with one more.
Extended(d, lines, k, line) ==
    /\ d \in Seq(Lines)
    /\ Len(d) = k + 1
    /\ \A n \in 1..k : d[n] = lines[n]
    /\ d[k + 1] = line

\* A line with the next number leaves the file sound, if it is a checkpoint only
\* with the totals so far.
LEMMA ExtendedSound ==
    ASSUME NEW lines, Sound(lines), NEW k \in Nat, k <= Len(lines),
           \A n \in 1..k : lines[n].form = "full",
           NEW line \in Lines, line.seq = k, line.form # "fused",
           line.what = Checkpoint => line.total = Totals(lines, 0)[k],
           line.what = Meta => k = 0,
           NEW d, Extended(d, lines, k, line)
    PROVE  /\ Sound(d)
           /\ \A n \in 0..k : Totals(d, 0)[n] = Totals(lines, 0)[n]
           /\ Totals(d, 0)[k + 1] = Totals(lines, 0)[k] + Adds(line)
<1>1. /\ lines \in Seq(Lines) /\ Len(lines) \in Nat
      /\ d \in Seq(Lines) /\ Len(d) = k + 1 /\ d[k + 1] = line
      /\ \A n \in 1..k : d[n] = lines[n]
  BY DEF Sound, Extended
<1>2. \A n \in 1..k : Adds(d[n]) = Adds(lines[n])
  BY <1>1
<1>3. \A n \in 0..k : Totals(d, 0)[n] = Totals(lines, 0)[n]
  BY <1>1, <1>2, TotalsPrefix
<1>4. Totals(d, 0)[k + 1] = Totals(lines, 0)[k] + Adds(line)
  <2>1. k + 1 \in 1..Len(d) /\ k + 1 - 1 = k /\ k \in 0..k
    BY <1>1
  <2>2. Totals(d, 0)[k + 1] = Totals(d, 0)[k + 1 - 1] + Adds(d[k + 1])
    BY <1>1, <2>1, TotalsGrow
  <2> QED BY <1>1, <1>3, <2>1, <2>2
<1>5. Sound(d)
  <2> SUFFICES ASSUME NEW n \in 1..Len(d)
               PROVE  /\ d[n].seq = n - 1
                      /\ d[n].form # "fused"
                      /\ d[n].form = "full" \/ n = Len(d)
                      /\ d[n].what = Checkpoint => d[n].total = Totals(d, 0)[n]
                      /\ d[n].what = Meta => n = 1
    BY <1>1 DEF Sound
  <2>1. CASE n = k + 1
    <3>1. ASSUME line.what = Checkpoint PROVE line.total = Totals(d, 0)[k + 1]
      <4>1. Adds(line) = 0
        BY <3>1, ItemsAssumption DEF Adds, UseOf
      <4>2. k \in 0..Len(lines)
        BY <1>1
      <4>3. Totals(lines, 0)[k] \in Nat
        BY <1>1, <4>2, TotalsGrow
      <4> QED BY <1>4, <3>1, <4>1, <4>3
    <3> QED BY <1>1, <2>1, <3>1
  <2>2. CASE n # k + 1
    <3>1. n \in 1..k /\ n \in 1..Len(lines) /\ n \in 0..k
      BY <1>1, <2>2
    <3>2. Totals(d, 0)[n] = Totals(lines, 0)[n] /\ d[n] = lines[n]
      BY <1>1, <1>3, <3>1
    <3> QED BY <3>1, <3>2 DEF Sound
  <2> QED BY <2>1, <2>2
<1> QED BY <1>3, <1>4, <1>5

\* A write to a file whose lines are all closed puts nothing or one line there.
LEMMA AfterWriteIs ==
    ASSUME NEW lines \in Seq(Lines), \A n \in 1..Len(lines) : lines[n].form = "full",
           NEW line \in Lines, NEW d \in AfterWrite(lines, line)
    PROVE  \/ d = lines
           \/ \E f \in {"torn", "open", "full"} :
                 Extended(d, lines, Len(lines), [line EXCEPT !.form = f])
<1>0. Len(lines) \in Nat
  OBVIOUS
<1>1. SUFFICES ASSUME NEW f \in {"torn", "open", "full"},
                      d = Put(lines, [line EXCEPT !.form = f])
               PROVE  Extended(d, lines, Len(lines), [line EXCEPT !.form = f])
  BY DEF AfterWrite
<1>2. PICK new \in Lines : new = [line EXCEPT !.form = f]
  BY DEF Lines
<1>3. lines # <<>> => lines[Len(lines)].form = "full"
  BY <1>0
<1>4. d = Append(lines, new)
  BY <1>1, <1>2, <1>3 DEF Put, Last
<1>5. Extended(d, lines, Len(lines), new)
  BY <1>0, <1>4 DEF Extended
<1> QED BY <1>2, <1>5

\* A write that has gone through leaves its line behind those that were there.
LEMMA CompletedIs ==
    ASSUME NEW lines, Sound(lines), NEW k \in Nat, k \in {Len(lines), Len(lines) - 1},
           \A n \in 1..k : lines[n].form = "full", NEW line \in Lines, line.seq = k
    PROVE  Extended(Completed(lines, line), lines, k, line)
<1>0. lines \in Seq(Lines) /\ Len(lines) \in Nat
  BY DEF Sound
<1>1. CASE k = Len(lines) - 1
  <2>1. Len(lines) > 0 /\ lines # <<>> /\ lines[Len(lines)].seq = k
    BY <1>0, <1>1 DEF Sound
  <2>2. lines[Len(lines)].form # "fused"
    BY <1>0, <2>1 DEF Sound
  <2>3. Completed(lines, line) = Append(SubSeq(lines, 1, k), line)
    BY <1>1, <2>1, <2>2 DEF Completed, Last, Front
  <2>4. PICK j \in 0..Len(lines) : j = k
    BY <1>0, <1>1
  <2>5. PICK front \in Seq(Lines) : /\ front = SubSeq(lines, 1, k) /\ Len(front) = k
                                   /\ \A n \in 1..k : front[n] = lines[n]
    <3>1. /\ SubSeq(lines, 1, j) \in Seq(Lines) /\ Len(SubSeq(lines, 1, j)) = j
          /\ \A n \in 1..j : SubSeq(lines, 1, j)[n] = lines[n]
      BY <1>0, FirstLines
    <3> QED BY <2>4, <3>1
  <2>6. Extended(Append(front, line), lines, k, line)
    BY <2>5 DEF Extended
  <2> QED BY <2>3, <2>5, <2>6
<1>2. CASE k = Len(lines)
  <2>1. lines # <<>> => lines[Len(lines)].seq # k /\ lines[Len(lines)].form = "full"
    BY <1>0, <1>2 DEF Sound
  <2>2. Completed(lines, line) = Append(lines, line)
    BY <1>2, <2>1 DEF Completed, Put, Last
  <2>3. Extended(Append(lines, line), lines, k, line)
    BY <1>0, <1>2 DEF Extended
  <2> QED BY <2>2, <2>3
<1> QED BY <1>1, <1>2

\* d is the file after a write of x began: the lines the writer knows, and x.
Writes(d, x) ==
    /\ Sound(d)
    /\ Len(d) = writer.nextSeq + 1
    /\ \A n \in 1..writer.nextSeq : d[n] = disk[n]
    /\ d[Len(d)].what = x
    /\ \A n \in 0..writer.nextSeq : Totals(d, 0)[n] = Totals(disk, 0)[n]

\* The line the writer makes of x.
LEMMA LineIs ==
    ASSUME RecorderInv, writer.open, NEW x \in Items \cup {Meta, Checkpoint}
    PROVE  /\ Line(x) \in Lines
           /\ Line(x).seq = writer.nextSeq /\ Line(x).what = x /\ Line(x).form = "full"
           /\ x = Checkpoint => Line(x).total = Totals(disk, 0)[writer.nextSeq]
           /\ writer.nextSeq \in Nat /\ writer.nextSeq <= Len(disk)
           /\ writer.nextSeq \in {Len(disk), Len(disk) - 1}
           /\ \A n \in 1..writer.nextSeq : disk[n].form = "full"
<1>1. writer.nextSeq \in Nat /\ writer.total \in Nat /\ disk \in Seq(Lines)
  BY DEF RecorderInv, TypeOK
<1>2. /\ writer.nextSeq \in {Len(disk), Len(disk) - 1}
      /\ \A n \in 1..writer.nextSeq : disk[n].form = "full"
      /\ writer.total = Totals(disk, 0)[writer.nextSeq]
  BY DEF RecorderInv, WriterInv, Follows
<1>3. Line(x) = [seq |-> writer.nextSeq, what |-> x, form |-> "full",
                 total |-> IF x = Checkpoint THEN writer.total ELSE 0]
  BY DEF Line
<1>4. Line(x) \in Lines
  BY <1>1, <1>3 DEF Lines
<1> QED BY <1>1, <1>2, <1>3, <1>4

\* The file after a write began: as it was, or with some or all of the line.
LEMMA WriteBegins ==
    ASSUME RecorderInv, pc \in {"append", "checkpoint"}, ~writer.poisoned,
           NEW x \in Items \cup {Meta, Checkpoint}, x = Meta => disk = <<>>,
           NEW d \in AfterWrite(disk, Line(x))
    PROVE  d = disk \/ Writes(d, x)
<1>1. writer.open
  BY DEF RecorderInv, WriterInv, WritingPCs
<1>2. /\ Line(x) \in Lines
      /\ Line(x).seq = writer.nextSeq /\ Line(x).what = x
      /\ x = Checkpoint => Line(x).total = Totals(disk, 0)[writer.nextSeq]
      /\ writer.nextSeq \in Nat
      /\ \A n \in 1..writer.nextSeq : disk[n].form = "full"
  BY <1>1, LineIs
<1>3. disk \in Seq(Lines) /\ Sound(disk) /\ Len(disk) = writer.nextSeq
  BY <1>1 DEF RecorderInv, TypeOK, FileInv, WriterInv, Follows
<1>4. SUFFICES ASSUME d # disk PROVE Writes(d, x)
  OBVIOUS
<1>5. PICK f \in {"torn", "open", "full"} :
        Extended(d, disk, Len(disk), [Line(x) EXCEPT !.form = f])
  BY <1>2, <1>3, <1>4, AfterWriteIs
<1>6. PICK line \in Lines : /\ line = [Line(x) EXCEPT !.form = f] /\ line.form = f
                            /\ line.seq = writer.nextSeq /\ line.what = x
                            /\ line.total = Line(x).total
  <2>1. PICK base \in Lines : base = Line(x)
    BY <1>2
  <2>2. PICK line : line = [base EXCEPT !.form = f]
    OBVIOUS
  <2>3. /\ line \in Lines /\ line.form = f /\ line.seq = base.seq
        /\ line.what = base.what /\ line.total = base.total
    BY <2>2 DEF Lines
  <2>4. line = [Line(x) EXCEPT !.form = f]
    BY <2>1, <2>2
  <2> QED BY <1>2, <2>1, <2>3, <2>4
<1>7. x = Meta => writer.nextSeq = 0
  BY <1>3
<1>8. Extended(d, disk, writer.nextSeq, line)
  BY <1>3, <1>5, <1>6
<1>9. /\ Sound(d)
      /\ \A n \in 0..writer.nextSeq : Totals(d, 0)[n] = Totals(disk, 0)[n]
  <2>1. PICK k \in Nat : k = writer.nextSeq
    BY <1>2
  <2>2. /\ k <= Len(disk) /\ \A n \in 1..k : disk[n].form = "full"
        /\ line.seq = k /\ line.form # "fused"
        /\ line.what = Checkpoint => line.total = Totals(disk, 0)[k]
        /\ line.what = Meta => k = 0
        /\ Extended(d, disk, k, line)
    BY <1>2, <1>3, <1>6, <1>7, <1>8, <2>1
  <2>3. Sound(d) /\ \A n \in 0..k : Totals(d, 0)[n] = Totals(disk, 0)[n]
    BY <1>3, <2>2, ExtendedSound
  <2> QED BY <2>1, <2>3
<1> QED BY <1>6, <1>8, <1>9 DEF Writes, Extended

\* The file after a write went through.
LEMMA WriteEnds ==
    ASSUME RecorderInv, writer.open,
           NEW x \in Items \cup {Meta, Checkpoint}, x = Meta => writer.nextSeq = 0,
           NEW d, d = Completed(disk, Line(x))
    PROVE  /\ Writes(d, x)
           /\ d[Len(d)].form = "full"
           /\ Totals(d, 0)[Len(d)] = writer.total + UseOf(x)
<1>2. PICK line \in Lines :
        /\ line = Line(x)
        /\ line.seq = writer.nextSeq /\ line.what = x /\ line.form = "full"
        /\ x = Checkpoint => line.total = Totals(disk, 0)[writer.nextSeq]
  BY LineIs
<1>3. PICK k \in Nat : /\ k = writer.nextSeq /\ k <= Len(disk)
                       /\ k \in {Len(disk), Len(disk) - 1}
                       /\ \A n \in 1..k : disk[n].form = "full"
  BY LineIs
<1>4. Sound(disk) /\ writer.total = Totals(disk, 0)[k]
  BY <1>3 DEF RecorderInv, FileInv, WriterInv, Follows
<1>5. Extended(d, disk, k, line)
  BY <1>2, <1>3, <1>4, CompletedIs
<1>6. /\ Sound(d)
      /\ \A n \in 0..k : Totals(d, 0)[n] = Totals(disk, 0)[n]
      /\ Totals(d, 0)[k + 1] = Totals(disk, 0)[k] + Adds(line)
  BY <1>2, <1>3, <1>4, <1>5, ExtendedSound
<1>7. Adds(line) = UseOf(x)
  BY <1>2 DEF Adds, Parses
<1> QED BY <1>2, <1>3, <1>4, <1>5, <1>6, <1>7 DEF Writes, Extended
-----------------------------------------------------------------------------
(* The steps of the recorder                                               *)

\* The fields of the writer.
LEMMA WriterFields ==
    ASSUME TypeOK
    PROVE  /\ writer.open \in BOOLEAN /\ writer.poisoned \in BOOLEAN
           /\ writer.nextSeq \in Nat /\ writer.total \in Nat
           /\ writer.since \in Nat /\ writer.cp \in Nat
           /\ writer = [open |-> writer.open, nextSeq |-> writer.nextSeq,
                        total |-> writer.total, since |-> writer.since, cp |-> writer.cp,
                        poisoned |-> writer.poisoned]
  BY DEF TypeOK

\* Opening the file repairs it, and the writer knows it then.
LEMMA OpenKnows ==
    ASSUME RecorderInv, OpenRollout \/ ResumeThread
    PROVE  /\ Repairs(disk', disk) /\ Sound(disk') /\ Knows(writer', disk')
           /\ sidecar' \in Nat
           /\ sidecar' = 0 \/ IsCheckpoint(disk', sidecar')
           /\ \A n \in 0..Len(disk') : Totals(disk', 0)[n] \in Nat
<1>1. Sound(disk) /\ sidecar \in Nat /\ (sidecar = 0 \/ IsCheckpoint(disk, sidecar))
  BY DEF RecorderInv, TypeOK, FileInv
<1>2. PICK seed \in Nat : seed = Seed(disk, sidecar) /\ (seed = 0 \/ IsCheckpoint(disk, seed))
  BY <1>1 DEF Seed
<1>3. disk' = Repaired(disk) /\ writer' = Recovered(disk, seed)
  BY <1>2 DEF OpenRollout, ResumeThread
<1>4. Repairs(disk', disk) /\ Knows(writer', disk')
  BY <1>1, <1>2, <1>3, RepairedRepairs, RecoveredKnows
<1>5. Sound(disk') /\ (sidecar = 0 \/ IsCheckpoint(disk', sidecar))
  <2>1. PICK r : r = disk'
    OBVIOUS
  <2>2. /\ Sound(r)
        /\ \A n \in 1..Len(disk) : IsCheckpoint(disk, n) => IsCheckpoint(r, n)
    BY <1>1, <1>4, <2>1, RepairsSound
  <2> QED BY <1>1, <2>1, <2>2 DEF IsCheckpoint
<1>6. sidecar' \in {sidecar, writer'.cp}
  BY DEF OpenRollout, ResumeThread, RefreshSidecar
<1>7. writer'.cp \in Nat /\ (writer'.cp = 0 \/ IsCheckpoint(disk', writer'.cp))
  <2>1. Len(disk') \in Nat
    BY <1>5 DEF Sound
  <2>2. \A n \in 1..Len(disk') : disk'[n].form = "full"
    BY <1>4 DEF Repairs
  <2> QED BY <1>4, <2>1, <2>2 DEF Knows, IsCheckpoint
<1>8. \A n \in 0..Len(disk') : Totals(disk', 0)[n] \in Nat
  BY <1>5, TotalsGrow DEF Sound
<1> QED BY <1>1, <1>4, <1>5, <1>6, <1>7, <1>8

\* The file an open that failed leaves.
LEMMA OpenLeaves ==
    ASSUME RecorderInv, OpenFails
    PROVE  (disk' = disk /\ exists' = exists) \/ (Repairs(disk', disk) /\ exists')
<1>1. Repairs(Repaired(disk), disk)
  BY RepairedRepairs DEF RecorderInv, FileInv
<1> QED BY <1>1 DEF OpenFails, RecorderInv, TypeOK

\* Beginning and finishing the write of the front of the queue.
LEMMA FrontWritten ==
    ASSUME RecorderInv
    PROVE  /\ AppendFront => disk' = disk \/ Writes(disk', Head(pending))
           /\ AppendDone =>
                 /\ Writes(disk', Head(pending))
                 /\ disk'[Len(disk')].form = "full"
                 /\ Totals(disk', 0)[Len(disk')] = writer.total + UseOf(Head(pending))
           /\ WriteCheckpoint => disk' = disk \/ Writes(disk', Checkpoint)
           /\ CheckpointDone =>
                 /\ Writes(disk', Checkpoint)
                 /\ disk'[Len(disk')].form = "full"
                 /\ Totals(disk', 0)[Len(disk')] = writer.total + UseOf(Checkpoint)
<1>0. pending \in Seq(Items \cup {Meta})
  BY DEF RecorderInv, TypeOK
<1>1. pending # <<>> =>
        /\ Head(pending) \in Items \cup {Meta, Checkpoint}
        /\ Head(pending) = pending[1] /\ 1 \in 1..Len(pending)
  BY <1>0
<1>2. Checkpoint # Meta
  BY DEF Checkpoint, Meta
<1>3. ASSUME AppendFront PROVE disk' = disk \/ Writes(disk', Head(pending))
  <2>1. /\ pc = "append" /\ pending # <<>> /\ ~writer.poisoned
        /\ disk' \in AfterWrite(disk, Line(Head(pending)))
    BY <1>3 DEF AppendFront
  <2>2. unconfirmed = NoSeq
    BY <2>1 DEF RecorderInv, OutcomeInv
  <2>3. Head(pending) = Meta => disk = <<>>
    BY <1>1, <2>1, <2>2 DEF RecorderInv, MetaInv, NoSeq
  <2> QED BY <1>1, <2>1, <2>3, WriteBegins
<1>4. ASSUME AppendDone
      PROVE  /\ Writes(disk', Head(pending))
             /\ disk'[Len(disk')].form = "full"
             /\ Totals(disk', 0)[Len(disk')] = writer.total + UseOf(Head(pending))
  <2>1. pc = "appended" /\ disk' = Completed(disk, Line(Head(pending)))
    BY <1>4 DEF AppendDone
  <2>2. pending # <<>> /\ writer.open
    BY <2>1 DEF RecorderInv, OutcomeInv, WriterInv, WritingPCs
  <2>3. Head(pending) = Meta => writer.nextSeq = 0
    BY <1>1, <2>1, <2>2 DEF RecorderInv, MetaInv
  <2> QED BY <1>1, <2>1, <2>2, <2>3, WriteEnds
<1>5. ASSUME WriteCheckpoint PROVE disk' = disk \/ Writes(disk', Checkpoint)
  <2>1. pc = "checkpoint" /\ disk' \in AfterWrite(disk, Line(Checkpoint))
    BY <1>5 DEF WriteCheckpoint
  <2>2. ~writer.poisoned
    BY <2>1 DEF RecorderInv, WriterInv
  <2> QED BY <1>2, <2>1, <2>2, WriteBegins
<1>6. ASSUME CheckpointDone
      PROVE  /\ Writes(disk', Checkpoint)
             /\ disk'[Len(disk')].form = "full"
             /\ Totals(disk', 0)[Len(disk')] = writer.total + UseOf(Checkpoint)
  <2>1. pc = "checkpointed" /\ disk' = Completed(disk, Line(Checkpoint))
    BY <1>6 DEF CheckpointDone
  <2>2. writer.open
    BY <2>1 DEF RecorderInv, WriterInv, WritingPCs
  <2> QED BY <1>2, <2>1, <2>2, WriteEnds
<1> QED BY <1>3, <1>4, <1>5, <1>6

\* What the writer holds of a file it knows.
LEMMA KnownFields ==
    ASSUME NEW w, NEW lines \in Seq(Lines), Knows(w, lines)
    PROVE  /\ w \in [open : BOOLEAN, nextSeq : Nat, total : Nat, since : Nat, cp : Nat,
                     poisoned : BOOLEAN]
           /\ w.open /\ ~w.poisoned /\ w.nextSeq = Len(lines)
           /\ w.total = Totals(lines, 0)[Len(lines)] /\ w.since = Len(lines) - w.cp
<1>1. PICK cp \in Nat : cp = w.cp /\ cp \in 0..Len(lines)
  BY DEF Knows
<1>2. PICK total \in Nat : total = Totals(lines, 0)[Len(lines)]
  BY TotalsGrow
<1>3. PICK len \in Nat : len = Len(lines) /\ len - cp \in Nat
  BY <1>1
<1>4. w = [open |-> TRUE, nextSeq |-> len, total |-> total, since |-> len - cp, cp |-> cp,
           poisoned |-> FALSE]
  BY <1>1, <1>2, <1>3 DEF Knows
<1> QED BY <1>1, <1>2, <1>3, <1>4

\* What the writer holds after it counted a line.
LEMMA CountedFields ==
    ASSUME TypeOK, NEW x
    PROVE  /\ Counted(x) = [open |-> writer.open, nextSeq |-> writer.nextSeq + 1,
                            total |-> writer.total + UseOf(x), since |-> writer.since + 1,
                            cp |-> writer.cp, poisoned |-> writer.poisoned]
           /\ UseOf(x) \in Nat
<1>1. PICK w \in [open : BOOLEAN, nextSeq : Nat, total : Nat, since : Nat, cp : Nat,
                  poisoned : BOOLEAN] : w = writer
  BY DEF TypeOK
<1>2. UseOf(x) \in Nat
  BY ItemsAssumption DEF UseOf
<1>3. PICK a \in Nat, b \in Nat, c \in Nat :
        a = w.nextSeq + 1 /\ b = w.since + 1 /\ c = w.total + UseOf(x)
  BY <1>2
<1>4. PICK v : v = [w EXCEPT !.nextSeq = a, !.since = b, !.total = c]
  OBVIOUS
<1>5. v = [open |-> w.open, nextSeq |-> a, total |-> c, since |-> b, cp |-> w.cp,
           poisoned |-> w.poisoned]
  BY <1>4
<1>6. Counted(x) = v
  BY <1>1, <1>3, <1>4 DEF Counted
<1> QED BY <1>1, <1>2, <1>3, <1>5, <1>6

\* TypeOK without its flags, and the flags.
DataTypes ==
    /\ disk \in Seq(Lines)
    /\ sidecar \in Nat
    /\ writer \in [open : BOOLEAN, nextSeq : Nat, total : Nat, since : Nat, cp : Nat,
                   poisoned : BOOLEAN]
    /\ pending \in Seq(Items \cup {Meta})
    /\ unconfirmed \in Nat \cup {NoSeq}
    /\ pc \in {"recv", "open", "settle", "append", "appended", "checkpoint", "checkpointed",
               "stopping", "stopped", "down"}
    /\ command \in Items \cup Calls \cup {LastAttempt}
    /\ attempt \in {1, 2}
    /\ inbox \in Seq(Items \cup Calls)
    /\ recorded \subseteq Items
    /\ kind \in [Calls -> Kinds]
    /\ result \in [Calls -> {"none", "waiting", "ok", "failed", "discarded"}]
    /\ failures \in 0..MaxFailures
    /\ restarts \in 0..MaxRestarts

FlagTypes ==
    /\ exists \in BOOLEAN
    /\ deferred \in BOOLEAN
    /\ meta \in BOOLEAN
    /\ handles \in BOOLEAN

\* A closed writer.
LEMMA NoWriterFields ==
    /\ NoWriter \in [open : BOOLEAN, nextSeq : Nat, total : Nat, since : Nat, cp : Nat,
                     poisoned : BOOLEAN]
    /\ ~NoWriter.open /\ ~NoWriter.poisoned /\ NoWriter.nextSeq = 0 /\ NoWriter.cp = 0
  BY DEF NoWriter


\* Every step keeps the types ...
LEMMA DataStep ==
    ASSUME RecorderInv, [Next]_vars
    PROVE  DataTypes'
<1>0. DataTypes
  BY DEF RecorderInv, TypeOK, DataTypes
<1>1. ASSUME NEW i \in Items, Record(i) PROVE DataTypes'
  BY <1>0, <1>1, NoWriterFields, BoundsAssumption
     DEF Record, disks, state, task, hosts, DataTypes
<1>2. ASSUME NEW c \in Calls, Call(c) PROVE DataTypes'
  BY <1>0, <1>2, NoWriterFields, BoundsAssumption
     DEF Call, disks, state, task, hosts, DataTypes
<1>3. ASSUME DropHandles PROVE DataTypes'
  BY <1>0, <1>3, NoWriterFields, BoundsAssumption
     DEF DropHandles, disks, state, task, hosts, DataTypes
<1>4. ASSUME ReceiveRecord PROVE DataTypes'
  BY <1>0, <1>4, NoWriterFields, BoundsAssumption
     DEF ReceiveRecord, BeginWrite, disks, state, task, hosts, DataTypes
<1>5. ASSUME ReceiveBarrier PROVE DataTypes'
  <2>1. inbox # <<>> /\ inbox' = Tail(inbox) /\ Head(inbox) \in Calls
    BY <1>5 DEF ReceiveBarrier
  <2>2. PICK c \in Calls : c = Head(inbox)
    BY <2>1
  <2>3. inbox' \in Seq(Items \cup Calls)
    BY <1>0, <2>1 DEF DataTypes
  <2>4. /\ result' = result \/ result' = [result EXCEPT ![c] = "ok"]
        /\ pc' \in {"recv", "open", "append", "stopping"}
        /\ command' \in {command, c} /\ attempt' \in {attempt, 1}
        /\ UNCHANGED <<disk, sidecar, writer, pending, unconfirmed, recorded, kind, failures,
                       restarts>>
    BY <1>5, <2>2 DEF ReceiveBarrier, BeginWrite, Reply, disks, state
  <2> QED BY <1>0, <2>3, <2>4 DEF DataTypes
<1>6. ASSUME ReceiveDiscard PROVE DataTypes'
  BY <1>0, <1>6, NoWriterFields, BoundsAssumption
     DEF ReceiveDiscard, disks, state, task, hosts, DataTypes
<1>7. ASSUME ReceiveNone PROVE DataTypes'
  BY <1>0, <1>7, NoWriterFields, BoundsAssumption
     DEF ReceiveNone, BeginWrite, disks, state, task, hosts, DataTypes
<1>8. ASSUME SettleUnconfirmed PROVE DataTypes'
  <2>1. PICK left \in Seq(Items \cup {Meta}) : pending' = left \/ pending' = <<Meta>> \o left
    <3>1. pending \in Seq(Items \cup {Meta}) /\ (Landed => pending # <<>>)
      BY <1>0 DEF Landed, DataTypes
    <3>2. PICK left : left = IF Landed THEN Tail(pending) ELSE pending
      OBVIOUS
    <3>3. left \in Seq(Items \cup {Meta})
      BY <3>1, <3>2
    <3> QED BY <1>8, <3>2, <3>3 DEF SettleUnconfirmed
  <2>2. pending' \in Seq(Items \cup {Meta})
    <3>1. <<Meta>> \in Seq(Items \cup {Meta})
      OBVIOUS
    <3>2. <<Meta>> \o left \in Seq(Items \cup {Meta})
      BY <3>1, ConcatProperties
    <3> QED BY <2>1, <3>2, Zenon
  <2> QED BY <1>0, <1>8, <2>2 DEF SettleUnconfirmed, disks, hosts, DataTypes
<1>9. ASSUME SettleFails PROVE DataTypes'
  BY <1>0, <1>9, NoWriterFields, BoundsAssumption
     DEF SettleFails, Fails, Recover, Reply, disks, state, task, hosts,
     DataTypes
<1>10. ASSUME AppendFails PROVE DataTypes'
  BY <1>0, <1>10, NoWriterFields, BoundsAssumption
     DEF AppendFails, Fails, Recover, Reply, disks, state, task, hosts,
     DataTypes
<1>11. ASSUME AppendPoisoned PROVE DataTypes'
  BY <1>0, <1>11, NoWriterFields, BoundsAssumption
     DEF AppendPoisoned, Recover, Reply, disks, state, task, hosts,
     DataTypes
<1>12. ASSUME CheckpointFails PROVE DataTypes'
  <2>1. PICK w \in [open : BOOLEAN, nextSeq : Nat, total : Nat, since : Nat, cp : Nat,
                     poisoned : BOOLEAN] : w = writer
    BY <1>0 DEF DataTypes
  <2>2. writer' \in [open : BOOLEAN, nextSeq : Nat, total : Nat, since : Nat, cp : Nat,
                     poisoned : BOOLEAN]
    BY <1>12, <2>1 DEF CheckpointFails
  <2>3. /\ failures < MaxFailures /\ failures' = failures + 1 /\ pc' = "append"
        /\ UNCHANGED <<disk, sidecar, pending, unconfirmed, command, attempt, inbox, recorded,
                       kind, result, restarts>>
    BY <1>12 DEF CheckpointFails, Fails, disks, hosts
  <2> QED BY <1>0, <2>2, <2>3, BoundsAssumption DEF DataTypes
<1>13. ASSUME Drained PROVE DataTypes'
  BY <1>0, <1>13, NoWriterFields, BoundsAssumption
     DEF Drained, Reply, CloseIfStopping, RefreshSidecar, Sync, disks,
     state, task, hosts, DataTypes
<1>14. ASSUME FlushFails PROVE DataTypes'
  BY <1>0, <1>14, NoWriterFields, BoundsAssumption
     DEF FlushFails, Fails, Recover, Reply, Sync, disks, state, task,
     hosts, DataTypes
<1>15. ASSUME Stop PROVE DataTypes'
  BY <1>0, <1>15, NoWriterFields, BoundsAssumption
     DEF Stop, disks, state, task, hosts, DataTypes
<1>16. ASSUME Crash PROVE DataTypes'
  BY <1>0, <1>16, NoWriterFields, BoundsAssumption
     DEF Crash, disks, state, task, hosts, DataTypes
<1>17. ASSUME CreateThread PROVE DataTypes'
  BY <1>0, <1>17, NoWriterFields, BoundsAssumption
     DEF CreateThread, disks, state, task, hosts, DataTypes
<1>18. ASSUME OpenRollout PROVE DataTypes'
  <2>1. disk' \in Seq(Lines) /\ sidecar' \in Nat /\ Knows(writer', disk')
    BY <1>18, OpenKnows DEF Sound
  <2>2. writer' \in [open : BOOLEAN, nextSeq : Nat, total : Nat, since : Nat, cp : Nat,
                     poisoned : BOOLEAN]
    BY <2>1, KnownFields
  <2> QED BY <1>0, <1>18, <2>1, <2>2 DEF OpenRollout, hosts, DataTypes
<1>19. ASSUME OpenFails PROVE DataTypes'
  <2>1. disk' \in Seq(Lines) /\ exists' \in BOOLEAN
    BY <1>19, OpenLeaves DEF Repairs, RecorderInv, TypeOK
  <2>2. failures' \in 0..MaxFailures
    BY <1>0, <1>19, BoundsAssumption DEF OpenFails, Fails, DataTypes
  <2>3. /\ UNCHANGED <<sidecar, pending, unconfirmed, inbox, recorded, kind, restarts>>
        /\ Recover
    BY <1>19 DEF OpenFails
  <2> QED BY <1>0, <2>1, <2>2, <2>3, NoWriterFields DEF Recover, Reply, DataTypes
<1>20. ASSUME AppendFront PROVE DataTypes'
  <2>1. disk' \in Seq(Lines)
    BY <1>20, FrontWritten DEF Writes, Sound, RecorderInv, TypeOK
  <2> QED BY <1>0, <1>20, <2>1 DEF AppendFront, state, hosts, DataTypes
<1>21. ASSUME AppendDone PROVE DataTypes'
  <2>1. disk' \in Seq(Lines)
    BY <1>21, FrontWritten DEF Writes, Sound
  <2>2. pending # <<>> /\ TypeOK
    BY <1>21 DEF AppendDone, RecorderInv, OutcomeInv
  <2>3. writer' \in [open : BOOLEAN, nextSeq : Nat, total : Nat, since : Nat, cp : Nat,
                     poisoned : BOOLEAN]
    BY <1>21, <2>2, WriterFields, CountedFields DEF AppendDone
  <2>4. pending' \in Seq(Items \cup {Meta})
    BY <1>21, <2>2 DEF AppendDone, TypeOK
  <2> QED BY <1>0, <1>21, <2>1, <2>3, <2>4 DEF AppendDone, hosts, DataTypes
<1>22. ASSUME WriteCheckpoint PROVE DataTypes'
  <2>1. disk' \in Seq(Lines)
    BY <1>22, FrontWritten DEF Writes, Sound, RecorderInv, TypeOK
  <2> QED BY <1>0, <1>22, <2>1 DEF WriteCheckpoint, state, hosts, DataTypes
<1>23. ASSUME CheckpointDone PROVE DataTypes'
  <2>1. PICK d \in Seq(Lines) : d = disk' /\ Len(d) \in Nat
    BY <1>23, FrontWritten DEF Writes, Sound
  <2>2. TypeOK
    BY DEF RecorderInv
  <2>3. PICK w \in [open : BOOLEAN, nextSeq : Nat, total : Nat, since : Nat, cp : Nat,
                     poisoned : BOOLEAN] : w = Counted(Checkpoint)
    BY <2>2, WriterFields, CountedFields
  <2>4. /\ writer' \in [open : BOOLEAN, nextSeq : Nat, total : Nat, since : Nat, cp : Nat,
                        poisoned : BOOLEAN]
        /\ writer'.cp = Len(d)
    BY <1>23, <2>1, <2>3 DEF CheckpointDone
  <2>5. sidecar' \in Nat
    BY <1>23, <2>1, <2>2, <2>4 DEF CheckpointDone, RefreshSidecar, TypeOK
  <2> QED BY <1>0, <1>23, <2>1, <2>4, <2>5 DEF CheckpointDone, hosts, DataTypes
<1>24. ASSUME ResumeThread PROVE DataTypes'
  <2>1. disk' \in Seq(Lines) /\ sidecar' \in Nat /\ Knows(writer', disk')
    BY <1>24, OpenKnows DEF Sound
  <2>2. writer' \in [open : BOOLEAN, nextSeq : Nat, total : Nat, since : Nat, cp : Nat,
                     poisoned : BOOLEAN]
    BY <2>1, KnownFields
  <2> QED BY <1>0, <1>24, <2>1, <2>2, BoundsAssumption DEF ResumeThread, DataTypes
<1>25. ASSUME UNCHANGED vars PROVE DataTypes'
  BY <1>0, <1>25 DEF vars, disks, state, task, hosts, DataTypes
<1> QED BY <1>1, <1>2, <1>3, <1>4, <1>5, <1>6, <1>7, <1>8, <1>9, <1>10, <1>11, <1>12, <1>13,
   <1>14, <1>15, <1>16, <1>17, <1>18, <1>19, <1>20, <1>21, <1>22, <1>23, <1>24, <1>0, <1>25
   DEF Next, WriterTask, Host

\* ... and the flags.
LEMMA FlagStep ==
    ASSUME RecorderInv, [Next]_vars
    PROVE  FlagTypes'
<1>1. FlagTypes
  BY DEF RecorderInv, TypeOK, FlagTypes
<1>2. ASSUME NEW i \in Items, Record(i) PROVE FlagTypes'
  BY <1>1, <1>2, Zenon DEF Record, disks, state, task, hosts, FlagTypes
<1>3. ASSUME NEW c \in Calls, Call(c) PROVE FlagTypes'
  BY <1>1, <1>3, Zenon DEF Call, disks, state, task, hosts, FlagTypes
<1>4. ASSUME DropHandles PROVE FlagTypes'
  BY <1>1, <1>4, Zenon DEF DropHandles, disks, state, task, hosts, FlagTypes
<1>5. ASSUME ReceiveRecord PROVE FlagTypes'
  BY <1>1, <1>5, Zenon DEF ReceiveRecord, disks, state, task, hosts, FlagTypes
<1>6. ASSUME ReceiveBarrier PROVE FlagTypes'
  BY <1>1, <1>6, Zenon DEF ReceiveBarrier, disks, state, task, hosts, FlagTypes
<1>7. ASSUME ReceiveDiscard PROVE FlagTypes'
  BY <1>1, <1>7, Zenon DEF ReceiveDiscard, disks, state, task, hosts, FlagTypes
<1>8. ASSUME ReceiveNone PROVE FlagTypes'
  BY <1>1, <1>8, Zenon DEF ReceiveNone, disks, state, task, hosts, FlagTypes
<1>9. ASSUME SettleUnconfirmed PROVE FlagTypes'
  BY <1>1, <1>9, Zenon DEF SettleUnconfirmed, disks, state, task, hosts, FlagTypes
<1>10. ASSUME SettleFails PROVE FlagTypes'
  BY <1>1, <1>10, Zenon DEF SettleFails, disks, state, task, hosts, FlagTypes
<1>11. ASSUME AppendFails PROVE FlagTypes'
  BY <1>1, <1>11, Zenon DEF AppendFails, disks, state, task, hosts, FlagTypes
<1>12. ASSUME AppendPoisoned PROVE FlagTypes'
  BY <1>1, <1>12, Zenon DEF AppendPoisoned, disks, state, task, hosts, FlagTypes
<1>13. ASSUME CheckpointFails PROVE FlagTypes'
  BY <1>1, <1>13, Zenon DEF CheckpointFails, disks, state, task, hosts, FlagTypes
<1>14. ASSUME Drained PROVE FlagTypes'
  BY <1>1, <1>14, Zenon DEF Drained, disks, state, task, hosts, FlagTypes
<1>15. ASSUME FlushFails PROVE FlagTypes'
  BY <1>1, <1>15, Zenon DEF FlushFails, disks, state, task, hosts, FlagTypes
<1>16. ASSUME Stop PROVE FlagTypes'
  BY <1>1, <1>16, Zenon DEF Stop, disks, state, task, hosts, FlagTypes
<1>17. ASSUME Crash PROVE FlagTypes'
  BY <1>1, <1>17, Zenon DEF Crash, disks, state, task, hosts, FlagTypes
<1>18. ASSUME CreateThread PROVE FlagTypes'
  BY <1>1, <1>18, Zenon DEF CreateThread, disks, state, task, hosts, FlagTypes
<1>19. ASSUME OpenRollout PROVE FlagTypes'
  BY <1>1, <1>19, Zenon DEF OpenRollout, disks, state, task, hosts, FlagTypes
<1>20. ASSUME OpenFails PROVE FlagTypes'
  BY <1>1, <1>20, Zenon DEF OpenFails, disks, state, task, hosts, FlagTypes
<1>21. ASSUME AppendFront PROVE FlagTypes'
  BY <1>1, <1>21, Zenon DEF AppendFront, disks, state, task, hosts, FlagTypes
<1>22. ASSUME AppendDone PROVE FlagTypes'
  BY <1>1, <1>22, Zenon DEF AppendDone, disks, state, task, hosts, FlagTypes
<1>23. ASSUME WriteCheckpoint PROVE FlagTypes'
  BY <1>1, <1>23, Zenon DEF WriteCheckpoint, disks, state, task, hosts, FlagTypes
<1>24. ASSUME CheckpointDone PROVE FlagTypes'
  BY <1>1, <1>24, Zenon DEF CheckpointDone, disks, state, task, hosts, FlagTypes
<1>25. ASSUME ResumeThread PROVE FlagTypes'
  BY <1>1, <1>25, Zenon DEF ResumeThread, disks, state, task, hosts, FlagTypes
<1>26. ASSUME UNCHANGED vars PROVE FlagTypes'
  BY <1>1, <1>26, Zenon DEF vars, disks, state, task, hosts, FlagTypes
<1> QED BY <1>2, <1>3, <1>4, <1>5, <1>6, <1>7, <1>8, <1>9, <1>10, <1>11, <1>12,
     <1>13, <1>14, <1>15, <1>16, <1>17, <1>18, <1>19, <1>20, <1>21, <1>22, <1>23, <1>24, <1>25,
     <1>26 DEF Next, WriterTask, Host

\* Every step keeps the types.
LEMMA TypeStep ==
    ASSUME RecorderInv, [Next]_vars
    PROVE  TypeOK'
<1>1. DataTypes' /\ FlagTypes'
  BY DataStep, FlagStep
<1> QED BY <1>1, Zenon DEF DataTypes, FlagTypes, TypeOK

\* A write leaves the checkpoints where they are.
LEMMA WritesKeeps ==
    ASSUME RecorderInv, writer.open, NEW x, NEW d, Writes(d, x),
           Len(disk) > writer.nextSeq => disk[Len(disk)].what = x,
           Len(disk) = writer.nextSeq \/ d[Len(d)].form = "full",
           NEW n, IsCheckpoint(disk, n)
    PROVE  IsCheckpoint(d, n)
<1>1. disk \in Seq(Lines) /\ Len(disk) \in Nat /\ writer.nextSeq \in Nat
  BY DEF RecorderInv, TypeOK
<1>2. writer.nextSeq \in {Len(disk), Len(disk) - 1}
  BY DEF RecorderInv, WriterInv, Follows
<1>3. n \in 1..Len(disk) /\ disk[n].form = "full" /\ disk[n].what = Checkpoint
  BY DEF IsCheckpoint
<1>4. /\ Len(d) = writer.nextSeq + 1 /\ d[Len(d)].what = x
      /\ \A i \in 1..writer.nextSeq : d[i] = disk[i]
  BY DEF Writes
<1>5. CASE n <= writer.nextSeq
  <2>1. n \in 1..writer.nextSeq /\ n \in 1..Len(d)
    BY <1>1, <1>3, <1>4, <1>5
  <2> QED BY <1>3, <1>4, <2>1 DEF IsCheckpoint
<1>6. CASE ~(n <= writer.nextSeq)
  <2>1. n = Len(disk) /\ n = Len(d) /\ Len(disk) > writer.nextSeq
    BY <1>1, <1>2, <1>3, <1>4, <1>6
  <2>2. n \in 1..Len(d)
    BY <1>1, <1>3, <2>1
  <2> QED BY <1>1, <1>3, <1>4, <2>1, <2>2 DEF IsCheckpoint
<1> QED BY <1>5, <1>6

\* A writer that has counted the line it wrote follows the file.
LEMMA WrittenFollows ==
    ASSUME RecorderInv, writer.open, NEW x, NEW d, Writes(d, x), d[Len(d)].form = "full",
           Totals(d, 0)[Len(d)] = writer.total + UseOf(x),
           NEW w, w.nextSeq = writer.nextSeq + 1, w.total = writer.total + UseOf(x),
           \/ x # Checkpoint /\ w.cp = writer.cp /\ w.since = writer.since + 1
           \/ x = Checkpoint /\ w.cp = Len(d) /\ w.since = 0
    PROVE  Follows(w, d) /\ Len(d) = w.nextSeq
<1>1. /\ disk \in Seq(Lines) /\ Len(disk) \in Nat /\ writer.nextSeq \in Nat
      /\ writer.cp \in Nat /\ writer.since \in Nat
  BY DEF RecorderInv, TypeOK
<1>2. /\ \A n \in 1..writer.nextSeq : disk[n].form = "full"
      /\ writer.cp \in 0..writer.nextSeq
      /\ writer.cp # 0 => disk[writer.cp].what = Checkpoint
      /\ \A n \in (writer.cp + 1)..writer.nextSeq : disk[n].what # Checkpoint
      /\ writer.since = writer.nextSeq - writer.cp
  BY DEF RecorderInv, WriterInv, Follows
<1>3. /\ Len(d) = writer.nextSeq + 1 /\ d[Len(d)].what = x
      /\ \A i \in 1..writer.nextSeq : d[i] = disk[i]
  BY DEF Writes
<1>4. Len(d) = w.nextSeq /\ Len(d) \in Nat
  BY <1>1, <1>3
<1>5. \A n \in 1..w.nextSeq : d[n].form = "full"
  <2> SUFFICES ASSUME NEW n \in 1..w.nextSeq PROVE d[n].form = "full"
    OBVIOUS
  <2>1. n = Len(d) \/ n \in 1..writer.nextSeq
    BY <1>1, <1>3, <1>4
  <2> QED BY <1>2, <1>3, <2>1
<1>6. CASE x # Checkpoint /\ w.cp = writer.cp /\ w.since = writer.since + 1
  <2>1. w.cp \in 0..w.nextSeq /\ w.since = w.nextSeq - w.cp
    BY <1>1, <1>2, <1>6
  <2>2. w.cp # 0 => w.cp \in 1..writer.nextSeq
    BY <1>1, <1>2, <1>6
  <2>3. w.cp # 0 => d[w.cp].what = Checkpoint
    BY <1>2, <1>3, <1>6, <2>2
  <2>4. ASSUME NEW n \in (w.cp + 1)..w.nextSeq PROVE d[n].what # Checkpoint
    <3>1. n = Len(d) \/ (n \in 1..writer.nextSeq /\ n \in (writer.cp + 1)..writer.nextSeq)
      BY <1>1, <1>2, <1>3, <1>4, <1>6
    <3> QED BY <1>2, <1>3, <1>6, <3>1
  <2> QED BY <1>4, <1>5, <2>1, <2>3, <2>4 DEF Follows
<1>7. CASE x = Checkpoint /\ w.cp = Len(d) /\ w.since = 0
  BY <1>3, <1>4, <1>5, <1>7 DEF Follows
<1> QED BY <1>6, <1>7

\* A writer that knows the file follows it.
LEMMA KnownFollows ==
    ASSUME NEW w, NEW lines \in Seq(Lines), Knows(w, lines),
           \A n \in 1..Len(lines) : lines[n].form = "full"
    PROVE  Follows(w, lines)
<1>1. /\ w.nextSeq = Len(lines) /\ w.total = Totals(lines, 0)[Len(lines)]
      /\ w.since = Len(lines) - w.cp /\ Len(lines) \in Nat
  BY KnownFields
<1> QED BY <1>1 DEF Follows, Knows

\* The file after each step that writes it, and the writer after it.
LEMMA FileAfterWrite ==
    ASSUME RecorderInv, NEW x,
           \/ AppendFront /\ x = Head(pending)
           \/ WriteCheckpoint /\ x = Checkpoint
           \/ AppendDone /\ x = Head(pending)
           \/ CheckpointDone /\ x = Checkpoint
    PROVE  /\ disk' = disk \/ Writes(disk', x)
           /\ writer.open /\ exists' /\ exists' = exists
           /\ Sound(disk') /\ (sidecar = 0 \/ IsCheckpoint(disk', sidecar))
<1>1. disk' = disk \/ Writes(disk', x)
  BY FrontWritten
<1>2. writer.open
  BY DEF RecorderInv, WriterInv, WritingPCs, AppendFront, WriteCheckpoint, AppendDone,
         CheckpointDone
<1>3. exists /\ exists' = exists
  BY <1>2 DEF RecorderInv, WriterInv, AppendFront, WriteCheckpoint, AppendDone, CheckpointDone
<1>4. Sound(disk) /\ (sidecar = 0 \/ IsCheckpoint(disk, sidecar))
  BY DEF RecorderInv, FileInv
<1>5. CASE Writes(disk', x)
  <2>1. writer.nextSeq \in Nat /\ Len(disk) \in Nat
    BY DEF RecorderInv, TypeOK
  <2>2. writer.nextSeq \in {Len(disk), Len(disk) - 1}
    BY <1>2 DEF RecorderInv, WriterInv, Follows
  <2>3. ASSUME AppendFront \/ WriteCheckpoint PROVE Len(disk) = writer.nextSeq
    <3>1. pc \in {"append", "checkpoint"} /\ ~writer.poisoned
      BY <2>3 DEF RecorderInv, WriterInv, AppendFront, WriteCheckpoint
    <3>2. ~(Len(disk) > writer.nextSeq)
      BY <1>2, <3>1 DEF RecorderInv, WriterInv
    <3> QED BY <2>1, <2>2, <3>2
  <2>4. ASSUME AppendDone \/ CheckpointDone PROVE disk'[Len(disk')].form = "full"
    BY <2>4, FrontWritten
  <2>5. ASSUME Len(disk) > writer.nextSeq PROVE disk[Len(disk)].what = x
    <3>1. CASE AppendFront \/ WriteCheckpoint
      BY <2>1, <2>3, <2>5, <3>1
    <3>2. CASE AppendDone /\ x = Head(pending)
      BY <1>2, <2>5, <3>2 DEF RecorderInv, WriterInv, AppendDone
    <3>3. CASE CheckpointDone /\ x = Checkpoint
      BY <1>2, <2>5, <3>3 DEF RecorderInv, WriterInv, CheckpointDone
    <3> QED BY <3>1, <3>2, <3>3
  <2>6. Len(disk) = writer.nextSeq \/ disk'[Len(disk')].form = "full"
    BY <2>3, <2>4
  <2>7. PICK d : d = disk'
    OBVIOUS
  <2>8. \A n : IsCheckpoint(disk, n) => IsCheckpoint(d, n)
    BY <1>2, <1>5, <2>5, <2>6, <2>7, WritesKeeps
  <2> QED BY <1>1, <1>2, <1>3, <1>4, <1>5, <2>7, <2>8 DEF Writes
<1>6. CASE disk' = disk
  BY <1>1, <1>2, <1>3, <1>4, <1>6
<1> QED BY <1>1, <1>5, <1>6

\* Every step leaves a file that can be recovered.
LEMMA FileStep ==
    ASSUME RecorderInv, [Next]_vars
    PROVE  FileInv'
<1>1. ASSUME NEW i \in Items, Record(i) PROVE FileInv'
  BY <1>1 DEF Record, disks, RecorderInv, FileInv
<1>2. ASSUME NEW c \in Calls, Call(c) PROVE FileInv'
  BY <1>2 DEF Call, disks, RecorderInv, FileInv
<1>3. ASSUME DropHandles PROVE FileInv'
  BY <1>3 DEF DropHandles, disks, RecorderInv, FileInv
<1>4. ASSUME ReceiveRecord PROVE FileInv'
  BY <1>4 DEF ReceiveRecord, disks, RecorderInv, FileInv
<1>5. ASSUME ReceiveBarrier PROVE FileInv'
  BY <1>5 DEF ReceiveBarrier, disks, RecorderInv, FileInv
<1>6. ASSUME ReceiveDiscard PROVE FileInv'
  BY <1>6 DEF ReceiveDiscard, disks, RecorderInv, FileInv
<1>7. ASSUME ReceiveNone PROVE FileInv'
  BY <1>7 DEF ReceiveNone, disks, RecorderInv, FileInv
<1>8. ASSUME SettleUnconfirmed PROVE FileInv'
  BY <1>8 DEF SettleUnconfirmed, disks, RecorderInv,
     FileInv
<1>9. ASSUME SettleFails PROVE FileInv'
  BY <1>9 DEF SettleFails, disks, RecorderInv, FileInv
<1>10. ASSUME AppendFails PROVE FileInv'
  BY <1>10 DEF AppendFails, disks, RecorderInv, FileInv
<1>11. ASSUME AppendPoisoned PROVE FileInv'
  BY <1>11 DEF AppendPoisoned, disks, RecorderInv, FileInv
<1>12. ASSUME CheckpointFails PROVE FileInv'
  BY <1>12 DEF CheckpointFails, disks, RecorderInv,
     FileInv
<1>13. ASSUME Drained PROVE FileInv'
  <2>1. writer.open /\ writer.nextSeq \in Nat /\ writer.cp \in Nat /\ Len(disk) \in Nat
    BY <1>13 DEF Drained, RecorderInv, TypeOK, WriterInv, WritingPCs
  <2>2. /\ writer.nextSeq \in {Len(disk), Len(disk) - 1}
        /\ \A n \in 1..writer.nextSeq : disk[n].form = "full"
        /\ writer.cp \in 0..writer.nextSeq
        /\ writer.cp # 0 => disk[writer.cp].what = Checkpoint
    BY <2>1 DEF RecorderInv, WriterInv, Follows
  <2>3. writer.cp # 0 => writer.cp \in 1..writer.nextSeq /\ writer.cp \in 1..Len(disk)
    BY <2>1, <2>2
  <2>4. writer.cp = 0 \/ IsCheckpoint(disk, writer.cp)
    BY <2>2, <2>3 DEF IsCheckpoint
  <2> QED BY <1>13, <2>4 DEF Drained, RefreshSidecar, RecorderInv, FileInv
<1>14. ASSUME FlushFails PROVE FileInv'
  BY <1>14 DEF FlushFails, disks,
     RecorderInv, FileInv
<1>15. ASSUME Stop PROVE FileInv'
  BY <1>15 DEF Stop, disks, RecorderInv, FileInv
<1>16. ASSUME Crash PROVE FileInv'
  BY <1>16 DEF Crash, disks, RecorderInv, FileInv
<1>17. ASSUME CreateThread PROVE FileInv'
  BY <1>17 DEF CreateThread, disks, RecorderInv,
     FileInv
<1>18. ASSUME OpenRollout PROVE FileInv'
  <2>1. Sound(disk') /\ (sidecar' = 0 \/ IsCheckpoint(disk', sidecar'))
    BY <1>18, OpenKnows
  <2> QED BY <1>18, <2>1 DEF OpenRollout, FileInv
<1>19. ASSUME OpenFails PROVE FileInv'
  <2>1. CASE disk' = disk /\ exists' = exists
    BY <1>19, <2>1 DEF OpenFails, RecorderInv, FileInv
  <2>2. CASE Repairs(disk', disk) /\ exists'
    <3>1. PICK r : r = disk' /\ Repairs(r, disk)
      BY <2>2
    <3>2. Sound(disk) /\ (sidecar = 0 \/ IsCheckpoint(disk, sidecar))
      BY DEF RecorderInv, FileInv
    <3>3. Sound(r) /\ \A n \in 1..Len(disk) : IsCheckpoint(disk, n) => IsCheckpoint(r, n)
      BY <3>1, <3>2, RepairsSound
    <3>4. sidecar = 0 \/ IsCheckpoint(r, sidecar)
      BY <3>2, <3>3 DEF IsCheckpoint
    <3> QED BY <1>19, <2>2, <3>1, <3>3, <3>4 DEF OpenFails, FileInv
  <2> QED BY <1>19, <2>1, <2>2, OpenLeaves
<1>20. ASSUME AppendFront PROVE FileInv'
  BY <1>20, FileAfterWrite DEF AppendFront, FileInv
<1>21. ASSUME AppendDone PROVE FileInv'
  BY <1>21, FileAfterWrite DEF AppendDone, FileInv
<1>22. ASSUME WriteCheckpoint PROVE FileInv'
  BY <1>22, FileAfterWrite DEF WriteCheckpoint, FileInv
<1>23. ASSUME CheckpointDone PROVE FileInv'
  <2>1. Sound(disk') /\ exists' /\ (sidecar = 0 \/ IsCheckpoint(disk', sidecar))
    BY <1>23, FileAfterWrite
  <2>2. /\ Writes(disk', Checkpoint) /\ disk'[Len(disk')].form = "full"
    BY <1>23, FrontWritten
  <2>3. writer.nextSeq \in Nat /\ Len(disk') = writer.nextSeq + 1
    BY <2>2 DEF RecorderInv, TypeOK, Writes
  <2>4. IsCheckpoint(disk', Len(disk'))
    BY <2>2, <2>3 DEF IsCheckpoint, Writes
  <2>5. writer'.cp = Len(disk')
    <3>1. PICK w \in [open : BOOLEAN, nextSeq : Nat, total : Nat, since : Nat, cp : Nat,
                      poisoned : BOOLEAN] : w = Counted(Checkpoint)
      BY WriterFields, CountedFields DEF RecorderInv
    <3> QED BY <1>23, <3>1 DEF CheckpointDone
  <2>6. sidecar' \in {sidecar, Len(disk')}
    BY <1>23, <2>5 DEF CheckpointDone, RefreshSidecar
  <2> QED BY <2>1, <2>4, <2>6 DEF FileInv
<1>24. ASSUME ResumeThread PROVE FileInv'
  <2>1. Sound(disk') /\ (sidecar' = 0 \/ IsCheckpoint(disk', sidecar'))
    BY <1>24, OpenKnows
  <2> QED BY <1>24, <2>1 DEF ResumeThread, FileInv
<1>25. ASSUME UNCHANGED vars PROVE FileInv'
  BY <1>25 DEF vars, disks, state, task, hosts, RecorderInv, FileInv
<1> QED BY <1>1, <1>2, <1>3, <1>4, <1>5, <1>6, <1>7, <1>8, <1>9, <1>10, <1>11, <1>12, <1>13,
   <1>14, <1>15, <1>16, <1>17, <1>18, <1>19, <1>20, <1>21, <1>22, <1>23, <1>24, <1>25 DEF Next,
      WriterTask, Host

\* A writer follows the file also while it writes.
LEMMA WritesFollows ==
    ASSUME RecorderInv, writer.open, NEW x, NEW d, Writes(d, x)
    PROVE  Follows(writer, d) /\ d[Len(d)].what = x
<1>1. disk \in Seq(Lines) /\ Len(disk) \in Nat /\ writer.nextSeq \in Nat /\ writer.cp \in Nat
  BY DEF RecorderInv, TypeOK
<1>2. Follows(writer, disk)
  BY DEF RecorderInv, WriterInv
<1>3. /\ Len(d) = writer.nextSeq + 1 /\ d[Len(d)].what = x
      /\ \A i \in 1..writer.nextSeq : d[i] = disk[i]
      /\ \A n \in 0..writer.nextSeq : Totals(d, 0)[n] = Totals(disk, 0)[n]
  BY DEF Writes
<1>4. writer.cp \in 0..writer.nextSeq /\ (writer.cp # 0 => writer.cp \in 1..writer.nextSeq)
  BY <1>1, <1>2 DEF Follows
<1>5. \A n \in (writer.cp + 1)..writer.nextSeq : n \in 1..writer.nextSeq
  BY <1>1
<1>6. writer.nextSeq \in 0..writer.nextSeq /\ writer.nextSeq \in {Len(d), Len(d) - 1}
  BY <1>1, <1>3
<1> QED BY <1>2, <1>3, <1>4, <1>5, <1>6 DEF Follows

\* Every step leaves a writer that follows its file.
LEMMA WriterStep ==
    ASSUME RecorderInv, [Next]_vars
    PROVE  WriterInv'
<1>1. ASSUME NEW i \in Items, Record(i) PROVE WriterInv'
  BY <1>1, NoWriterFields DEF Record, disks, state, task, hosts, RecorderInv, WriterInv,
     WritingPCs, ClosedPCs
<1>2. ASSUME NEW c \in Calls, Call(c) PROVE WriterInv'
  BY <1>2, NoWriterFields DEF Call, disks, state, task, hosts, RecorderInv, WriterInv,
     WritingPCs, ClosedPCs
<1>3. ASSUME DropHandles PROVE WriterInv'
  BY <1>3, NoWriterFields DEF DropHandles, disks, state, task, hosts, RecorderInv, WriterInv,
     WritingPCs, ClosedPCs
<1>4. ASSUME ReceiveRecord PROVE WriterInv'
  BY <1>4, NoWriterFields DEF ReceiveRecord, BeginWrite, disks, state, task, hosts,
     RecorderInv, WriterInv, WritingPCs, ClosedPCs
<1>5. ASSUME ReceiveBarrier PROVE WriterInv'
  BY <1>5, NoWriterFields DEF ReceiveBarrier, BeginWrite, Reply, NothingToWrite, disks, state,
     task, hosts, RecorderInv, WriterInv, WritingPCs, ClosedPCs
<1>6. ASSUME ReceiveDiscard PROVE WriterInv'
  BY <1>6, NoWriterFields DEF ReceiveDiscard, disks, state, task, hosts, RecorderInv,
     WriterInv, WritingPCs, ClosedPCs
<1>7. ASSUME ReceiveNone PROVE WriterInv'
  BY <1>7, NoWriterFields DEF ReceiveNone, BeginWrite, disks, state, task, hosts, RecorderInv,
     WriterInv, WritingPCs, ClosedPCs
<1>8. ASSUME SettleUnconfirmed PROVE WriterInv'
  BY <1>8, NoWriterFields DEF SettleUnconfirmed, disks, state, task, hosts, RecorderInv,
     WriterInv, WritingPCs, ClosedPCs
<1>9. ASSUME SettleFails PROVE WriterInv'
  BY <1>9, NoWriterFields DEF SettleFails, Fails, Recover, Reply, disks, state, task, hosts,
     RecorderInv, WriterInv, WritingPCs, ClosedPCs
<1>10. ASSUME AppendFails PROVE WriterInv'
  BY <1>10, NoWriterFields DEF AppendFails, Fails, Recover, Reply, disks, state, task, hosts,
     RecorderInv, WriterInv, WritingPCs, ClosedPCs
<1>11. ASSUME AppendPoisoned PROVE WriterInv'
  BY <1>11, NoWriterFields DEF AppendPoisoned, Recover, Reply, disks, state, task, hosts,
     RecorderInv, WriterInv, WritingPCs, ClosedPCs
<1>12. ASSUME CheckpointFails PROVE WriterInv'
  <2>1. PICK w \in [open : BOOLEAN, nextSeq : Nat, total : Nat, since : Nat, cp : Nat,
                     poisoned : BOOLEAN] : w = writer
    BY DEF RecorderInv, TypeOK
  <2>2. PICK v : v = writer'
    OBVIOUS
  <2>3. /\ v.open = w.open /\ v.nextSeq = w.nextSeq /\ v.total = w.total
        /\ v.since = w.since /\ v.cp = w.cp /\ v.poisoned
    BY <1>12, <2>1, <2>2 DEF CheckpointFails
  <2>4. pc = "checkpointed" /\ pc' = "append" /\ UNCHANGED <<disk, exists, pending, deferred>>
    BY <1>12 DEF CheckpointFails, disks
  <2>5. writer.open /\ ~deferred /\ Follows(w, disk) /\ exists
    BY <2>1, <2>4 DEF RecorderInv, WriterInv, WritingPCs
  <2>6. Follows(v, disk)
    BY <2>3, <2>5 DEF Follows
  <2>7. Len(disk) > writer.nextSeq => disk[Len(disk)].what = Checkpoint
    BY <2>4, <2>5 DEF RecorderInv, WriterInv
  <2> QED BY <2>1, <2>2, <2>3, <2>4, <2>5, <2>6, <2>7 DEF WriterInv, WritingPCs, ClosedPCs
<1>13. ASSUME Drained PROVE WriterInv'
  BY <1>13, NoWriterFields DEF Drained, Reply, CloseIfStopping, disks, state, task, hosts,
     RecorderInv, WriterInv, WritingPCs, ClosedPCs
<1>14. ASSUME FlushFails PROVE WriterInv'
  BY <1>14, NoWriterFields DEF FlushFails, Fails, Recover, Reply, disks, state, task, hosts,
     RecorderInv, WriterInv, WritingPCs, ClosedPCs
<1>15. ASSUME Stop PROVE WriterInv'
  BY <1>15, NoWriterFields DEF Stop, disks, state, task, hosts, RecorderInv, WriterInv,
     WritingPCs, ClosedPCs
<1>16. ASSUME Crash PROVE WriterInv'
  BY <1>16, NoWriterFields DEF Crash, disks, state, task, hosts, RecorderInv, WriterInv,
     WritingPCs, ClosedPCs
<1>17. ASSUME CreateThread PROVE WriterInv'
  BY <1>17, NoWriterFields DEF CreateThread, disks, state, task, hosts, RecorderInv,
     WriterInv, WritingPCs, ClosedPCs
<1>18. ASSUME OpenRollout PROVE WriterInv'
  <2>1. PICK d : d = disk'
    OBVIOUS
  <2>2. Repairs(d, disk) /\ Sound(d) /\ Knows(writer', d)
    BY <1>18, <2>1, OpenKnows
  <2>3. d \in Seq(Lines) /\ \A n \in 1..Len(d) : d[n].form = "full"
    BY <2>2 DEF Sound, Repairs
  <2>4. Follows(writer', d) /\ writer'.open /\ ~writer'.poisoned /\ writer'.nextSeq = Len(d)
    BY <2>2, <2>3, KnownFields, KnownFollows
  <2>5. ~(Len(d) > Len(d))
    BY <2>3
  <2> QED BY <1>18, <2>1, <2>4, <2>5 DEF OpenRollout, WriterInv, WritingPCs, ClosedPCs
<1>19. ASSUME OpenFails PROVE WriterInv'
  <2>1. writer' = NoWriter /\ pc' \in {"open", "recv", "stopping"}
    BY <1>19 DEF OpenFails, Recover, Reply
  <2> QED BY <2>1, NoWriterFields DEF WriterInv, WritingPCs, ClosedPCs
<1>20. ASSUME AppendFront PROVE WriterInv'
  <2>1. PICK d : d = disk'
    OBVIOUS
  <2>2. writer.open /\ ~deferred /\ exists' /\ (d = disk \/ Writes(d, Head(pending)))
    BY <1>20, <2>1, FileAfterWrite DEF RecorderInv, WriterInv
  <2>3. /\ pc' = "appended" /\ UNCHANGED <<writer, pending, deferred>>
        /\ ~writer.poisoned
        /\ pc' = "checkpointed" => writer.nextSeq > 0
    BY <1>20 DEF AppendFront, state, RecorderInv, WriterInv
  <2>4. Follows(writer, disk)
    BY <2>2 DEF RecorderInv, WriterInv
  <2>5. CASE d = disk
    BY <1>20, <2>1, <2>2, <2>3, <2>4, <2>5
       DEF AppendFront, RecorderInv, WriterInv, WritingPCs, ClosedPCs
  <2>6. CASE Writes(d, Head(pending))
    <3>1. Follows(writer, d) /\ d[Len(d)].what = Head(pending)
      BY <2>2, <2>6, WritesFollows
    <3> QED BY <2>1, <2>2, <2>3, <3>1 DEF WriterInv, WritingPCs, ClosedPCs
  <2> QED BY <2>2, <2>5, <2>6
<1>21. ASSUME AppendDone PROVE WriterInv'
  <2>1. PICK d : d = disk'
    OBVIOUS
  <2>2. PICK x : x = Head(pending)
    OBVIOUS
  <2>3. /\ writer.open /\ ~deferred /\ exists'
        /\ Writes(d, x) /\ d[Len(d)].form = "full"
        /\ Totals(d, 0)[Len(d)] = writer.total + UseOf(x)
    BY <1>21, <2>1, <2>2, FileAfterWrite, FrontWritten DEF RecorderInv, WriterInv
  <2>4. /\ pc = "appended" /\ writer' = Counted(x) /\ pc' \in {"append", "checkpoint"}
        /\ ~writer.poisoned /\ deferred' = deferred
    BY <1>21, <2>2 DEF AppendDone, RecorderInv, WriterInv
  <2>5. x # Checkpoint
    <3>1. pending \in Seq(Items \cup {Meta}) /\ pending # <<>>
      BY <2>4 DEF RecorderInv, TypeOK, OutcomeInv
    <3>2. x \in Items \cup {Meta}
      BY <2>2, <3>1
    <3> QED BY <3>2, ItemsAssumption
         DEF Checkpoint, Meta
  <2>6. PICK w : /\ w = writer' /\ w.open = writer.open /\ w.nextSeq = writer.nextSeq + 1
                 /\ w.total = writer.total + UseOf(x) /\ w.cp = writer.cp
                 /\ w.since = writer.since + 1 /\ w.poisoned = writer.poisoned
    BY <2>4, CountedFields DEF RecorderInv
  <2>7. Follows(w, d) /\ Len(d) = w.nextSeq
    BY <2>3, <2>5, <2>6, WrittenFollows
  <2>8. w.nextSeq > 0 /\ ~(Len(d) > w.nextSeq)
    BY <2>6, <2>7 DEF RecorderInv, TypeOK
  <2> QED BY <2>1, <2>3, <2>4, <2>6, <2>7, <2>8 DEF WriterInv, WritingPCs, ClosedPCs
<1>22. ASSUME WriteCheckpoint PROVE WriterInv'
  <2>1. PICK d : d = disk'
    OBVIOUS
  <2>2. writer.open /\ ~deferred /\ exists' /\ (d = disk \/ Writes(d, Checkpoint))
    BY <1>22, <2>1, FileAfterWrite DEF RecorderInv, WriterInv
  <2>3. /\ pc' = "checkpointed" /\ UNCHANGED <<writer, pending, deferred>>
        /\ ~writer.poisoned
        /\ pc' = "checkpointed" => writer.nextSeq > 0
    BY <1>22 DEF WriteCheckpoint, state, RecorderInv, WriterInv
  <2>4. Follows(writer, disk)
    BY <2>2 DEF RecorderInv, WriterInv
  <2>5. CASE d = disk
    BY <1>22, <2>1, <2>2, <2>3, <2>4, <2>5
       DEF WriteCheckpoint, RecorderInv, WriterInv, WritingPCs, ClosedPCs
  <2>6. CASE Writes(d, Checkpoint)
    <3>1. Follows(writer, d) /\ d[Len(d)].what = Checkpoint
      BY <2>2, <2>6, WritesFollows
    <3> QED BY <2>1, <2>2, <2>3, <3>1 DEF WriterInv, WritingPCs, ClosedPCs
  <2> QED BY <2>2, <2>5, <2>6
<1>23. ASSUME CheckpointDone PROVE WriterInv'
  <2>1. PICK d : d = disk'
    OBVIOUS
  <2>2. PICK x : x = Checkpoint
    OBVIOUS
  <2>3. /\ writer.open /\ ~deferred /\ exists'
        /\ Writes(d, x) /\ d[Len(d)].form = "full"
        /\ Totals(d, 0)[Len(d)] = writer.total + UseOf(x)
    BY <1>23, <2>1, <2>2, FileAfterWrite, FrontWritten DEF RecorderInv, WriterInv
  <2>4. /\ pc = "checkpointed" /\ pc' = "append" /\ ~writer.poisoned /\ deferred' = deferred
        /\ writer' = [Counted(x) EXCEPT !.since = 0, !.cp = Len(d)]
    BY <1>23, <2>1, <2>2 DEF CheckpointDone, RecorderInv, WriterInv
  <2>5. PICK v \in [open : BOOLEAN, nextSeq : Nat, total : Nat, since : Nat, cp : Nat,
                    poisoned : BOOLEAN] :
          /\ v = Counted(x) /\ v.open = writer.open /\ v.nextSeq = writer.nextSeq + 1
          /\ v.total = writer.total + UseOf(x) /\ v.poisoned = writer.poisoned
    BY WriterFields, CountedFields DEF RecorderInv
  <2>6. PICK w : /\ w = writer' /\ w.open = writer.open /\ w.nextSeq = writer.nextSeq + 1
                 /\ w.total = writer.total + UseOf(x) /\ w.cp = Len(d)
                 /\ w.since = 0 /\ w.poisoned = writer.poisoned
    <3>1. PICK len : len = Len(d)
      OBVIOUS
    <3>2. PICK w : w = [v EXCEPT !.since = 0, !.cp = len]
      OBVIOUS
    <3>3. /\ w.open = v.open /\ w.nextSeq = v.nextSeq /\ w.total = v.total
          /\ w.poisoned = v.poisoned /\ w.since = 0 /\ w.cp = len
      BY <3>2
    <3>4. w = writer'
      BY <2>4, <2>5, <3>1, <3>2
    <3> QED BY <2>5, <3>1, <3>3, <3>4
  <2>7. Follows(w, d) /\ Len(d) = w.nextSeq
    BY <2>2, <2>3, <2>6, WrittenFollows
  <2>8. ~(Len(d) > w.nextSeq)
    BY <2>6, <2>7 DEF RecorderInv, TypeOK
  <2> QED BY <2>1, <2>3, <2>4, <2>6, <2>7, <2>8 DEF WriterInv, WritingPCs, ClosedPCs
<1>24. ASSUME ResumeThread PROVE WriterInv'
  <2>1. PICK d : d = disk'
    OBVIOUS
  <2>2. Repairs(d, disk) /\ Sound(d) /\ Knows(writer', d)
    BY <1>24, <2>1, OpenKnows
  <2>3. d \in Seq(Lines) /\ \A n \in 1..Len(d) : d[n].form = "full"
    BY <2>2 DEF Sound, Repairs
  <2>4. Follows(writer', d) /\ writer'.open /\ ~writer'.poisoned /\ writer'.nextSeq = Len(d)
    BY <2>2, <2>3, KnownFields, KnownFollows
  <2>5. ~(Len(d) > Len(d))
    BY <2>3
  <2>6. exists'
    BY <1>24 DEF ResumeThread
  <2> QED BY <1>24, <2>6, <2>1, <2>4, <2>5 DEF ResumeThread, WriterInv, WritingPCs, ClosedPCs
<1>25. ASSUME UNCHANGED vars PROVE WriterInv'
  BY <1>25 DEF vars, disks, state, task, hosts, RecorderInv, WriterInv, WritingPCs, ClosedPCs
<1> QED BY <1>1, <1>2, <1>3, <1>4, <1>5, <1>6, <1>7, <1>8, <1>9, <1>10, <1>11, <1>12, <1>13,
   <1>14, <1>15, <1>16, <1>17, <1>18, <1>19, <1>20, <1>21, <1>22, <1>23, <1>24, <1>25 DEF Next,
      WriterTask, Host

\* Repairing the file settles nothing.
LEMMA RepairsUncertain ==
    ASSUME NEW lines, Sound(lines), NEW r, Repairs(r, lines), NEW seq \in Nat, NEW x,
           Uncertain(lines, seq, x)
    PROVE  Uncertain(r, seq, x)
<1>1. Len(lines) \in Nat /\ Len(r) \in Nat
  BY DEF Sound, Repairs
<1>2. seq \in {Len(lines), Len(lines) - 1} /\ Len(r) \in {Len(lines), Len(lines) - 1}
  BY DEF Uncertain, Repairs
<1>3. Len(r) < Len(lines) => seq = Len(lines) - 1
  <2> SUFFICES ASSUME Len(r) < Len(lines), seq = Len(lines) PROVE FALSE
    BY <1>2
  <2>1. Len(lines) \in 1..seq
    BY <1>1
  <2>2. lines[Len(lines)].form = "torn" /\ lines[Len(lines)].form = "full"
    BY <2>1 DEF Uncertain, Repairs
  <2> QED BY <2>2
<1>4. seq \in {Len(r), Len(r) - 1} /\ (Len(r) > seq => Len(r) = Len(lines) /\ Len(lines) > seq)
  BY <1>1, <1>2, <1>3
<1>5. \A n \in 1..seq : r[n].form = "full"
  BY <1>1, <1>4 DEF Repairs
<1>6. Len(r) > seq => r[Len(r)].what = x
  <2> SUFFICES ASSUME Len(r) > seq PROVE r[Len(r)].what = x
    OBVIOUS
  <2>1. Len(r) \in 1..Len(r) /\ Len(r) = Len(lines) /\ Len(lines) > seq
    BY <1>1, <1>4
  <2> QED BY <2>1 DEF Uncertain, Repairs
<1> QED BY <1>4, <1>5, <1>6 DEF Uncertain

\* What is put behind a queue does not change its front.
LEMMA FrontStays ==
    ASSUME NEW S, NEW s \in Seq(S), NEW x \in S
    PROVE  Append(s, x) # <<>> /\ (s # <<>> => Head(Append(s, x)) = Head(s))
<1>0. Append(s, x) \in Seq(S)
  OBVIOUS
<1>1. PICK t \in Seq(S) : t = Append(s, x)
  BY <1>0, Zenon
<1>2. Len(t) = Len(s) + 1 /\ \A n \in 1..Len(s) : t[n] = s[n]
  BY <1>1
<1>3. t # <<>> /\ Head(t) = t[1]
  BY <1>1, <1>2
<1>4. s # <<>> => 1 \in 1..Len(s) /\ Head(s) = s[1]
  OBVIOUS
<1> QED BY <1>1, <1>2, <1>3, <1>4

\* Every step keeps track of the write whose outcome is unknown.
LEMMA OutcomeStep ==
    ASSUME RecorderInv, [Next]_vars
    PROVE  OutcomeInv'
<1>1. ASSUME NEW i \in Items, Record(i) PROVE OutcomeInv'
  BY <1>1, NoWriterFields DEF Record, disks, state, task, hosts, RecorderInv, OutcomeInv
<1>2. ASSUME NEW c \in Calls, Call(c) PROVE OutcomeInv'
  BY <1>2, NoWriterFields DEF Call, disks, state, task, hosts, RecorderInv, OutcomeInv
<1>3. ASSUME DropHandles PROVE OutcomeInv'
  BY <1>3, NoWriterFields DEF DropHandles, disks, state, task, hosts, RecorderInv, OutcomeInv
<1>4. ASSUME ReceiveRecord PROVE OutcomeInv'
  <2>1. pending \in Seq(Items \cup {Meta}) /\ Head(inbox) \in Items
    BY <1>4 DEF ReceiveRecord, RecorderInv, TypeOK
  <2>2. PICK x \in Items \cup {Meta} : x = Head(inbox)
    BY <2>1
  <2>3. /\ Append(pending, x) # <<>>
        /\ pending # <<>> => Head(Append(pending, x)) = Head(pending)
    BY <2>1, FrontStays
  <2>4. /\ pc = "recv" /\ pending' = Append(pending, x)
        /\ UNCHANGED <<disk, writer, unconfirmed>>
        /\ pc' = IF writer.open THEN "append" ELSE "open"
    BY <1>4, <2>2 DEF ReceiveRecord, disks, BeginWrite
  <2>5. writer.open => unconfirmed = NoSeq
    BY <2>4 DEF RecorderInv, OutcomeInv
  <2> QED BY <2>3, <2>4, <2>5 DEF RecorderInv, OutcomeInv
<1>5. ASSUME ReceiveBarrier PROVE OutcomeInv'
  BY <1>5, NoWriterFields DEF ReceiveBarrier, BeginWrite, Reply, disks, state, task, hosts,
     RecorderInv, OutcomeInv
<1>6. ASSUME ReceiveDiscard PROVE OutcomeInv'
  BY <1>6, NoWriterFields DEF ReceiveDiscard, disks, state, task, hosts, RecorderInv,
     OutcomeInv
<1>7. ASSUME ReceiveNone PROVE OutcomeInv'
  BY <1>7, NoWriterFields DEF ReceiveNone, BeginWrite, disks, state, task, hosts, RecorderInv,
     OutcomeInv
<1>8. ASSUME SettleUnconfirmed PROVE OutcomeInv'
  BY <1>8, NoWriterFields DEF SettleUnconfirmed, disks, state, task, hosts, RecorderInv,
     OutcomeInv
<1>9. ASSUME SettleFails PROVE OutcomeInv'
  BY <1>9, NoWriterFields DEF SettleFails, Fails, Recover, Reply, disks, state, task, hosts,
     RecorderInv, OutcomeInv
<1>10. ASSUME AppendFails PROVE OutcomeInv'
  <2>1. pc = "appended" /\ writer.open /\ ~writer.poisoned
    BY <1>10 DEF AppendFails, RecorderInv, WriterInv, WritingPCs
  <2>2. /\ Follows(writer, disk)
        /\ Len(disk) > writer.nextSeq => disk[Len(disk)].what = Head(pending)
    BY <2>1 DEF RecorderInv, WriterInv
  <2>3. Uncertain(disk, writer.nextSeq, Head(pending))
    BY <2>2 DEF Follows, Uncertain
  <2>4. /\ UNCHANGED <<disk, pending>> /\ writer' = NoWriter /\ unconfirmed' = writer.nextSeq
        /\ pc' \in {"open", "recv", "stopping"}
    BY <1>10 DEF AppendFails, disks, Recover, Reply
  <2>5. pending # <<>>
    BY <2>1 DEF RecorderInv, OutcomeInv
  <2> QED BY <2>3, <2>4, <2>5, NoWriterFields DEF OutcomeInv
<1>11. ASSUME AppendPoisoned PROVE OutcomeInv'
  BY <1>11, NoWriterFields DEF AppendPoisoned, Recover, Reply, disks, state, task, hosts,
     RecorderInv, OutcomeInv
<1>12. ASSUME CheckpointFails PROVE OutcomeInv'
  BY <1>12, NoWriterFields DEF CheckpointFails, Fails, disks, state, task, hosts, RecorderInv,
     OutcomeInv
<1>13. ASSUME Drained PROVE OutcomeInv'
  BY <1>13, NoWriterFields DEF Drained, Reply, CloseIfStopping, disks, state, task, hosts,
     RecorderInv, OutcomeInv
<1>14. ASSUME FlushFails PROVE OutcomeInv'
  BY <1>14, NoWriterFields DEF FlushFails, Fails, Recover, Reply, disks, state, task, hosts,
     RecorderInv, OutcomeInv
<1>15. ASSUME Stop PROVE OutcomeInv'
  BY <1>15, NoWriterFields DEF Stop, disks, state, task, hosts, RecorderInv, OutcomeInv
<1>16. ASSUME Crash PROVE OutcomeInv'
  BY <1>16, NoWriterFields DEF Crash, disks, state, task, hosts, RecorderInv, OutcomeInv
<1>17. ASSUME CreateThread PROVE OutcomeInv'
  BY <1>17, NoWriterFields DEF CreateThread, disks, state, task, hosts, RecorderInv, OutcomeInv
<1>18. ASSUME OpenRollout PROVE OutcomeInv'
  <2>1. Repairs(disk', disk)
    BY <1>18, OpenKnows
  <2>2. PICK d : d = disk'
    OBVIOUS
  <2>3. ASSUME unconfirmed # NoSeq, pending # <<>> PROVE Uncertain(d, unconfirmed, Head(pending))
    <3>1. Uncertain(disk, unconfirmed, Head(pending)) /\ unconfirmed \in Nat /\ Sound(disk)
      BY <2>3 DEF RecorderInv, OutcomeInv, TypeOK, FileInv
    <3> QED BY <2>1, <2>2, <3>1, RepairsUncertain
  <2>4. pc = "open" /\ pc' = "settle" /\ UNCHANGED <<pending, unconfirmed>>
    BY <1>18 DEF OpenRollout
  <2> QED BY <2>2, <2>3, <2>4 DEF RecorderInv, OutcomeInv
<1>19. ASSUME OpenFails PROVE OutcomeInv'
  <2>1. disk' = disk \/ Repairs(disk', disk)
    BY <1>19, OpenLeaves
  <2>2. PICK d : d = disk'
    OBVIOUS
  <2>3. ASSUME unconfirmed # NoSeq, pending # <<>> PROVE Uncertain(d, unconfirmed, Head(pending))
    <3>1. Uncertain(disk, unconfirmed, Head(pending)) /\ unconfirmed \in Nat /\ Sound(disk)
      BY <2>3 DEF RecorderInv, OutcomeInv, TypeOK, FileInv
    <3> QED BY <2>1, <2>2, <3>1, RepairsUncertain
  <2>4. /\ pc = "open" /\ pc' \in {"open", "recv", "stopping"}
        /\ UNCHANGED <<pending, unconfirmed>> /\ writer' = NoWriter
    BY <1>19 DEF OpenFails, Recover, Reply
  <2> QED BY <2>2, <2>3, <2>4, NoWriterFields DEF RecorderInv, OutcomeInv
<1>20. ASSUME AppendFront PROVE OutcomeInv'
  <2>1. writer.open /\ unconfirmed = NoSeq /\ pending # <<>>
    BY <1>20 DEF AppendFront, RecorderInv, WriterInv, WritingPCs, OutcomeInv
  <2> QED BY <1>20, <2>1 DEF AppendFront, state, RecorderInv, OutcomeInv
<1>21. ASSUME AppendDone PROVE OutcomeInv'
  <2>1. writer.open /\ unconfirmed = NoSeq
    BY <1>21 DEF AppendDone, RecorderInv, WriterInv, WritingPCs, OutcomeInv
  <2> QED BY <1>21, <2>1 DEF AppendDone, state, RecorderInv, OutcomeInv
<1>22. ASSUME WriteCheckpoint PROVE OutcomeInv'
  <2>1. writer.open /\ unconfirmed = NoSeq
    BY <1>22 DEF WriteCheckpoint, RecorderInv, WriterInv, WritingPCs, OutcomeInv
  <2> QED BY <1>22, <2>1 DEF WriteCheckpoint, state, RecorderInv, OutcomeInv
<1>23. ASSUME CheckpointDone PROVE OutcomeInv'
  <2>1. writer.open /\ unconfirmed = NoSeq
    BY <1>23 DEF CheckpointDone, RecorderInv, WriterInv, WritingPCs, OutcomeInv
  <2> QED BY <1>23, <2>1 DEF CheckpointDone, state, RecorderInv, OutcomeInv
<1>24. ASSUME ResumeThread PROVE OutcomeInv'
  BY <1>24 DEF ResumeThread, RecorderInv, OutcomeInv
<1>25. ASSUME UNCHANGED vars PROVE OutcomeInv'
  BY <1>25 DEF vars, disks, state, task, hosts, RecorderInv, OutcomeInv
<1> QED BY <1>1, <1>2, <1>3, <1>4, <1>5, <1>6, <1>7, <1>8, <1>9, <1>10, <1>11, <1>12, <1>13,
   <1>14, <1>15, <1>16, <1>17, <1>18, <1>19, <1>20, <1>21, <1>22, <1>23, <1>24, <1>25 DEF Next,
      WriterTask, Host

\* A queue has the metadata at its front, if anywhere.
LEMMA MetaAtFront ==
    ASSUME RecorderInv
    PROVE  /\ pending \in Seq(Items \cup {Meta})
           /\ (\E n \in 1..Len(pending) : pending[n] = Meta) <=>
                 pending # <<>> /\ Head(pending) = Meta
<1>1. pending \in Seq(Items \cup {Meta})
  BY DEF RecorderInv, TypeOK
<1>2. pending # <<>> => 1 \in 1..Len(pending) /\ Head(pending) = pending[1]
  BY <1>1
<1>3. \A n \in 1..Len(pending) : pending[n] = Meta => n = 1
  BY DEF RecorderInv, MetaInv
<1> QED BY <1>1, <1>2, <1>3

\* Every step leaves the metadata at the top of the file.
LEMMA MetaStep ==
    ASSUME RecorderInv, [Next]_vars
    PROVE  MetaInv'
<1>1. ASSUME NEW i \in Items, Record(i) PROVE MetaInv'
  BY <1>1, NoWriterFields DEF Record, disks, state, task, hosts, RecorderInv, MetaInv
<1>2. ASSUME NEW c \in Calls, Call(c) PROVE MetaInv'
  BY <1>2, NoWriterFields DEF Call, disks, state, task, hosts, RecorderInv, MetaInv
<1>3. ASSUME DropHandles PROVE MetaInv'
  BY <1>3, NoWriterFields DEF DropHandles, disks, state, task, hosts, RecorderInv, MetaInv
<1>4. ASSUME ReceiveRecord PROVE MetaInv'
  <2>1. pending \in Seq(Items \cup {Meta}) /\ Head(inbox) \in Items
    BY <1>4 DEF ReceiveRecord, RecorderInv, TypeOK
  <2>2. PICK x \in Items \cup {Meta} : x = Head(inbox) /\ x # Meta
    BY <2>1, ItemsAssumption
  <2>3. PICK s : s = Append(pending, x)
    OBVIOUS
  <2>4. /\ Len(s) = Len(pending) + 1 /\ s[Len(pending) + 1] = x /\ Len(pending) \in Nat
        /\ \A n \in 1..Len(pending) : s[n] = pending[n]
    BY <2>1, <2>3
  <2>5. \A n \in 1..Len(s) : s[n] = Meta => n \in 1..Len(pending) /\ pending[n] = Meta
    BY <2>2, <2>4
  <2>6. /\ pc = "recv" /\ pending' = s /\ pc' # "settle" /\ pc' # "appended"
        /\ UNCHANGED <<disk, writer, unconfirmed, meta>>
    BY <1>4, <2>2, <2>3 DEF ReceiveRecord, disks, BeginWrite
  <2> QED BY <2>5, <2>6 DEF RecorderInv, MetaInv
<1>5. ASSUME ReceiveBarrier PROVE MetaInv'
  BY <1>5, NoWriterFields DEF ReceiveBarrier, BeginWrite, Reply, disks, state, task, hosts,
     RecorderInv, MetaInv
<1>6. ASSUME ReceiveDiscard PROVE MetaInv'
  BY <1>6, NoWriterFields DEF ReceiveDiscard, disks, RecorderInv, MetaInv
<1>7. ASSUME ReceiveNone PROVE MetaInv'
  BY <1>7, NoWriterFields DEF ReceiveNone, BeginWrite, disks, state, task, hosts, RecorderInv,
     MetaInv
<1>8. ASSUME SettleUnconfirmed PROVE MetaInv'
  <2>1. /\ pc = "settle" /\ writer.open /\ ~writer.poisoned /\ disk \in Seq(Lines)
        /\ writer.nextSeq \in Nat /\ Len(disk) \in Nat /\ Follows(writer, disk)
        /\ Sound(disk)
    BY <1>8 DEF SettleUnconfirmed, RecorderInv, TypeOK, WriterInv, WritingPCs, FileInv
  <2>2. writer.nextSeq = Len(disk)
    <3>1. ~(Len(disk) > writer.nextSeq)
      BY <2>1 DEF RecorderInv, WriterInv
    <3> QED BY <2>1, <3>1 DEF Follows
  <2>3. /\ pending \in Seq(Items \cup {Meta})
        /\ \A n \in 1..Len(pending) : pending[n] = Meta =>
              /\ n = 1 /\ ~meta
              /\ disk = <<>> \/ (Len(disk) = 1 /\ disk[1].what = Meta /\ unconfirmed = 0)
    BY <2>1 DEF RecorderInv, TypeOK, MetaInv
  <2>4. PICK left : /\ left = IF Landed THEN Tail(pending) ELSE pending
                    /\ pending' = IF meta /\ writer.nextSeq = 0 THEN <<Meta>> \o left ELSE left
    BY <1>8 DEF SettleUnconfirmed
  <2>5. /\ left \in Seq(Items \cup {Meta})
        /\ \A n \in 1..Len(left) : left[n] = Meta => n = 1 /\ ~meta /\ disk = <<>>
    <3>1. CASE Landed
      <4>1. pending # <<>> /\ left = Tail(pending)
        BY <2>4, <3>1 DEF Landed
      <4>2. /\ left \in Seq(Items \cup {Meta}) /\ Len(left) = Len(pending) - 1
            /\ \A n \in 1..Len(left) : left[n] = pending[n + 1] /\ n + 1 \in 1..Len(pending)
        BY <2>3, <4>1
      <4>3. \A n \in 1..Len(left) : n + 1 # 1
        BY <4>2
      <4> QED BY <2>3, <4>2, <4>3
    <3>2. CASE ~Landed
      <4>1. left = pending
        BY <2>4, <3>2
      <4>2. ASSUME NEW n \in 1..Len(pending), pending[n] = Meta, disk # <<>> PROVE FALSE
        <5>1. n = 1 /\ Len(disk) = 1 /\ disk[1].what = Meta /\ unconfirmed = 0
          BY <2>3, <4>2
        <5>2. pending # <<>> /\ Head(pending) = Meta
          BY <2>3, <4>2, <5>1
        <5>3. 1 \in 1..Len(disk) /\ 1 \in 1..writer.nextSeq
          BY <2>2, <5>1
        <5>4. disk[1].seq = 0 /\ disk[1].form = "full"
          BY <2>1, <5>3 DEF Sound, Follows
        <5>5. FoundAt(disk, unconfirmed, Head(pending))
          BY <5>1, <5>2, <5>3, <5>4 DEF FoundAt, Parses
        <5>6. unconfirmed # NoSeq /\ writer.nextSeq > unconfirmed
          BY <2>2, <5>1 DEF NoSeq
        <5> QED BY <3>2, <5>2, <5>5, <5>6 DEF Landed
      <4> QED BY <2>3, <4>1, <4>2
    <3> QED BY <3>1, <3>2
  <2>6. PICK s : s = pending'
    OBVIOUS
  <2>7. \A n \in 1..Len(s) : s[n] = Meta => n = 1 /\ disk = <<>>
    <3>1. CASE meta /\ writer.nextSeq = 0
      <4>1. s = <<Meta>> \o left
        BY <2>4, <2>6, <3>1
      <4>2. /\ Len(s) = Len(left) + 1
            /\ \A n \in 1..Len(s) : n # 1 => s[n] = left[n - 1] /\ n - 1 \in 1..Len(left)
        BY <2>5, <4>1
      <4>3. disk = <<>>
        BY <3>1 DEF RecorderInv, MetaInv
      <4> QED BY <2>5, <3>1, <4>2, <4>3
    <3>2. CASE ~(meta /\ writer.nextSeq = 0)
      BY <2>4, <2>5, <2>6, <3>2
    <3> QED BY <3>1, <3>2
  <2>8. disk = <<>> => writer.nextSeq = 0
    BY <2>2
  <2>9. meta' = FALSE /\ UNCHANGED <<disk, writer>>
    BY <1>8 DEF SettleUnconfirmed, disks
  <2> QED BY <2>6, <2>7, <2>8, <2>9 DEF MetaInv
<1>9. ASSUME SettleFails PROVE MetaInv'
  BY <1>9, NoWriterFields DEF SettleFails, Fails, Recover, Reply, disks, state, task, hosts,
     RecorderInv, MetaInv
<1>10. ASSUME AppendFails PROVE MetaInv'
  <2>1. /\ pc = "appended" /\ writer.open
    BY <1>10 DEF AppendFails, RecorderInv, WriterInv, WritingPCs
  <2>2. /\ UNCHANGED <<disk, pending, meta>>
        /\ writer' = NoWriter /\ unconfirmed' = writer.nextSeq
    BY <1>10 DEF AppendFails, disks, Recover
  <2>3. ~meta
    BY <2>1 DEF RecorderInv, MetaInv
  <2>4. \A n \in 1..Len(pending) : pending[n] = Meta => writer.nextSeq = 0
    BY <2>1 DEF RecorderInv, MetaInv
  <2> QED BY <2>2, <2>3, <2>4, NoWriterFields DEF RecorderInv, MetaInv
<1>11. ASSUME AppendPoisoned PROVE MetaInv'
  BY <1>11, NoWriterFields DEF AppendPoisoned, Recover, Reply, disks, state, task, hosts,
     RecorderInv, MetaInv
<1>12. ASSUME CheckpointFails PROVE MetaInv'
  <2>1. PICK w \in [open : BOOLEAN, nextSeq : Nat, total : Nat, since : Nat, cp : Nat,
                     poisoned : BOOLEAN] : w = writer
    BY DEF RecorderInv, TypeOK
  <2>2. writer'.open = w.open /\ writer'.nextSeq = w.nextSeq
    BY <1>12, <2>1 DEF CheckpointFails
  <2>3. pc = "checkpointed" /\ UNCHANGED <<disk, pending, meta, unconfirmed>>
    BY <1>12 DEF CheckpointFails, disks
  <2> QED BY <2>1, <2>2, <2>3 DEF RecorderInv, MetaInv
<1>13. ASSUME Drained PROVE MetaInv'
  BY <1>13, NoWriterFields DEF Drained, Reply, CloseIfStopping, disks, state, task, hosts,
     RecorderInv, MetaInv
<1>14. ASSUME FlushFails PROVE MetaInv'
  BY <1>14, NoWriterFields DEF FlushFails, Fails, Recover, Reply, disks, state, task, hosts,
     RecorderInv, MetaInv
<1>15. ASSUME Stop PROVE MetaInv'
  BY <1>15, NoWriterFields DEF Stop, disks, state, task, hosts, RecorderInv, MetaInv
<1>16. ASSUME Crash PROVE MetaInv'
  BY <1>16, NoWriterFields DEF Crash, disks, RecorderInv, MetaInv
<1>17. ASSUME CreateThread PROVE MetaInv'
  BY <1>17, NoWriterFields DEF CreateThread, disks, RecorderInv, FileInv, MetaInv
<1>18. ASSUME OpenRollout PROVE MetaInv'
  <2>1. Repairs(disk', disk)
    BY <1>18, OpenKnows
  <2>2. PICK d : d = disk'
    OBVIOUS
  <2>3. /\ pc = "open" /\ UNCHANGED <<pending, unconfirmed, meta>>
        /\ pc' = "settle"
    BY <1>18 DEF OpenRollout
  <2>4. disk \in Seq(Lines) /\ Len(disk) \in Nat /\ d \in Seq(Lines) /\ Len(d) \in Nat
    BY <2>1, <2>2 DEF RecorderInv, TypeOK, Repairs
  <2>5. disk = <<>> => d = <<>>
    <3>1. disk = <<>> => Len(d) = 0
      BY <2>1, <2>2, <2>4 DEF Repairs
    <3> QED BY <2>4, <3>1
  <2>6. ASSUME NEW n \in 1..Len(pending), pending[n] = Meta
        PROVE  d = <<>> \/ (Len(d) = 1 /\ d[1].what = Meta /\ unconfirmed = 0)
    <3>1. disk = <<>> \/ (Len(disk) = 1 /\ disk[1].what = Meta /\ unconfirmed = 0)
      BY <2>3, <2>6 DEF RecorderInv, MetaInv
    <3>2. ASSUME Len(disk) = 1, disk[1].what = Meta, Len(d) # 0
          PROVE  Len(d) = 1 /\ d[1].what = Meta
      <4>1. Len(d) = 1
        BY <2>1, <2>2, <2>4, <3>2 DEF Repairs
      <4>2. 1 \in 1..Len(d)
        BY <4>1
      <4> QED BY <2>1, <2>2, <3>2, <4>1, <4>2 DEF Repairs
    <3>3. Len(d) = 0 => d = <<>>
      BY <2>4
    <3> QED BY <2>5, <3>1, <3>2, <3>3
  <2> QED BY <2>2, <2>3, <2>5, <2>6 DEF RecorderInv, MetaInv
<1>19. ASSUME OpenFails PROVE MetaInv'
  <2>1. disk' = disk \/ Repairs(disk', disk)
    BY <1>19, OpenLeaves
  <2>2. PICK d : d = disk'
    OBVIOUS
  <2>3. /\ pc = "open" /\ UNCHANGED <<pending, unconfirmed, meta>>
        /\ writer' = NoWriter
    BY <1>19 DEF OpenFails, Recover
  <2>4. disk \in Seq(Lines) /\ Len(disk) \in Nat /\ d \in Seq(Lines) /\ Len(d) \in Nat
    BY <2>1, <2>2 DEF RecorderInv, TypeOK, Repairs
  <2>5. disk = <<>> => d = <<>>
    <3>1. disk = <<>> => Len(d) = 0
      BY <2>1, <2>2, <2>4 DEF Repairs
    <3> QED BY <2>4, <3>1
  <2>6. ASSUME NEW n \in 1..Len(pending), pending[n] = Meta
        PROVE  d = <<>> \/ (Len(d) = 1 /\ d[1].what = Meta /\ unconfirmed = 0)
    <3>1. disk = <<>> \/ (Len(disk) = 1 /\ disk[1].what = Meta /\ unconfirmed = 0)
      BY <2>3, <2>6 DEF RecorderInv, MetaInv
    <3>2. ASSUME Len(disk) = 1, disk[1].what = Meta, Len(d) # 0
          PROVE  Len(d) = 1 /\ d[1].what = Meta
      <4>1. Len(d) = 1
        BY <2>1, <2>2, <2>4, <3>2 DEF Repairs
      <4>2. 1 \in 1..Len(d)
        BY <4>1
      <4> QED BY <2>1, <2>2, <3>2, <4>1, <4>2 DEF Repairs
    <3>3. Len(d) = 0 => d = <<>>
      BY <2>4
    <3> QED BY <2>5, <3>1, <3>2, <3>3
  <2> QED BY <2>2, <2>3, <2>5, <2>6, NoWriterFields DEF RecorderInv, MetaInv
<1>20. ASSUME AppendFront PROVE MetaInv'
  <2>1. /\ pc = "append" /\ pending # <<>> /\ pc' = "appended"
        /\ UNCHANGED <<pending, meta, writer, unconfirmed>>
        /\ writer.open
    BY <1>20 DEF AppendFront, state, RecorderInv, WriterInv, WritingPCs
  <2>2. ~meta /\ unconfirmed = NoSeq
    BY <2>1 DEF RecorderInv, MetaInv, OutcomeInv
  <2>3. PICK d : d = disk' /\ (d = disk \/ Writes(d, Head(pending)))
    BY <1>20, FrontWritten
  <2>4. ASSUME NEW n \in 1..Len(pending), pending[n] = Meta
        PROVE  d = <<>> \/ (Len(d) = 1 /\ d[1].what = Meta)
    <3>1. disk = <<>> /\ writer.nextSeq = 0
      BY <2>1, <2>2, <2>4 DEF RecorderInv, MetaInv, NoSeq
    <3>2. Head(pending) = Meta
      BY <2>4, MetaAtFront
    <3>3. CASE Writes(d, Head(pending))
      BY <3>1, <3>2, <3>3 DEF Writes
    <3> QED BY <2>3, <3>1, <3>3
  <2> QED BY <2>1, <2>2, <2>3, <2>4 DEF RecorderInv, MetaInv
<1>21. ASSUME AppendDone PROVE MetaInv'
  <2>1. /\ pc = "appended" /\ writer.open /\ pending # <<>> /\ pending' = Tail(pending)
        /\ meta' = meta
    BY <1>21 DEF AppendDone, RecorderInv, WriterInv, WritingPCs, OutcomeInv
  <2>2. ~meta /\ pending \in Seq(Items \cup {Meta})
    BY <2>1 DEF RecorderInv, MetaInv, TypeOK
  <2>3. PICK s : s = pending'
    OBVIOUS
  <2>4. \A n \in 1..Len(s) : s[n] = pending[n + 1] /\ n + 1 \in 1..Len(pending) /\ n + 1 # 1
    BY <2>1, <2>2, <2>3
  <2>5. \A n \in 1..Len(s) : s[n] # Meta
    BY <2>4 DEF RecorderInv, MetaInv
  <2> QED BY <2>1, <2>2, <2>3, <2>5 DEF MetaInv
<1>22. ASSUME WriteCheckpoint PROVE MetaInv'
  <2>1. pc \in {"checkpoint", "checkpointed"} /\ writer.open /\ UNCHANGED <<pending, meta>>
    BY <1>22 DEF WriteCheckpoint, state, RecorderInv, WriterInv, WritingPCs
  <2>2. writer.nextSeq > 0 /\ writer.nextSeq \in Nat /\ ~meta
    BY <2>1 DEF RecorderInv, TypeOK, WriterInv, MetaInv
  <2>3. \A n \in 1..Len(pending) : pending[n] # Meta
    <3>1. \A n \in 1..Len(pending) : pending[n] = Meta => writer.nextSeq = 0
      BY <2>1 DEF RecorderInv, MetaInv
    <3> QED BY <2>2, <3>1
  <2> QED BY <2>1, <2>2, <2>3 DEF MetaInv
<1>23. ASSUME CheckpointDone PROVE MetaInv'
  <2>1. pc \in {"checkpoint", "checkpointed"} /\ writer.open /\ UNCHANGED <<pending, meta>>
    BY <1>23 DEF CheckpointDone, state, RecorderInv, WriterInv, WritingPCs
  <2>2. writer.nextSeq > 0 /\ writer.nextSeq \in Nat /\ ~meta
    BY <2>1 DEF RecorderInv, TypeOK, WriterInv, MetaInv
  <2>3. \A n \in 1..Len(pending) : pending[n] # Meta
    <3>1. \A n \in 1..Len(pending) : pending[n] = Meta => writer.nextSeq = 0
      BY <2>1 DEF RecorderInv, MetaInv
    <3> QED BY <2>2, <3>1
  <2> QED BY <2>1, <2>2, <2>3 DEF MetaInv
<1>24. ASSUME ResumeThread PROVE MetaInv'
  BY <1>24 DEF ResumeThread, MetaInv
<1>25. ASSUME UNCHANGED vars PROVE MetaInv'
  BY <1>25 DEF vars, disks, state, task, hosts, RecorderInv, MetaInv
<1> QED BY <1>1, <1>2, <1>3, <1>4, <1>5, <1>6, <1>7, <1>8, <1>9, <1>10, <1>11, <1>12, <1>13,
   <1>14, <1>15, <1>16, <1>17, <1>18, <1>19, <1>20, <1>21, <1>22, <1>23, <1>24, <1>25 DEF Next,
      WriterTask, Host

\* Nothing is written, and nothing waits, that was not recorded.
LEMMA HostStep ==
    ASSUME RecorderInv, [Next]_vars
    PROVE  HostInv'
<1>1. ASSUME NEW i \in Items, Record(i) PROVE HostInv'
  <2>1. /\ inbox \in Seq(Items \cup Calls) /\ inbox' = Append(inbox, i)
        /\ UNCHANGED <<disk, pending, pc>> /\ recorded \subseteq recorded'
        /\ pc' \notin {"stopped", "down"} /\ i \in recorded' \cup Calls
    BY <1>1 DEF Record, Listening, disks, state, task, RecorderInv, TypeOK
  <2>2. PICK t : t = inbox'
    OBVIOUS
  <2>3. \A n \in 1..Len(t) : t[n] = i \/ \E m \in 1..Len(inbox) : t[n] = inbox[m]
    BY <2>1, <2>2
  <2> QED BY <2>1, <2>2, <2>3 DEF RecorderInv, HostInv
<1>2. ASSUME NEW c \in Calls, Call(c) PROVE HostInv'
  <2>1. /\ inbox \in Seq(Items \cup Calls) /\ inbox' = Append(inbox, c)
        /\ UNCHANGED <<disk, pending, pc>> /\ recorded \subseteq recorded'
        /\ pc' \notin {"stopped", "down"} /\ c \in recorded' \cup Calls
    BY <1>2 DEF Call, Listening, disks, state, task, RecorderInv, TypeOK
  <2>2. PICK t : t = inbox'
    OBVIOUS
  <2>3. \A n \in 1..Len(t) : t[n] = c \/ \E m \in 1..Len(inbox) : t[n] = inbox[m]
    BY <2>1, <2>2
  <2> QED BY <2>1, <2>2, <2>3 DEF RecorderInv, HostInv
<1>3. ASSUME DropHandles PROVE HostInv'
  BY <1>3 DEF DropHandles, disks, state, task, hosts, RecorderInv, HostInv
<1>4. ASSUME ReceiveRecord PROVE HostInv'
  <2>1. /\ pending \in Seq(Items \cup {Meta}) /\ inbox \in Seq(Items \cup Calls)
        /\ inbox # <<>> /\ Head(inbox) \in Items /\ inbox' = Tail(inbox)
        /\ pending' = Append(pending, Head(inbox)) /\ UNCHANGED <<disk, recorded>>
        /\ pc' \in {"open", "append"}
    BY <1>4 DEF ReceiveRecord, disks, BeginWrite, RecorderInv, TypeOK
  <2>2. PICK x \in Items \cup {Meta} : x = Head(inbox) /\ x \in recorded
    <3>1. 1 \in 1..Len(inbox) /\ Head(inbox) = inbox[1]
      BY <2>1
    <3>2. Head(inbox) \in recorded \cup Calls
      BY <3>1 DEF RecorderInv, HostInv
    <3> QED BY <2>1, <3>2, ItemsAssumption

  <2>3. PICK s, t : s = pending' /\ t = inbox'
    OBVIOUS
  <2>4. \A n \in 1..Len(s) : s[n] = x \/ \E m \in 1..Len(pending) : s[n] = pending[m]
    <3>1. s = Append(pending, x)
      BY <2>1, <2>2, <2>3
    <3> QED BY <2>1, <3>1
  <2>5. \A n \in 1..Len(t) : t[n] = inbox[n + 1] /\ n + 1 \in 1..Len(inbox)
    BY <2>1, <2>3
  <2> QED BY <2>1, <2>2, <2>3, <2>4, <2>5 DEF RecorderInv, HostInv
<1>5. ASSUME ReceiveBarrier PROVE HostInv'
  <2>1. /\ inbox \in Seq(Items \cup Calls) /\ inbox # <<>> /\ inbox' = Tail(inbox)
        /\ UNCHANGED <<disk, recorded>> /\ pending' \in {pending, <<>>}
        /\ pc' \in {"open", "append", "recv", "stopping"}
    BY <1>5 DEF ReceiveBarrier, disks, state, BeginWrite, Reply, RecorderInv, TypeOK
  <2>2. PICK t : t = inbox'
    OBVIOUS
  <2>3. \A n \in 1..Len(t) : t[n] = inbox[n + 1] /\ n + 1 \in 1..Len(inbox)
    BY <2>1, <2>2
  <2>4. \A n \in 1..Len(<<>>) : FALSE
    OBVIOUS
  <2> QED BY <2>1, <2>2, <2>3, <2>4 DEF RecorderInv, HostInv
<1>6. ASSUME ReceiveDiscard PROVE HostInv'
  <2>1. /\ inbox \in Seq(Items \cup Calls) /\ inbox # <<>> /\ inbox' = Tail(inbox)
        /\ UNCHANGED <<disk, recorded>> /\ pending' \in {pending, <<>>}
        /\ pc' \in {"open", "append", "recv", "stopping"}
    BY <1>6 DEF ReceiveDiscard, disks, state, BeginWrite, Reply, RecorderInv, TypeOK
  <2>2. PICK t : t = inbox'
    OBVIOUS
  <2>3. \A n \in 1..Len(t) : t[n] = inbox[n + 1] /\ n + 1 \in 1..Len(inbox)
    BY <2>1, <2>2
  <2>4. \A n \in 1..Len(<<>>) : FALSE
    OBVIOUS
  <2> QED BY <2>1, <2>2, <2>3, <2>4 DEF RecorderInv, HostInv
<1>7. ASSUME ReceiveNone PROVE HostInv'
  BY <1>7 DEF ReceiveNone, BeginWrite, disks, state, task, hosts, RecorderInv,
     HostInv
<1>8. ASSUME SettleUnconfirmed PROVE HostInv'
  <2>1. /\ pending \in Seq(Items \cup {Meta}) /\ pc' = "append"
        /\ UNCHANGED <<disk, recorded, inbox>>
    BY <1>8 DEF SettleUnconfirmed, disks, hosts, RecorderInv, TypeOK
  <2>2. PICK left : /\ left = IF Landed THEN Tail(pending) ELSE pending
                    /\ pending' = IF meta /\ writer.nextSeq = 0 THEN <<Meta>> \o left ELSE left
    BY <1>8 DEF SettleUnconfirmed
  <2>3. Landed => pending # <<>>
    BY DEF Landed
  <2>4. /\ left \in Seq(Items \cup {Meta})
        /\ \A n \in 1..Len(left) : \E m \in 1..Len(pending) : left[n] = pending[m]
    <3>1. CASE Landed
      <4>1. \A n \in 1..Len(left) : left[n] = pending[n + 1] /\ n + 1 \in 1..Len(pending)
        BY <2>1, <2>2, <2>3, <3>1
      <4> QED BY <2>1, <2>2, <2>3, <3>1, <4>1
    <3>2. CASE ~Landed
      BY <2>1, <2>2, <3>2
    <3> QED BY <3>1, <3>2
  <2>5. PICK s : s = pending'
    OBVIOUS
  <2>6. \A n \in 1..Len(s) : s[n] = Meta \/ \E m \in 1..Len(left) : s[n] = left[m]
    <3>1. s = left \/ s = <<Meta>> \o left
      BY <2>2, <2>5
    <3> QED BY <2>4, <3>1
  <2> QED BY <2>1, <2>4, <2>5, <2>6 DEF RecorderInv, HostInv
<1>9. ASSUME SettleFails PROVE HostInv'
  BY <1>9 DEF SettleFails, Fails, Recover, Reply, disks, state, task, hosts,
     RecorderInv, HostInv
<1>10. ASSUME AppendFails PROVE HostInv'
  BY <1>10 DEF AppendFails, Fails, Recover, Reply, disks, state, task, hosts,
     RecorderInv, HostInv
<1>11. ASSUME AppendPoisoned PROVE HostInv'
  BY <1>11 DEF AppendPoisoned, Recover, Reply, disks, state, task, hosts,
     RecorderInv, HostInv
<1>12. ASSUME CheckpointFails PROVE HostInv'
  BY <1>12 DEF CheckpointFails, Fails, disks, state, task, hosts, RecorderInv,
     HostInv
<1>13. ASSUME Drained PROVE HostInv'
  BY <1>13 DEF Drained, Reply, CloseIfStopping, disks, state, task, hosts,
     RecorderInv, HostInv
<1>14. ASSUME FlushFails PROVE HostInv'
  BY <1>14 DEF FlushFails, Fails, Recover, Reply, disks, state, task, hosts,
     RecorderInv, HostInv
<1>15. ASSUME Stop PROVE HostInv'
  BY <1>15 DEF Stop, disks, state, task, hosts, RecorderInv, HostInv
<1>16. ASSUME Crash PROVE HostInv'
  BY <1>16 DEF Crash, disks, state, task, hosts, RecorderInv, HostInv
<1>17. ASSUME CreateThread PROVE HostInv'
  BY <1>17 DEF CreateThread, disks, state, task, hosts, RecorderInv, HostInv
<1>18. ASSUME OpenRollout PROVE HostInv'
  <2>1. Repairs(disk', disk)
    BY <1>18, OpenKnows
  <2>2. PICK d : d = disk'
    OBVIOUS
  <2>3. \A n \in 1..Len(d) : d[n].what \in recorded \cup {Meta, Checkpoint}
    <3>1. CASE Repairs(d, disk)
      <4>1. \A n \in 1..Len(d) : n \in 1..Len(disk) /\ d[n].what = disk[n].what
        BY <3>1 DEF Repairs, RecorderInv, TypeOK
      <4> QED BY <4>1 DEF RecorderInv, HostInv
    <3> QED BY <2>1, <2>2, <3>1 DEF RecorderInv, HostInv
  <2> QED BY <1>18, <2>2, <2>3 DEF OpenRollout, hosts, RecorderInv, HostInv
<1>19. ASSUME OpenFails PROVE HostInv'
  <2>1. disk' = disk \/ Repairs(disk', disk)
    BY <1>19, OpenLeaves
  <2>2. PICK d : d = disk'
    OBVIOUS
  <2>3. \A n \in 1..Len(d) : d[n].what \in recorded \cup {Meta, Checkpoint}
    <3>1. CASE Repairs(d, disk)
      <4>1. \A n \in 1..Len(d) : n \in 1..Len(disk) /\ d[n].what = disk[n].what
        BY <3>1 DEF Repairs, RecorderInv, TypeOK
      <4> QED BY <4>1 DEF RecorderInv, HostInv
    <3> QED BY <2>1, <2>2, <3>1 DEF RecorderInv, HostInv
  <2> QED BY <1>19, <2>2, <2>3 DEF OpenFails, Recover, Reply, RecorderInv, HostInv
<1>20. ASSUME AppendFront PROVE HostInv'
  <2>1. PICK d : d = disk' /\ (d = disk \/ Writes(d, Head(pending)))
    BY <1>20, FrontWritten
  <2>2. /\ pc' \in {"append", "appended", "checkpoint", "checkpointed"}
        /\ UNCHANGED <<inbox, recorded>> /\ writer.open
        /\ writer.nextSeq \in Nat /\ pending \in Seq(Items \cup {Meta})
    BY <1>20 DEF AppendFront, hosts, RecorderInv, TypeOK, WriterInv, WritingPCs
  <2>3. Head(pending) \in recorded \cup {Meta}
    <3>1. pending # <<>>
      BY <1>20 DEF AppendFront, RecorderInv, OutcomeInv
    <3>2. 1 \in 1..Len(pending) /\ Head(pending) = pending[1]
      BY <2>2, <3>1
    <3> QED BY <3>2 DEF RecorderInv, HostInv
  <2>4. \A n \in 1..Len(d) : d[n].what \in recorded \cup {Meta, Checkpoint}
    <3>1. CASE Writes(d, Head(pending))
      <4>1. \A n \in 1..Len(d) : n = Len(d) \/ (n \in 1..writer.nextSeq /\ d[n] = disk[n])
        BY <2>2, <3>1 DEF Writes
      <4>2. writer.nextSeq \in {Len(disk), Len(disk) - 1} /\ disk \in Seq(Lines)
        BY <2>2 DEF RecorderInv, WriterInv, Follows, TypeOK
      <4>3. \A n \in 1..writer.nextSeq : n \in 1..Len(disk)
        BY <2>2, <4>2
      <4> QED BY <2>3, <3>1, <4>1, <4>3 DEF RecorderInv, HostInv, Writes
    <3> QED BY <2>1, <3>1 DEF RecorderInv, HostInv
  <2>5. PICK s : s = pending' /\ \A n \in 1..Len(s) : \E m \in 1..Len(pending) : s[n] = pending[m]
    BY <1>20 DEF AppendFront, state
  <2> QED BY <2>1, <2>2, <2>4, <2>5 DEF RecorderInv, HostInv
<1>21. ASSUME AppendDone PROVE HostInv'
  <2>1. PICK d : d = disk' /\ (d = disk \/ Writes(d, Head(pending)))
    BY <1>21, FrontWritten
  <2>2. /\ pc' \in {"append", "appended", "checkpoint", "checkpointed"}
        /\ UNCHANGED <<inbox, recorded>> /\ writer.open
        /\ writer.nextSeq \in Nat /\ pending \in Seq(Items \cup {Meta})
    BY <1>21 DEF AppendDone, hosts, RecorderInv, TypeOK, WriterInv, WritingPCs
  <2>3. Head(pending) \in recorded \cup {Meta}
    <3>1. pending # <<>>
      BY <1>21 DEF AppendDone, RecorderInv, OutcomeInv
    <3>2. 1 \in 1..Len(pending) /\ Head(pending) = pending[1]
      BY <2>2, <3>1
    <3> QED BY <3>2 DEF RecorderInv, HostInv
  <2>4. \A n \in 1..Len(d) : d[n].what \in recorded \cup {Meta, Checkpoint}
    <3>1. CASE Writes(d, Head(pending))
      <4>1. \A n \in 1..Len(d) : n = Len(d) \/ (n \in 1..writer.nextSeq /\ d[n] = disk[n])
        BY <2>2, <3>1 DEF Writes
      <4>2. writer.nextSeq \in {Len(disk), Len(disk) - 1} /\ disk \in Seq(Lines)
        BY <2>2 DEF RecorderInv, WriterInv, Follows, TypeOK
      <4>3. \A n \in 1..writer.nextSeq : n \in 1..Len(disk)
        BY <2>2, <4>2
      <4> QED BY <2>3, <3>1, <4>1, <4>3 DEF RecorderInv, HostInv, Writes
    <3> QED BY <2>1, <3>1 DEF RecorderInv, HostInv
  <2>5. PICK s : s = pending' /\ \A n \in 1..Len(s) : \E m \in 1..Len(pending) : s[n] = pending[m]
    <3>1. pending # <<>> /\ pending' = Tail(pending)
      BY <1>21 DEF AppendDone, RecorderInv, OutcomeInv
    <3>2. PICK s : s = pending'
      OBVIOUS
    <3>3. \A n \in 1..Len(s) : s[n] = pending[n + 1] /\ n + 1 \in 1..Len(pending)
      BY <2>2, <3>1, <3>2
    <3> QED BY <3>2, <3>3
  <2> QED BY <2>1, <2>2, <2>4, <2>5 DEF RecorderInv, HostInv
<1>22. ASSUME WriteCheckpoint PROVE HostInv'
  <2>1. PICK d : d = disk' /\ (d = disk \/ Writes(d, Checkpoint))
    BY <1>22, FrontWritten
  <2>2. /\ pc' \in {"append", "appended", "checkpoint", "checkpointed"}
        /\ UNCHANGED <<inbox, recorded>> /\ writer.open
        /\ writer.nextSeq \in Nat /\ pending \in Seq(Items \cup {Meta})
    BY <1>22 DEF WriteCheckpoint, hosts, RecorderInv, TypeOK, WriterInv, WritingPCs
  <2>3. Checkpoint \in recorded \cup {Meta, Checkpoint}
    OBVIOUS
  <2>4. \A n \in 1..Len(d) : d[n].what \in recorded \cup {Meta, Checkpoint}
    <3>1. CASE Writes(d, Checkpoint)
      <4>1. \A n \in 1..Len(d) : n = Len(d) \/ (n \in 1..writer.nextSeq /\ d[n] = disk[n])
        BY <2>2, <3>1 DEF Writes
      <4>2. writer.nextSeq \in {Len(disk), Len(disk) - 1} /\ disk \in Seq(Lines)
        BY <2>2 DEF RecorderInv, WriterInv, Follows, TypeOK
      <4>3. \A n \in 1..writer.nextSeq : n \in 1..Len(disk)
        BY <2>2, <4>2
      <4> QED BY <2>3, <3>1, <4>1, <4>3 DEF RecorderInv, HostInv, Writes
    <3> QED BY <2>1, <3>1 DEF RecorderInv, HostInv
  <2>5. PICK s : s = pending' /\ \A n \in 1..Len(s) : \E m \in 1..Len(pending) : s[n] = pending[m]
    BY <1>22 DEF WriteCheckpoint, state
  <2> QED BY <2>1, <2>2, <2>4, <2>5 DEF RecorderInv, HostInv
<1>23. ASSUME CheckpointDone PROVE HostInv'
  <2>1. PICK d : d = disk' /\ (d = disk \/ Writes(d, Checkpoint))
    BY <1>23, FrontWritten
  <2>2. /\ pc' \in {"append", "appended", "checkpoint", "checkpointed"}
        /\ UNCHANGED <<inbox, recorded>> /\ writer.open
        /\ writer.nextSeq \in Nat /\ pending \in Seq(Items \cup {Meta})
    BY <1>23 DEF CheckpointDone, hosts, RecorderInv, TypeOK, WriterInv, WritingPCs
  <2>3. Checkpoint \in recorded \cup {Meta, Checkpoint}
    OBVIOUS
  <2>4. \A n \in 1..Len(d) : d[n].what \in recorded \cup {Meta, Checkpoint}
    <3>1. CASE Writes(d, Checkpoint)
      <4>1. \A n \in 1..Len(d) : n = Len(d) \/ (n \in 1..writer.nextSeq /\ d[n] = disk[n])
        BY <2>2, <3>1 DEF Writes
      <4>2. writer.nextSeq \in {Len(disk), Len(disk) - 1} /\ disk \in Seq(Lines)
        BY <2>2 DEF RecorderInv, WriterInv, Follows, TypeOK
      <4>3. \A n \in 1..writer.nextSeq : n \in 1..Len(disk)
        BY <2>2, <4>2
      <4> QED BY <2>3, <3>1, <4>1, <4>3 DEF RecorderInv, HostInv, Writes
    <3> QED BY <2>1, <3>1 DEF RecorderInv, HostInv
  <2>5. PICK s : s = pending' /\ \A n \in 1..Len(s) : \E m \in 1..Len(pending) : s[n] = pending[m]
    BY <1>23 DEF CheckpointDone, state
  <2> QED BY <2>1, <2>2, <2>4, <2>5 DEF RecorderInv, HostInv
<1>24. ASSUME ResumeThread PROVE HostInv'
  <2>1. Repairs(disk', disk)
    BY <1>24, OpenKnows
  <2>2. PICK d : d = disk'
    OBVIOUS
  <2>3. \A n \in 1..Len(d) : d[n].what \in recorded \cup {Meta, Checkpoint}
    <3>1. CASE Repairs(d, disk)
      <4>1. \A n \in 1..Len(d) : n \in 1..Len(disk) /\ d[n].what = disk[n].what
        BY <3>1 DEF Repairs, RecorderInv, TypeOK
      <4> QED BY <4>1 DEF RecorderInv, HostInv
    <3> QED BY <2>1, <2>2, <3>1 DEF RecorderInv, HostInv
  <2> QED BY <1>24, <2>2, <2>3 DEF ResumeThread, RecorderInv, HostInv
<1>25. ASSUME UNCHANGED vars PROVE HostInv'
  BY <1>25 DEF vars, disks, state, task, hosts, RecorderInv, HostInv
<1> QED BY <1>1, <1>2, <1>3, <1>4, <1>5, <1>6, <1>7, <1>8, <1>9, <1>10, <1>11, <1>12, <1>13,
   <1>14, <1>15, <1>16, <1>17, <1>18, <1>19, <1>20, <1>21, <1>22, <1>23, <1>24, <1>25 DEF Next,
      WriterTask, Host

-----------------------------------------------------------------------------
(* The theorems                                                            *)

\* The inductive invariant holds in every reachable state.
THEOREM RecorderInvariant == Spec => []RecorderInv
<1>1. Init => RecorderInv
  <2> SUFFICES ASSUME Init PROVE RecorderInv
    OBVIOUS
  <2>1. /\ disk = <<>> /\ pending = <<>> /\ inbox = <<>> /\ Len(<<>>) = 0
        /\ \A n \in 1..0 : FALSE
        /\ <<>> \in Seq(Lines) /\ <<>> \in Seq(Items \cup {Meta}) /\ <<>> \in Seq(Items \cup Calls)
    BY DEF Init
  <2>2. ~writer.open /\ writer \in [open : BOOLEAN, nextSeq : Nat, total : Nat, since : Nat,
                                    cp : Nat, poisoned : BOOLEAN]
    BY NoWriterFields DEF Init
  <2>3. TypeOK
    <3>1. DataTypes
      BY <2>1, <2>2, BoundsAssumption DEF Init, DataTypes, NoSeq, Kinds
    <3>2. FlagTypes
      BY Zenon DEF Init, FlagTypes
    <3> QED BY <3>1, <3>2, Zenon DEF DataTypes, FlagTypes, TypeOK
  <2>4. FileInv
    BY <2>1 DEF Init, FileInv, Sound
  <2>5. WriterInv /\ OutcomeInv /\ MetaInv /\ HostInv
    BY <2>1, <2>2 DEF Init, WriterInv, WritingPCs, ClosedPCs, OutcomeInv, MetaInv, HostInv
  <2> QED BY <2>3, <2>4, <2>5 DEF RecorderInv
<1>2. RecorderInv /\ [Next]_vars => RecorderInv'
  <2> SUFFICES ASSUME RecorderInv, [Next]_vars PROVE RecorderInv'
    OBVIOUS
  <2>1. TypeOK' /\ FileInv' /\ WriterInv' /\ OutcomeInv' /\ MetaInv' /\ HostInv'
    BY TypeStep, FileStep, WriterStep, OutcomeStep, MetaStep, HostStep
  <2> QED BY <2>1 DEF RecorderInv
<1> QED BY <1>1, <1>2, PTL DEF Spec

\* Whatever a crash or a failed write leaves of the file, the next open takes it up
\* (writer.rs, validate_scan and recover): no scan rejects it, and from whichever
\* checkpoint the sidecar names recovery derives what reading the whole file does.
THEOREM RecoversExactly == Spec => []RecoveryExact
<1>1. RecorderInv => RecoveryExact
  <2> SUFFICES ASSUME RecorderInv PROVE RecoveryExact
    OBVIOUS
  <2>1. Sound(disk) /\ sidecar \in Nat
    BY DEF RecorderInv, FileInv, TypeOK
  <2>2. PICK seed \in Nat : seed = Seed(disk, sidecar) /\ (seed = 0 \/ IsCheckpoint(disk, seed))
    BY <2>1 DEF Seed
  <2>3. ScanAccepts(disk, 0) /\ ScanAccepts(disk, seed)
    BY <2>1, <2>2, SoundAccepted
  <2>4. Repaired(disk) \in Seq(Lines)
    BY <2>1, RepairedRepairs DEF Repairs
  <2>5. Knows(Recovered(disk, 0), Repaired(disk)) /\ Knows(Recovered(disk, seed), Repaired(disk))
    BY <2>1, <2>2, RecoveredKnows
  <2>6. Recovered(disk, seed) = Recovered(disk, 0)
    BY <2>4, <2>5, KnowsOne
  <2>7. \A n \in DOMAIN disk : disk[n].what = Meta => n = 1
    BY <2>1 DEF Sound
  <2> QED BY <2>2, <2>3, <2>6, <2>7 DEF RecoveryExact
<1> QED BY <1>1, RecorderInvariant, PTL

\* A writer that may append (writer.rs, append_inner) knows its file as one who reads
\* it anew would, across every failure, crash and restart.
THEOREM WriterFollowsFile == Spec => []WriterKnowsItsFile
<1>1. RecorderInv => WriterKnowsItsFile
  <2> SUFFICES ASSUME RecorderInv, writer.open, ~writer.poisoned,
                      pc \notin {"appended", "checkpointed"}
               PROVE  /\ writer = Recovered(disk, 0)
                      /\ \A n \in DOMAIN disk : disk[n].form = "full"
    BY DEF WriterKnowsItsFile
  <2>1. /\ Sound(disk) /\ disk \in Seq(Lines) /\ Len(disk) \in Nat /\ writer.nextSeq \in Nat
        /\ Follows(writer, disk)
    BY DEF RecorderInv, TypeOK, FileInv, WriterInv
  <2>2. Len(disk) = writer.nextSeq
    <3>1. ~(Len(disk) > writer.nextSeq)
      BY DEF RecorderInv, WriterInv
    <3> QED BY <2>1, <3>1 DEF Follows
  <2>3. \A n \in DOMAIN disk : disk[n].form = "full"
    BY <2>1, <2>2 DEF Follows
  <2>4. Repaired(disk) = disk
    BY <2>1, <2>3 DEF Repaired, Last
  <2>5. Knows(Recovered(disk, 0), disk)
    BY <2>1, <2>4, RecoveredKnows
  <2>6. writer = [open |-> TRUE, nextSeq |-> Len(disk), total |-> Totals(disk, 0)[Len(disk)],
                  since |-> Len(disk) - writer.cp, cp |-> writer.cp, poisoned |-> FALSE]
    <3>1. /\ writer.open = TRUE /\ writer.poisoned = FALSE
          /\ writer.total = Totals(disk, 0)[Len(disk)]
          /\ writer.since = Len(disk) - writer.cp
      BY <2>1, <2>2, WriterFields DEF Follows, RecorderInv
    <3>2. writer = [open |-> writer.open, nextSeq |-> writer.nextSeq, total |-> writer.total,
                    since |-> writer.since, cp |-> writer.cp, poisoned |-> writer.poisoned]
      BY WriterFields DEF RecorderInv
    <3> QED BY <2>2, <3>1, <3>2
  <2>7. Knows(writer, disk)
    BY <2>1, <2>2, <2>6 DEF Follows, Knows
  <2>8. writer = Recovered(disk, 0)
    BY <2>1, <2>5, <2>7, KnowsOne
  <2> QED BY <2>3, <2>8
<1> QED BY <1>1, RecorderInvariant, PTL

-----------------------------------------------------------------------------
(* What a reader finds in the file                                         *)

Log(lines) == Selected(Contents(lines), Items)

\* The line with number seq is in the file, and can be read.
Present(lines, seq) == Len(lines) > seq /\ Parses(lines[Len(lines)])

Words == Items \cup {Meta, Checkpoint, Unread}

\* What a reader makes of each line.
LEMMA ContentsAre ==
    ASSUME NEW lines \in Seq(Lines)
    PROVE  /\ Contents(lines) \in Seq(Words) /\ Len(Contents(lines)) = Len(lines)
           /\ \A n \in 1..Len(lines) :
                 /\ Parses(lines[n]) => Contents(lines)[n] = lines[n].what
                 /\ ~Parses(lines[n]) => Contents(lines)[n] = Unread
<1>1. Len(lines) \in Nat /\ DOMAIN lines = 1..Len(lines)
  OBVIOUS
<1>2. PICK f : f = Contents(lines)
  OBVIOUS
<1>3. f = [n \in 1..Len(lines) |-> IF Parses(lines[n]) THEN lines[n].what ELSE Unread]
  BY <1>1, <1>2 DEF Contents
<1>4. \A n \in 1..Len(lines) : lines[n].what \in Words
  BY LineFields DEF Words
<1>5. f \in [1..Len(lines) -> Words]
  BY <1>3, <1>4 DEF Words
<1>6. f \in Seq(Words) /\ Len(f) = Len(lines)
  BY <1>1, <1>5, FunctionIsSeq
<1> QED BY <1>2, <1>3, <1>6

\* What a reader finds is a sequence of items.
LEMMA LogIsItems ==
    ASSUME NEW lines \in Seq(Lines)
    PROVE  Log(lines) \in Seq(Items)
<1>1. PICK s \in Seq(Words) : s = Contents(lines)
  BY ContentsAre
<1> QED BY <1>1, SelectedReads, SelectedIs DEF Log

\* One more line, with one more item in it or not.
LEMMA LogExtended ==
    ASSUME NEW a \in Seq(Lines), NEW d \in Seq(Lines), Len(d) = Len(a) + 1,
           \A n \in 1..Len(a) : d[n] = a[n]
    PROVE  Log(d) = IF Parses(d[Len(d)]) /\ d[Len(d)].what \in Items
                    THEN Append(Log(a), d[Len(d)].what) ELSE Log(a)
<1>1. PICK s \in Seq(Words) : /\ s = Contents(a) /\ Len(s) = Len(a)
                              /\ \A n \in 1..Len(a) :
                                    /\ Parses(a[n]) => s[n] = a[n].what
                                    /\ ~Parses(a[n]) => s[n] = Unread
  BY ContentsAre
<1>2. PICK t \in Seq(Words) : /\ t = Contents(d) /\ Len(t) = Len(d)
                              /\ \A n \in 1..Len(d) :
                                    /\ Parses(d[n]) => t[n] = d[n].what
                                    /\ ~Parses(d[n]) => t[n] = Unread
  BY ContentsAre
<1>3. Len(a) \in Nat /\ Len(d) \in 1..Len(d) /\ \A n \in 1..Len(a) : n \in 1..Len(d)
  OBVIOUS
<1>4. PICK e \in Words : e = t[Len(d)]
  BY <1>2, <1>3
<1>5. t = s \o <<e>>
  <2>1. PICK u \in Seq(Words) : u = s \o <<e>>
    <3>1. s \o <<e>> \in Seq(Words)
      OBVIOUS
    <3> QED BY <3>1, Zenon
  <2>2. Len(u) = Len(s) + 1 /\ u[Len(s) + 1] = e /\ \A n \in 1..Len(s) : u[n] = s[n]
    BY <2>1
  <2>3. \A n \in 1..Len(a) : t[n] = s[n]
    BY <1>1, <1>2, <1>3
  <2>4. Len(u) = Len(t) /\ \A n \in 1..Len(u) : u[n] = t[n]
    BY <1>1, <1>2, <1>3, <1>4, <2>2, <2>3
  <2> QED BY <2>1, <2>4, SeqEqual
<1>6. Selected(t, Items) = IF e \in Items THEN Selected(s, Items) \o <<e>> ELSE Selected(s, Items)
  BY <1>5, SelectedAppend
<1>7. e \in Items <=> Parses(d[Len(d)]) /\ d[Len(d)].what \in Items
  <2>1. Unread \notin Items
    BY ItemsAssumption
  <2> QED BY <1>2, <1>3, <1>4, <2>1
<1>8. e \in Items => e = d[Len(d)].what
  <2>1. Unread \notin Items
    BY ItemsAssumption
  <2> QED BY <1>2, <1>3, <1>4, <2>1
<1>9. PICK l \in Seq(Items) : l = Selected(s, Items)
  BY SelectedReads, SelectedIs
<1>10. e \in Items => l \o <<e>> = Append(l, e)
  BY AppendIsConcat
<1> QED BY <1>1, <1>2, <1>6, <1>7, <1>8, <1>9, <1>10 DEF Log

\* Repairing the file changes nothing for its readers.
LEMMA LogRepairs ==
    ASSUME NEW lines, Sound(lines), NEW r, Repairs(r, lines)
    PROVE  /\ Log(r) = Log(lines)
           /\ \A seq \in Nat : \A x : Uncertain(lines, seq, x) =>
                 (Present(r, seq) <=> Present(lines, seq))
<1>1. lines \in Seq(Lines) /\ r \in Seq(Lines) /\ Len(lines) \in Nat /\ Len(r) \in Nat
  BY DEF Sound, Repairs
<1>2. \A n \in 1..Len(r) : /\ Parses(r[n]) /\ Parses(lines[n]) /\ r[n].what = lines[n].what
  BY DEF Repairs, Parses
<1>3. PICK s \in Seq(Words) : /\ s = Contents(r) /\ Len(s) = Len(r)
                              /\ \A n \in 1..Len(r) : Parses(r[n]) => s[n] = r[n].what
  BY <1>1, ContentsAre
<1>4. CASE Len(r) = Len(lines)
  <2>1. PICK t \in Seq(Words) :
          /\ t = Contents(lines) /\ Len(t) = Len(lines)
          /\ \A n \in 1..Len(lines) : Parses(lines[n]) => t[n] = lines[n].what
    BY <1>1, ContentsAre
  <2>2. Len(s) = Len(t) /\ \A n \in 1..Len(s) : s[n] = t[n]
    BY <1>2, <1>3, <1>4, <2>1
  <2>3. s = t
    BY <2>2, SeqEqual
  <2>4. Log(r) = Log(lines)
    BY <1>3, <2>1, <2>3 DEF Log
  <2>5. ASSUME NEW seq \in Nat PROVE Present(r, seq) <=> Present(lines, seq)
    <3>1. Len(r) > seq => Len(r) \in 1..Len(r)
      BY <1>1
    <3> QED BY <1>2, <1>4, <3>1 DEF Present
  <2> QED BY <2>4, <2>5
<1>5. CASE Len(r) # Len(lines)
  <2>1. Len(lines) = Len(r) + 1 /\ lines[Len(lines)].form = "torn"
    BY <1>1, <1>5 DEF Repairs
  <2>2. ~Parses(lines[Len(lines)])
    BY <2>1 DEF Parses
  <2>3. PICK k \in 0..Len(lines) : k = Len(r)
    BY <1>1, <2>1
  <2>4. PICK a \in Seq(Lines) : Len(a) = k /\ \A n \in 1..k : a[n] = lines[n]
    BY <1>1, FirstLines
  <2>5. Log(lines) = Log(a)
    <3>1. Len(lines) = Len(a) + 1 /\ \A n \in 1..Len(a) : lines[n] = a[n]
      BY <2>1, <2>3, <2>4
    <3> QED BY <1>1, <2>2, <2>4, <3>1, LogExtended
  <2>6. PICK t \in Seq(Words) :
          /\ t = Contents(a) /\ Len(t) = Len(a)
          /\ \A n \in 1..Len(a) : Parses(a[n]) => t[n] = a[n].what
    BY <2>4, ContentsAre
  <2>7. Len(s) = Len(t) /\ \A n \in 1..Len(s) : s[n] = t[n]
    BY <1>2, <1>3, <2>3, <2>4, <2>6
  <2>8. s = t
    BY <2>7, SeqEqual
  <2>9. Log(r) = Log(a)
    BY <1>3, <2>6, <2>8 DEF Log
  <2>10. ASSUME NEW seq \in Nat, NEW x, Uncertain(lines, seq, x)
         PROVE  Present(r, seq) <=> Present(lines, seq)
    <3>1. ~(Len(r) > seq)
      BY <1>1, <2>1, <2>10 DEF Uncertain
    <3> QED BY <2>2, <3>1 DEF Present
  <2> QED BY <2>5, <2>9, <2>10
<1> QED BY <1>4, <1>5

\* A write adds its item to what readers find, once its line can be read.
LEMMA LogWrites ==
    ASSUME RecorderInv, writer.open, NEW x, NEW d, Writes(d, x),
           Len(disk) > writer.nextSeq => disk[Len(disk)].what = x
    PROVE  \E l \in Seq(Items) :
              /\ Log(disk) = IF Present(disk, writer.nextSeq) /\ x \in Items
                             THEN Append(l, x) ELSE l
              /\ Log(d) = IF Present(d, writer.nextSeq) /\ x \in Items
                          THEN Append(l, x) ELSE l
<1>1. /\ disk \in Seq(Lines) /\ Len(disk) \in Nat
      /\ d \in Seq(Lines) /\ d[Len(d)].what = x
      /\ \A n \in 1..writer.nextSeq : d[n] = disk[n]
  BY DEF RecorderInv, TypeOK, Writes, Sound
<1>2. PICK k \in 0..Len(disk) : /\ k = writer.nextSeq /\ k \in Nat /\ Len(d) = k + 1
                                /\ k \in {Len(disk), Len(disk) - 1}
  BY <1>1 DEF RecorderInv, TypeOK, WriterInv, Follows, Writes
<1>3. PICK a \in Seq(Lines) : Len(a) = k /\ \A n \in 1..k : a[n] = disk[n]
  <2>1. /\ SubSeq(disk, 1, k) \in Seq(Lines) /\ Len(SubSeq(disk, 1, k)) = k
        /\ \A n \in 1..k : SubSeq(disk, 1, k)[n] = disk[n]
    BY <1>1, FirstLines
  <2> QED BY <2>1
<1>4. PICK l \in Seq(Items) : l = Log(a)
  BY LogIsItems
<1>5. Log(d) = IF Present(d, writer.nextSeq) /\ x \in Items THEN Append(l, x) ELSE l
  <2>1. Len(d) = Len(a) + 1 /\ \A n \in 1..Len(a) : d[n] = a[n]
    BY <1>1, <1>2, <1>3
  <2>2. Log(d) = IF Parses(d[Len(d)]) /\ x \in Items THEN Append(l, x) ELSE l
    BY <1>1, <1>4, <2>1, LogExtended
  <2>3. Len(d) > writer.nextSeq
    BY <1>2
  <2> QED BY <2>2, <2>3 DEF Present
<1>6. CASE Len(disk) = k
  <2>1. disk = a
    BY <1>1, <1>3, <1>6, SeqEqual
  <2>2. ~Present(disk, writer.nextSeq)
    BY <1>1, <1>2, <1>6 DEF Present
  <2> QED BY <1>4, <1>5, <2>1, <2>2
<1>7. CASE Len(disk) # k
  <2>1. Len(disk) = Len(a) + 1 /\ \A n \in 1..Len(a) : disk[n] = a[n]
    BY <1>1, <1>2, <1>3, <1>7
  <2>2. Len(disk) > writer.nextSeq
    BY <1>1, <1>2, <1>3, <2>1
  <2>3. Log(disk) = IF Parses(disk[Len(disk)]) /\ x \in Items THEN Append(l, x) ELSE l
    BY <1>1, <1>4, <2>1, <2>2, LogExtended
  <2> QED BY <1>5, <2>2, <2>3 DEF Present
<1> QED BY <1>6, <1>7

\* A line that may have landed is found in the file exactly when it can be read.
LEMMA FoundLast ==
    ASSUME NEW lines, Sound(lines), NEW seq \in Nat, NEW x, Uncertain(lines, seq, x)
    PROVE  FoundAt(lines, seq, x) <=> Present(lines, seq)
<1>1. lines \in Seq(Lines) /\ Len(lines) \in Nat /\ seq \in {Len(lines), Len(lines) - 1}
  BY DEF Sound, Uncertain
<1>2. \A n \in 1..Len(lines) : lines[n].seq = n - 1
  BY DEF Sound
<1>3. ASSUME NEW n \in 1..Len(lines), lines[n].seq = seq, Parses(lines[n])
      PROVE  Present(lines, seq)
  <2>1. n = Len(lines) /\ Len(lines) > seq
    BY <1>1, <1>2, <1>3
  <2> QED BY <1>3, <2>1 DEF Present
<1>4. ASSUME Present(lines, seq) PROVE FoundAt(lines, seq, x)
  <2>1. /\ Len(lines) \in 1..Len(lines) /\ Parses(lines[Len(lines)])
        /\ seq = Len(lines) - 1 /\ Len(lines) > seq
    BY <1>1, <1>4 DEF Present
  <2>2. lines[Len(lines)].seq = seq /\ lines[Len(lines)].what = x
    BY <1>2, <2>1 DEF Uncertain
  <2> QED BY <2>1, <2>2 DEF FoundAt
<1> QED BY <1>3, <1>4 DEF FoundAt

-----------------------------------------------------------------------------
(* The recorder implements a durable log                                   *)

Unwritten == IF FrontStored THEN Tail(pending) ELSE pending

Working == IF pc \notin {"recv", "stopping", "stopped", "down"} /\ command \in Calls
           THEN <<command>> ELSE <<>>

\* Whether the front of the queue is stored can be told from the last line alone.
FrontFact ==
    /\ pc = "appended" => (FrontStored <=> Present(disk, writer.nextSeq))
    /\ pc # "appended" =>
          (FrontStored <=>
              unconfirmed # NoSeq /\ pending # <<>> /\ Present(disk, unconfirmed))

\* The invariant decides whether the front of the queue is stored ...
LEMMA FrontStoredIs == RecorderInv => FrontFact
<1> SUFFICES ASSUME RecorderInv PROVE FrontFact
  OBVIOUS
<1>1. Sound(disk) /\ writer.nextSeq \in Nat /\ unconfirmed \in Nat \cup {NoSeq}
  BY DEF RecorderInv, TypeOK, FileInv
<1>2. CASE pc = "appended"
  <2>1. /\ pending # <<>> /\ unconfirmed = NoSeq /\ writer.open /\ ~writer.poisoned
    BY <1>2 DEF RecorderInv, OutcomeInv, WriterInv, WritingPCs
  <2>2. Uncertain(disk, writer.nextSeq, Head(pending))
    BY <1>2, <2>1 DEF RecorderInv, WriterInv, Follows, Uncertain
  <2>3. FoundAt(disk, writer.nextSeq, Head(pending)) <=> Present(disk, writer.nextSeq)
    BY <1>1, <2>2, FoundLast
  <2> QED BY <1>2, <2>1, <2>3 DEF FrontFact, FrontStored
<1>3. CASE pc # "appended"
  <2>1. ASSUME unconfirmed # NoSeq, pending # <<>>
        PROVE  FoundAt(disk, unconfirmed, Head(pending)) <=> Present(disk, unconfirmed)
    <3>1. Uncertain(disk, unconfirmed, Head(pending)) /\ unconfirmed \in Nat
      BY <1>1, <2>1 DEF RecorderInv, OutcomeInv
    <3> QED BY <1>1, <3>1, FoundLast
  <2> QED BY <1>3, <2>1 DEF FrontFact, FrontStored
<1> QED BY <1>2, <1>3

\* ... after a step too.
LEMMA FrontStoredNext == RecorderInv' => FrontFact'
  BY FrontStoredIs, PTL

\* The parts of the queue and of the log.
QueueFact ==
    /\ StoredItems = Log(disk) /\ Log(disk) \in Seq(Items)
    /\ WaitingQueue = (Selected(Unwritten, Items) \o Working) \o inbox
    /\ Unwritten \in Seq(Items \cup {Meta})
    /\ Selected(Unwritten, Items) \in Seq(Items \cup Calls)
    /\ Selected(Unwritten, Items) \in Seq(Items)
    /\ Working \in Seq(Items \cup Calls)
    /\ inbox \in Seq(Items \cup Calls)

\* The queue and the log are sequences, in every state the invariant allows ...
LEMMA QueueParts == RecorderInv => QueueFact
<1> SUFFICES ASSUME RecorderInv PROVE QueueFact
  OBVIOUS
<1>1. /\ disk \in Seq(Lines) /\ pending \in Seq(Items \cup {Meta})
      /\ inbox \in Seq(Items \cup Calls)
  BY DEF RecorderInv, TypeOK
<1>2. StoredItems = Log(disk) /\ Log(disk) \in Seq(Items)
  BY <1>1, LogIsItems DEF StoredItems, Log
<1>3. WaitingQueue = (Selected(Unwritten, Items) \o Working) \o inbox
  BY DEF WaitingQueue, Unwritten, Working
<1>4. FrontStored => pending # <<>>
  BY DEF FrontStored
<1>5. PICK u \in Seq(Items \cup {Meta}) : u = Unwritten
  <2>1. pending # <<>> => Tail(pending) \in Seq(Items \cup {Meta})
    BY <1>1
  <2>2. Unwritten \in Seq(Items \cup {Meta})
    BY <1>1, <1>4, <2>1, Zenon DEF Unwritten
  <2> QED BY <2>2, Zenon
<1>6. PICK s \in Seq(Items) : s = Selected(u, Items)
  BY SelectedReads, SelectedIs
<1>7. s \in Seq(Items \cup Calls)
  OBVIOUS
<1>8. Working \in Seq(Items \cup Calls)
  <2>1. <<>> \in Seq(Items \cup Calls)
    OBVIOUS
  <2>2. command \in Calls => <<command>> \in Seq(Items \cup Calls)
    OBVIOUS
  <2> QED BY <2>1, <2>2, Zenon DEF Working
<1> QED BY <1>1, <1>2, <1>3, <1>5, <1>6, <1>7, <1>8 DEF QueueFact

\* ... and after a step.
LEMMA QueuePartsNext == RecorderInv' => QueueFact'
  BY QueueParts, PTL

\* Something is put behind the queue.
LEMMA QueueAppend ==
    ASSUME NEW P, NEW a \in Seq(P), NEW w \in Seq(P), NEW b \in Seq(P), NEW x \in P
    PROVE  (a \o w) \o Append(b, x) = Append((a \o w) \o b, x)
<1>1. PICK q \in Seq(P) : q = a \o w
  BY ConcatProperties
<1>2. <<x>> \in Seq(P) /\ Append(b, x) = b \o <<x>>
  BY AppendIsConcat
<1>3. q \o b \in Seq(P)
  BY ConcatProperties
<1>4. Append(q \o b, x) = (q \o b) \o <<x>>
  BY <1>3, AppendIsConcat
<1>5. (q \o b) \o <<x>> = q \o (b \o <<x>>)
  <2>1. PICK y \in Seq(P) : y = <<x>>
    BY <1>2, Zenon
  <2>2. (q \o b) \o y = q \o (b \o y)
    BY ConcatAssociative
  <2> QED BY <2>1, <2>2, Zenon
<1> QED BY <1>1, <1>2, <1>4, <1>5

\* A sequence is its head and its tail.
LEMMA HeadTailConcat ==
    ASSUME NEW P, NEW b \in Seq(P), b # <<>>
    PROVE  b = <<Head(b)>> \o Tail(b)
<1>1. PICK x \in P, t \in Seq(P) : x = Head(b) /\ t = Tail(b) /\ <<x>> \in Seq(P)
  <2>1. Head(b) \in P /\ Tail(b) \in Seq(P)
    BY HeadTailProperties
  <2>2. \A x \in P : <<x>> \in Seq(P)
    OBVIOUS
  <2> QED BY <2>1, <2>2, Zenon
<1>2. PICK u \in Seq(P) : u = <<x>> \o t
  BY <1>1, ConcatProperties
<1>3. Len(u) = Len(b) /\ \A i \in 1..Len(u) : u[i] = b[i]
  BY <1>1, <1>2
<1>4. u = b
  BY <1>3, SeqEqual
<1> QED BY <1>1, <1>2, <1>4

\* The task takes up what is at the front of its channel.
LEMMA QueueMove ==
    ASSUME NEW P, NEW a \in Seq(P), NEW b \in Seq(P), b # <<>>
    PROVE  /\ (a \o <<>>) \o b = (a \o <<Head(b)>>) \o Tail(b)
           /\ (a \o <<>>) \o b = ((a \o <<Head(b)>>) \o <<>>) \o Tail(b)
<1>1. PICK x \in P, t \in Seq(P) : x = Head(b) /\ t = Tail(b) /\ <<x>> \in Seq(P)
  <2>1. Head(b) \in P /\ Tail(b) \in Seq(P)
    BY HeadTailProperties
  <2>2. \A x \in P : <<x>> \in Seq(P)
    OBVIOUS
  <2> QED BY <2>1, <2>2, Zenon
<1>2. b = <<x>> \o t
  BY <1>1, HeadTailConcat
<1>3. a \o <<>> = a
  BY ConcatEmptySeq
<1>4. a \o (<<x>> \o t) = (a \o <<x>>) \o t
  BY <1>1, ConcatAssociative
<1>5. (a \o <<x>>) \o <<>> = a \o <<x>>
  <2>1. PICK u \in Seq(P) : u = a \o <<x>>
    BY <1>1, ConcatProperties
  <2> QED BY <2>1, ConcatEmptySeq
<1> QED BY <1>1, <1>2, <1>3, <1>4, <1>5

\* x is at the front of the queue q, before r.
Fronts(q, x, r) == q # <<>> /\ Head(q) = x /\ Tail(q) = r

\* The front of a queue leaves it.
LEMMA QueueStore ==
    ASSUME NEW P, NEW x \in P, NEW a \in Seq(P), NEW w \in Seq(P), NEW b \in Seq(P)
    PROVE  Fronts(((<<x>> \o a) \o w) \o b, x, (a \o w) \o b)
<1>q. PICK q : q = ((<<x>> \o a) \o w) \o b
  OBVIOUS
<1>1. <<x>> \in Seq(P) /\ a \o w \in Seq(P)
  BY ConcatProperties
<1>2. PICK r \in Seq(P) : r = (a \o w) \o b
  BY <1>1, ConcatProperties
<1>3. (<<x>> \o a) \o w = <<x>> \o (a \o w)
  BY <1>1, ConcatAssociative
<1>4. (<<x>> \o (a \o w)) \o b = <<x>> \o r
  BY <1>1, <1>2, ConcatAssociative
<1>5. q = <<x>> \o r
  BY <1>q, <1>3, <1>4
<1>6. PICK s \in Seq(P) : s = <<x>> \o r
  BY <1>1, ConcatProperties
<1>7. Len(s) = Len(r) + 1 /\ s[1] = x /\ \A i \in 1..Len(r) : s[i + 1] = r[i]
  BY <1>1, <1>6, ConcatProperties
<1>8. s # <<>> /\ Head(s) = x
  BY <1>7
<1>9. Tail(s) = r
  <2>1. PICK t \in Seq(P) : t = Tail(s) /\ Len(t) = Len(s) - 1
                            /\ \A i \in 1..Len(t) : t[i] = s[i + 1]
    BY <1>8, HeadTailProperties
  <2>2. Len(t) = Len(r) /\ \A i \in 1..Len(t) : t[i] = r[i]
    BY <1>7, <2>1
  <2> QED BY <2>1, <2>2, SeqEqual
<1> QED BY <1>q, <1>2, <1>5, <1>6, <1>8, <1>9 DEF Fronts

\* The call c is in the queue q, behind a and before b.
Between(q, a, c, b) ==
    \E n \in 1..Len(q) :
        /\ q[n] = c
        /\ \A m \in 1..(n - 1) : \E k \in 1..Len(a) : q[m] = a[k]
        /\ SubSeq(q, 1, n - 1) \o SubSeq(q, n + 1, Len(q)) = (a \o <<>>) \o b
        /\ SubSeq(q, n + 1, Len(q)) = b

\* A call leaves the queue, alone or with all that is before it.
LEMMA QueueRemove ==
    ASSUME NEW P, NEW a \in Seq(P), NEW c \in P, NEW b \in Seq(P)
    PROVE  Between((a \o <<c>>) \o b, a, c, b)
<1> DEFINE q == (a \o <<c>>) \o b
<1> SUFFICES Between(q, a, c, b)
  OBVIOUS
<1>0. PICK n : n = Len(a) + 1
  OBVIOUS
<1>1. <<c>> \in Seq(P) /\ Len(a) \in Nat /\ Len(b) \in Nat
  OBVIOUS
<1>2. PICK u \in Seq(P) : /\ u = a \o <<c>> /\ Len(u) = n /\ u[n] = c
                          /\ \A m \in 1..Len(a) : u[m] = a[m]
  <2>1. a \o <<c>> \in Seq(P)
    BY <1>1, ConcatProperties
  <2>2. PICK u \in Seq(P) : u = a \o <<c>>
    BY <2>1, Zenon
  <2>3. Len(u) = n /\ u[n] = c /\ \A m \in 1..Len(a) : u[m] = a[m]
    BY <1>0, <1>1, <2>2
  <2> QED BY <2>2, <2>3, Zenon
<1>3. PICK s \in Seq(P) : /\ s = u \o b /\ Len(s) = n + Len(b)
                          /\ \A m \in 1..n : s[m] = u[m]
                          /\ \A m \in 1..Len(b) : s[n + m] = b[m]
  <2>1. u \o b \in Seq(P)
    BY ConcatProperties
  <2>2. PICK s \in Seq(P) : s = u \o b
    BY <2>1, Zenon
  <2>3. /\ Len(s) = n + Len(b) /\ (\A m \in 1..n : s[m] = u[m])
        /\ \A m \in 1..Len(b) : s[n + m] = b[m]
    BY <1>0, <1>1, <1>2, <2>2
  <2> QED BY <2>2, <2>3, Zenon
<1>4. q = s
  BY <1>2, <1>3
<1>5. n \in 1..Len(s) /\ s[n] = c /\ \A m \in 1..(n - 1) : s[m] = a[m] /\ m \in 1..Len(a)
  BY <1>0, <1>1, <1>2, <1>3
<1>6. SubSeq(s, 1, n - 1) = a
  <2>1. PICK k \in 0..Len(s) : k = n - 1
    BY <1>0, <1>1, <1>3
  <2>2. PICK t \in Seq(P) : t = SubSeq(s, 1, k) /\ Len(t) = k /\ \A m \in 1..k : t[m] = s[m]
    <3>1. /\ SubSeq(s, 1, k) \in Seq(P) /\ Len(SubSeq(s, 1, k)) = k
          /\ \A m \in 1..k : SubSeq(s, 1, k)[m] = s[m]
      BY FirstLines
    <3> QED BY <3>1
  <2>3. Len(t) = Len(a) /\ \A m \in 1..Len(t) : t[m] = a[m]
    BY <1>0, <1>1, <1>5, <2>1, <2>2
  <2>4. t = a
    BY <2>3, SeqEqual
  <2> QED BY <2>1, <2>2, <2>4
<1>7. SubSeq(s, n + 1, Len(s)) = b
  <2>1. n + 1 \in Int /\ Len(s) \in Int /\ \A m \in (n + 1)..Len(s) : s[m] \in P
    BY <1>0, <1>1, <1>3
  <2>2. PICK t \in Seq(P) :
          /\ t = SubSeq(s, n + 1, Len(s))
          /\ Len(t) = IF n + 1 <= Len(s) THEN Len(s) - (n + 1) + 1 ELSE 0
          /\ \A m \in 1..(Len(s) - (n + 1) + 1) : t[m] = s[n + 1 + m - 1]
    <3>1. PICK j \in Int, k \in Int : j = n + 1 /\ k = Len(s)
      BY <2>1
    <3>2. /\ SubSeq(s, j, k) \in Seq(P)
          /\ Len(SubSeq(s, j, k)) = IF j <= k THEN k - j + 1 ELSE 0
          /\ \A m \in 1..(k - j + 1) : SubSeq(s, j, k)[m] = s[j + m - 1]
      BY <2>1, <3>1, SubSeqProperties
    <3> QED BY <3>1, <3>2
  <2>3. Len(t) = Len(b) /\ \A m \in 1..Len(t) : t[m] = b[m]
    <3>1. Len(t) = Len(b)
      BY <1>0, <1>1, <1>3, <2>2
    <3>2. \A m \in 1..Len(b) : m \in 1..(Len(s) - (n + 1) + 1) /\ n + 1 + m - 1 = n + m
      BY <1>0, <1>1, <1>3
    <3> QED BY <1>3, <2>2, <3>1, <3>2
  <2>4. t = b
    BY <2>3, SeqEqual
  <2> QED BY <2>2, <2>4
<1>8. a \o <<>> = a
  BY ConcatEmptySeq
<1>9. \A m \in 1..(n - 1) : \E k \in 1..Len(a) : s[m] = a[k]
  BY <1>5
<1> QED BY <1>4, <1>5, <1>6, <1>7, <1>8, <1>9 DEF Between

\* A step that readers and callers do not see.
LEMMA Unseen ==
    ASSUME QueueFact, QueueFact', Log(disk') = Log(disk),
           Selected(Unwritten', Items) = Selected(Unwritten, Items),
           Working' = Working, inbox' = inbox, result' = result
    PROVE  UNCHANGED Durable!vars
<1>1. StoredItems' = StoredItems /\ WaitingQueue' = WaitingQueue
  BY DEF QueueFact
<1> QED BY <1>1 DEF Durable!vars

\* A command that fails is tried again, or its caller is refused.
LEMMA Recovers ==
    ASSUME RecorderInv, QueueFact, QueueFact', Recover, pc \in WritingPCs \cup {"open"},
           Log(disk') = Log(disk), Selected(Unwritten', Items) = Selected(Unwritten, Items),
           inbox' = inbox
    PROVE  (\E c \in Calls : Durable!Refuse(c)) \/ UNCHANGED Durable!vars
<1>1. pc \notin {"recv", "stopping", "stopped", "down"} /\ command' = command
  BY DEF WritingPCs, Recover
<1>2. CASE attempt = 1
  <2>1. pc' = "open" /\ result' = result
    BY <1>2 DEF Recover
  <2>2. Working' = Working
    BY <1>1, <2>1 DEF Working
  <2> QED BY <2>1, <2>2, Unseen
<1>3. CASE attempt # 1 /\ command \notin Calls
  <2>1. result' = result /\ Working = <<>> /\ Working' = <<>>
    BY <1>1, <1>3 DEF Recover, Reply, Working
  <2> QED BY <2>1, Unseen
<1>4. CASE attempt # 1 /\ command \in Calls
  <2>1. /\ result' = [result EXCEPT ![command] = "failed"]
        /\ pc' \in {"recv", "stopping"}
    BY <1>4 DEF Recover, Reply
  <2>2. Working = <<command>> /\ Working' = <<>>
    BY <1>1, <1>4, <2>1 DEF Working
  <2>3. PICK a \in Seq(Items \cup Calls), b \in Seq(Items \cup Calls) :
          /\ a = Selected(Unwritten, Items) /\ b = inbox
          /\ WaitingQueue = (a \o <<command>>) \o b
          /\ WaitingQueue' = (a \o <<>>) \o b
    BY <2>2 DEF QueueFact
  <2>4. PICK q : q = WaitingQueue /\ q = (a \o <<command>>) \o b
    BY <2>3
  <2>5. \E n \in 1..Len(q) :
          /\ q[n] = command
          /\ SubSeq(q, 1, n - 1) \o SubSeq(q, n + 1, Len(q)) = (a \o <<>>) \o b
    <3>1. PICK c \in Items \cup Calls : c = command
      BY <1>4
    <3>2. q = (a \o <<c>>) \o b
      BY <2>4, <3>1
    <3>3. Between(q, a, c, b)
      <4>1. PICK P : P = Items \cup Calls
        OBVIOUS
      <4>2. a \in Seq(P) /\ b \in Seq(P) /\ c \in P
        BY <4>1, Zenon
      <4> QED BY <3>2, <4>2, QueueRemove
    <3> QED BY <3>1, <3>3 DEF Between
  <2>6. StoredItems' = StoredItems
    BY DEF QueueFact
  <2>7. Durable!Refuse(command)
    BY <2>1, <2>3, <2>4, <2>5, <2>6 DEF Durable!Refuse, Durable!RemoveAt
  <2> QED BY <1>4, <2>7
<1> QED BY <1>2, <1>3, <1>4

\* A step that leaves the file, the queue and the outcome alone.
LEMMA FrontSame ==
    ASSUME UNCHANGED <<disk, pending, unconfirmed>>, pc # "appended", pc' # "appended"
    PROVE  Unwritten' = Unwritten /\ Log(disk') = Log(disk)
<1>1. FrontStored' <=> FrontStored
  BY DEF FrontStored
<1> QED BY <1>1 DEF Unwritten

\* Nothing but the front of the queue is ever stored and still in the queue.
LEMMA NothingWritten ==
    ASSUME pc # "appended", unconfirmed = NoSeq
    PROVE  Unwritten = pending
  BY DEF Unwritten, FrontStored

\* An item is recorded.
LEMMA RecordAccepts ==
    ASSUME RecorderInv, QueueFact, QueueFact', NEW i \in Items, Record(i)
    PROVE  Durable!Accept(i)
<1>1. /\ UNCHANGED <<disk, pending, unconfirmed, writer, pc, command, result>>
      /\ inbox' = Append(inbox, i) /\ i \notin recorded
  BY DEF Record, disks, state, task
<1>2. Unwritten' = Unwritten /\ Working' = Working /\ Log(disk') = Log(disk)
  BY <1>1 DEF Unwritten, FrontStored, Working
<1>P. PICK P : P = Items \cup Calls
  OBVIOUS
<1>3. PICK a \in Seq(P), w \in Seq(P), b \in Seq(P) :
        /\ a = Selected(Unwritten, Items) /\ w = Working /\ b = inbox
        /\ i \in P
  BY <1>P DEF QueueFact
<1>4. WaitingQueue' = Append(WaitingQueue, i)
  <2>1. (a \o w) \o Append(b, i) = Append((a \o w) \o b, i)
    BY <1>3, QueueAppend
  <2> QED BY <1>1, <1>2, <1>3, <2>1 DEF QueueFact
<1>5. i \notin Range(StoredItems)
  <2>1. PICK s \in Seq(Words) : s = Contents(disk) /\ Len(s) = Len(disk)
                                /\ \A n \in 1..Len(disk) : s[n] \in {disk[n].what, Unread}
    BY ContentsAre DEF RecorderInv, TypeOK
  <2>2. PICK R : R = recorded \cup {Meta, Checkpoint, Unread}
    OBVIOUS
  <2>3. \A n \in 1..Len(s) : s[n] \in R
    BY <2>1, <2>2 DEF RecorderInv, HostInv
  <2>4. Selected(s, Items) \in Seq(Items \cap R)
    BY <2>3, SelectedFrom
  <2>5. PICK l \in Seq(Items \cap R) : l = StoredItems
    BY <2>1, <2>4 DEF StoredItems
  <2>6. i \notin Items \cap R
    BY <1>1, <2>2, ItemsAssumption
  <2> QED BY <2>5, <2>6 DEF Range
<1>6. i \notin Range(WaitingQueue)
  <2>1. /\ pending \in Seq(Items \cup {Meta})
        /\ \A n \in 1..Len(pending) : pending[n] \in recorded \cup {Meta}
    BY DEF RecorderInv, TypeOK, HostInv
  <2>2. PICK u \in Seq(Items \cup {Meta}) :
          u = Unwritten /\ \A n \in 1..Len(u) : u[n] \in recorded \cup {Meta}
    <3>1. FrontStored => pending # <<>>
      BY DEF FrontStored
    <3>2. pending # <<>> => /\ Tail(pending) \in Seq(Items \cup {Meta})
                            /\ \A n \in 1..Len(Tail(pending)) :
                                  Tail(pending)[n] \in recorded \cup {Meta}
      BY <2>1
    <3>3. /\ Unwritten \in Seq(Items \cup {Meta})
          /\ \A n \in 1..Len(Unwritten) : Unwritten[n] \in recorded \cup {Meta}
      BY <2>1, <3>1, <3>2, Zenon DEF Unwritten
    <3> QED BY <3>3, Zenon
  <2>3. PICK R : R = recorded \cup {Meta}
    OBVIOUS
  <2>4. Selected(u, Items) \in Seq(Items \cap R)
    BY <2>2, <2>3, SelectedFrom
  <2>5. PICK Q : Q = (Items \cap R) \cup Calls \cup recorded
    OBVIOUS
  <2>6. a \in Seq(Q)
    BY <1>3, <2>2, <2>4, <2>5
  <2>7. w \in Seq(Q)
    <3>1. <<>> \in Seq(Q) /\ \A c \in Calls : <<c>> \in Seq(Q)
      BY <2>5
    <3> QED BY <1>3, <3>1, Zenon DEF Working
  <2>8. b \in Seq(Q)
    <3>1. \A n \in 1..Len(b) : b[n] \in Q
      BY <1>3, <2>5 DEF RecorderInv, HostInv
    <3>2. Len(b) \in Nat /\ b \in [1..Len(b) -> Q]
      BY <3>1, LenProperties
    <3> QED BY <3>2, FunctionIsSeq
  <2>9. PICK q \in Seq(Q) : q = WaitingQueue
    <3>1. (a \o w) \o b \in Seq(Q)
      BY <2>6, <2>7, <2>8, ConcatProperties
    <3> QED BY <1>3, <3>1 DEF QueueFact
  <2>10. i \notin Q
    BY <1>1, <2>3, <2>5, ItemsAssumption
  <2> QED BY <2>9, <2>10 DEF Range
<1>7. StoredItems' = StoredItems
  BY <1>2 DEF QueueFact
<1> QED BY <1>1, <1>4, <1>5, <1>6, <1>7 DEF Durable!Accept, Durable!Range, Range

\* A call is made.
LEMMA CallAsks ==
    ASSUME RecorderInv, QueueFact, QueueFact', NEW c \in Calls, Call(c)
    PROVE  Durable!Ask(c)
<1>1. /\ UNCHANGED <<disk, pending, unconfirmed, writer, pc, command>>
      /\ inbox' = Append(inbox, c) /\ result[c] \in {"none", "failed"}
      /\ result' = [result EXCEPT ![c] = "waiting"]
  BY DEF Call, disks, state, task
<1>2. Unwritten' = Unwritten /\ Working' = Working /\ Log(disk') = Log(disk)
  BY <1>1 DEF Unwritten, FrontStored, Working
<1>P. PICK P : P = Items \cup Calls
  OBVIOUS
<1>3. PICK a \in Seq(P), w \in Seq(P), b \in Seq(P) :
        /\ a = Selected(Unwritten, Items) /\ w = Working /\ b = inbox
        /\ c \in P
  BY <1>P DEF QueueFact
<1>4. WaitingQueue' = Append(WaitingQueue, c)
  <2>1. (a \o w) \o Append(b, c) = Append((a \o w) \o b, c)
    BY <1>3, QueueAppend
  <2> QED BY <1>1, <1>2, <1>3, <2>1 DEF QueueFact
<1>5. StoredItems' = StoredItems
  BY <1>2 DEF QueueFact
<1> QED BY <1>1, <1>4, <1>5 DEF Durable!Ask

\* Putting an element behind a sequence, seen from its tail.
LEMMA TailAppend ==
    ASSUME NEW S, NEW s \in Seq(S), s # <<>>, NEW x \in S
    PROVE  Tail(Append(s, x)) = Tail(s) \o <<x>>
<1>1. Tail(s) \in Seq(S) /\ Append(s, x) \in Seq(S) /\ <<x>> \in Seq(S)
  OBVIOUS
<1>2. PICK t \in Seq(S), u \in Seq(S) : t = Tail(s) /\ u = Append(s, x)
  BY <1>1, Zenon
<1>3. Tail(u) \in Seq(S) /\ t \o <<x>> \in Seq(S)
  <2>1. u # <<>>
    BY <1>2
  <2> QED BY <1>1, <2>1
<1>4. PICK v \in Seq(S), w \in Seq(S) : v = Tail(u) /\ w = t \o <<x>>
  BY <1>3, Zenon
<1>5. Len(v) = Len(s) /\ \A i \in 1..Len(s) : v[i] = IF i = Len(s) THEN x ELSE s[i + 1]
  BY <1>2, <1>4
<1>6. Len(w) = Len(s) /\ \A i \in 1..Len(s) : w[i] = IF i = Len(s) THEN x ELSE s[i + 1]
  BY <1>2, <1>4
<1>7. v = w
  BY <1>5, <1>6, SeqEqual
<1> QED BY <1>2, <1>4, <1>7

\* The task takes up an item: it goes on waiting.
LEMMA RecordMoves ==
    ASSUME RecorderInv, QueueFact, QueueFact', ReceiveRecord
    PROVE  UNCHANGED Durable!vars
<1>1. /\ pc = "recv" /\ inbox # <<>> /\ Head(inbox) \in Items
      /\ inbox' = Tail(inbox) /\ pending' = Append(pending, Head(inbox))
      /\ UNCHANGED <<disk, unconfirmed, result>> /\ pc' \in {"open", "append"}
      /\ command' = Head(inbox)
  BY DEF ReceiveRecord, BeginWrite, disks
<1>2. PICK x \in Items : x = Head(inbox) /\ x \notin Calls /\ x # Meta
  BY <1>1, ItemsAssumption
<1>3. Working = <<>> /\ Working' = <<>>
  BY <1>1, <1>2 DEF Working
<1>4. pending \in Seq(Items \cup {Meta}) /\ (unconfirmed # NoSeq => pending # <<>>)
  BY <1>1 DEF RecorderInv, TypeOK, OutcomeInv
<1>5. pending # <<>> => Head(Append(pending, x)) = Head(pending)
  BY <1>4, FrontStays
<1>6. FrontStored' <=> FrontStored
  <2>1. pending' = Append(pending, x) /\ Append(pending, x) # <<>>
    BY <1>1, <1>2, <1>4
  <2> QED BY <1>1, <1>4, <1>5, <2>1 DEF FrontStored
<1>7. Unwritten' = Unwritten \o <<x>>
  <2>1. CASE FrontStored
    <3>1. pending # <<>>
      BY <2>1 DEF FrontStored
    <3>2. Tail(Append(pending, x)) = Tail(pending) \o <<x>>
      BY <1>4, <3>1, TailAppend
    <3> QED BY <1>1, <1>2, <1>6, <2>1, <3>2 DEF Unwritten
  <2>2. CASE ~FrontStored
    <3>1. Append(pending, x) = pending \o <<x>>
      BY <1>4, AppendIsConcat
    <3> QED BY <1>1, <1>2, <1>6, <2>2, <3>1 DEF Unwritten
  <2> QED BY <2>1, <2>2
<1>8. PICK u \in Seq(Items \cup {Meta}) : u = Unwritten
  BY DEF QueueFact
<1>9. Selected(Unwritten', Items) = Selected(Unwritten, Items) \o <<x>>
  <2>S. PICK S : S = Items \cup {Meta}
    OBVIOUS
  <2>1. PICK y \in S : u \in Seq(S) /\ y = x
    BY <1>2, <1>8, <2>S
  <2>2. Selected(u \o <<y>>, Items) =
          IF y \in Items THEN Selected(u, Items) \o <<y>> ELSE Selected(u, Items)
    BY <2>1, SelectedAppend, Zenon
  <2> QED BY <1>2, <1>7, <1>8, <2>1, <2>2
<1>P. PICK P : P = Items \cup Calls
  OBVIOUS
<1>10. PICK a \in Seq(P), b \in Seq(P) : a = Selected(Unwritten, Items) /\ b = inbox
  BY <1>P DEF QueueFact
<1>11. (a \o <<>>) \o b = ((a \o <<Head(b)>>) \o <<>>) \o Tail(b)
  BY <1>1, <1>10, QueueMove, Zenon
<1>12. WaitingQueue' = WaitingQueue
  BY <1>1, <1>2, <1>3, <1>9, <1>10, <1>11 DEF QueueFact
<1>13. StoredItems' = StoredItems
  BY <1>1 DEF QueueFact
<1> QED BY <1>1, <1>12, <1>13 DEF Durable!vars

\* A queue with nothing to write in it.
LEMMA QueueFront ==
    ASSUME NEW P, NEW b \in Seq(P)
    PROVE  /\ (<<>> \o <<>>) \o b = b
           /\ \A c \in P : \A q : q = (<<>> \o <<c>>) \o b => q # <<>> /\ Head(q) = c /\ Tail(q) = b
<1>1. <<>> \in Seq(P) /\ <<>> \o b = b
  BY ConcatEmptySeq
<1>2. <<>> \o <<>> = <<>>
  BY <1>1, ConcatEmptySeq
<1>3. ASSUME NEW c \in P, NEW q, q = (<<>> \o <<c>>) \o b
      PROVE  q # <<>> /\ Head(q) = c /\ Tail(q) = b
  <2>1. <<c>> \in Seq(P)
    OBVIOUS
  <2>2. <<>> \o <<c>> = <<c>> /\ <<c>> \o <<>> = <<c>>
    BY <2>1, ConcatEmptySeq
  <2>3. q = ((<<c>> \o <<>>) \o <<>>) \o b
    BY <1>3, <2>2
  <2>4. Fronts(q, c, (<<>> \o <<>>) \o b)
    BY <1>1, <2>3, QueueStore
  <2> QED BY <1>1, <1>2, <2>4 DEF Fronts
<1> QED BY <1>1, <1>2, <1>3

\* Nothing is left to write.
LEMMA NoneUnwritten ==
    ASSUME pending = <<>>
    PROVE  Unwritten = <<>> /\ Selected(Unwritten, Items) = <<>>
<1>1. Unwritten = <<>>
  BY DEF Unwritten, FrontStored
<1> QED BY <1>1, SelectedEmpty

\* ... after a step.
LEMMA NoneUnwrittenNext ==
    ASSUME pending' = <<>>
    PROVE  Unwritten' = <<>> /\ Selected(Unwritten', Items) = <<>>
<1>1. Unwritten' = <<>>
  BY DEF Unwritten, FrontStored
<1> QED BY <1>1, SelectedEmpty

\* The task takes up a barrier: it is answered at once, or goes on waiting.
LEMMA BarrierMoves ==
    ASSUME RecorderInv, QueueFact, QueueFact', ReceiveBarrier
    PROVE  Durable!Answer \/ UNCHANGED Durable!vars
<1>1. /\ pc = "recv" /\ inbox # <<>> /\ Head(inbox) \in Calls /\ inbox' = Tail(inbox)
      /\ UNCHANGED <<disk, pending, unconfirmed>>
      /\ pc' \in {"recv", "stopping", "open", "append"}
  BY DEF ReceiveBarrier, BeginWrite, Reply, disks, state
<1>2. Working = <<>> /\ Unwritten' = Unwritten /\ Log(disk') = Log(disk)
  BY <1>1, FrontSame DEF Working
<1>P. PICK P : P = Items \cup Calls
  OBVIOUS
<1>3. PICK a \in Seq(P), b \in Seq(P) : a = Selected(Unwritten, Items) /\ b = inbox
  BY <1>P DEF QueueFact
<1>4. StoredItems' = StoredItems
  BY <1>2 DEF QueueFact
<1>5. CASE NothingToWrite(Head(inbox)) /\ Reply(Head(inbox), "ok")
  <2>1. pending = <<>> /\ pc' \in {"recv", "stopping"}
    BY <1>5 DEF NothingToWrite, Reply
  <2>2. result' = [result EXCEPT ![Head(inbox)] = "ok"]
    BY <1>1, <1>5 DEF Reply
  <2>3. Selected(Unwritten, Items) = <<>> /\ Working' = <<>>
    BY <2>1, NoneUnwritten DEF Working
  <2>4. (<<>> \o <<>>) \o b = b
    BY QueueFront
  <2>5. WaitingQueue = inbox
    BY <1>2, <1>3, <2>3, <2>4 DEF QueueFact
  <2>6. Tail(b) \in Seq(P)
    BY <1>1, <1>3
  <2>7. PICK t \in Seq(P) : t = Tail(b)
    BY <2>6, Zenon
  <2>8. (<<>> \o <<>>) \o t = t
    BY QueueFront
  <2>9. WaitingQueue' = Tail(inbox)
    BY <1>1, <1>2, <1>3, <2>3, <2>7, <2>8 DEF QueueFact
  <2> QED BY <1>1, <1>4, <2>2, <2>5, <2>9 DEF Durable!Answer
<1>6. CASE BeginWrite(Head(inbox)) /\ result' = result
  <2>1. Working' = <<Head(inbox)>>
    BY <1>1, <1>6 DEF BeginWrite, Working
  <2>2. (a \o <<>>) \o b = (a \o <<Head(b)>>) \o Tail(b)
    BY <1>1, <1>3, QueueMove
  <2>3. WaitingQueue' = WaitingQueue
    BY <1>1, <1>2, <1>3, <2>1, <2>2 DEF QueueFact
  <2> QED BY <1>4, <1>6, <2>3 DEF Durable!vars
<1> QED BY <1>5, <1>6 DEF ReceiveBarrier

\* The task takes up a discard: what it was asked to give up is gone.
LEMMA DiscardGivesUp ==
    ASSUME RecorderInv, QueueFact, QueueFact', ReceiveDiscard
    PROVE  \E c \in Calls : Durable!Discard(c)
<1>1. /\ pc = "recv" /\ inbox # <<>> /\ Head(inbox) \in Calls /\ inbox' = Tail(inbox)
      /\ disk' = disk /\ pending' = <<>> /\ pc' = "stopping"
      /\ result' = [result EXCEPT ![Head(inbox)] = "discarded"]
  BY DEF ReceiveDiscard, disks
<1>2. Working = <<>> /\ Working' = <<>> /\ Selected(Unwritten', Items) = <<>>
  BY <1>1, NoneUnwrittenNext DEF Working
<1>P. PICK P : P = Items \cup Calls
  OBVIOUS
<1>3. PICK a \in Seq(P), b \in Seq(P) :
        a = Selected(Unwritten, Items) /\ b = inbox /\ a \in Seq(Items)
  BY <1>P DEF QueueFact
<1>4. Tail(b) \in Seq(P) /\ Head(b) \in P
  BY <1>1, <1>3
<1>5. PICK t \in Seq(P), c \in P : t = Tail(b) /\ c = Head(b)
  BY <1>4, Zenon
<1>6. PICK q : q = WaitingQueue /\ q = (a \o <<c>>) \o t
  <2>1. (a \o <<>>) \o b = (a \o <<Head(b)>>) \o Tail(b)
    BY <1>1, <1>3, QueueMove
  <2> QED BY <1>2, <1>3, <1>5, <2>1 DEF QueueFact
<1>7. Between(q, a, c, t)
  BY <1>6, QueueRemove
<1>8. WaitingQueue' = t
  <2>1. (<<>> \o <<>>) \o t = t
    BY QueueFront
  <2> QED BY <1>1, <1>2, <1>3, <1>5, <2>1 DEF QueueFact
<1>9. PICK n \in 1..Len(q) : /\ q[n] = c /\ SubSeq(q, n + 1, Len(q)) = t
                             /\ \A m \in 1..(n - 1) : q[m] \in Items
  <2>1. \A k \in 1..Len(a) : a[k] \in Items
    BY <1>3, ElementOfSeq
  <2>2. PICK n \in 1..Len(q) : /\ q[n] = c /\ SubSeq(q, n + 1, Len(q)) = t
                               /\ \A m \in 1..(n - 1) : \E k \in 1..Len(a) : q[m] = a[k]
    BY <1>7, Zenon DEF Between
  <2> QED BY <2>1, <2>2
<1>10. StoredItems' = StoredItems
  BY <1>1 DEF QueueFact
<1>11. Durable!Discard(c)
  BY <1>1, <1>3, <1>5, <1>6, <1>8, <1>9, <1>10 DEF Durable!Discard
<1> QED BY <1>1, <1>3, <1>5, <1>11

\* The steps that touch neither the file nor the queue.
LEMMA QuietSteps ==
    ASSUME RecorderInv, QueueFact, QueueFact',
           DropHandles \/ ReceiveNone \/ CheckpointFails \/ CreateThread
    PROVE  UNCHANGED Durable!vars
<1>1. ASSUME DropHandles PROVE UNCHANGED Durable!vars
  <2>1. UNCHANGED <<disk, pending, unconfirmed, writer, pc, command, inbox, result>>
    BY <1>1 DEF DropHandles, disks, state, task
  <2>2. Unwritten' = Unwritten /\ Working' = Working
    BY <2>1 DEF Unwritten, FrontStored, Working
  <2> QED BY <2>1, <2>2, Unseen
<1>2. ASSUME ReceiveNone PROVE UNCHANGED Durable!vars
  <2>1. /\ UNCHANGED <<disk, pending, unconfirmed, inbox, result>>
        /\ pc = "recv" /\ pc' # "appended"
        /\ pc' = "stopping" \/ command' = LastAttempt
    BY <1>2 DEF ReceiveNone, BeginWrite, disks, hosts
  <2>2. Working = <<>> /\ Working' = <<>>
    BY <2>1, ItemsAssumption DEF Working
  <2>3. Unwritten' = Unwritten
    BY <2>1, FrontSame
  <2> QED BY <2>1, <2>2, <2>3, Unseen
<1>3. ASSUME CheckpointFails PROVE UNCHANGED Durable!vars
  <2>1. /\ UNCHANGED <<disk, pending, unconfirmed, inbox, result, command>>
        /\ pc = "checkpointed" /\ pc' = "append"
    BY <1>3 DEF CheckpointFails, disks, hosts
  <2>2. Working' = Working /\ Unwritten' = Unwritten
    BY <2>1, FrontSame DEF Working
  <2> QED BY <2>1, <2>2, Unseen
<1>4. ASSUME CreateThread PROVE UNCHANGED Durable!vars
  <2>1. /\ UNCHANGED <<disk, result>> /\ pc \in {"stopped", "down"} /\ pc' = "recv"
        /\ pending' = <<>> /\ inbox' = <<>>
    BY <1>4 DEF CreateThread, disks
  <2>2. pending = <<>> /\ inbox = <<>>
    BY <2>1 DEF RecorderInv, HostInv
  <2>3. Working' = Working /\ Selected(Unwritten', Items) = Selected(Unwritten, Items)
    BY <2>1, <2>2, NoneUnwritten, NoneUnwrittenNext DEF Working
  <2> QED BY <2>1, <2>2, <2>3, Unseen
<1> QED BY <1>1, <1>2, <1>3, <1>4

\* Opening the file leaves alone what is in it and what waits for it.
LEMMA RepairSame ==
    ASSUME RecorderInv, FrontFact, FrontFact', disk' = disk \/ Repairs(disk', disk),
           UNCHANGED <<pending, unconfirmed>>, pc # "appended", pc' # "appended"
    PROVE  Log(disk') = Log(disk) /\ Unwritten' = Unwritten
<1>1. CASE disk' = disk
  BY <1>1, FrontSame
<1>2. CASE Repairs(disk', disk)
  <2>1. PICK d : d = disk'
    OBVIOUS
  <2>2. Sound(disk)
    BY DEF RecorderInv, FileInv
  <2>3. /\ Log(d) = Log(disk)
        /\ \A seq \in Nat : \A x : Uncertain(disk, seq, x) =>
              (Present(d, seq) <=> Present(disk, seq))
    BY <1>2, <2>1, <2>2, LogRepairs
  <2>4. unconfirmed # NoSeq /\ pending # <<>> =>
          (Present(d, unconfirmed) <=> Present(disk, unconfirmed))
    <3>1. unconfirmed # NoSeq /\ pending # <<>> =>
            unconfirmed \in Nat /\ Uncertain(disk, unconfirmed, Head(pending))
      BY DEF RecorderInv, TypeOK, OutcomeInv
    <3> QED BY <2>3, <3>1
  <2>5. FrontStored' <=> FrontStored
    BY <2>1, <2>4 DEF FrontFact
  <2> QED BY <2>1, <2>3, <2>5 DEF Unwritten
<1> QED BY <1>1, <1>2

\* A file is opened, for a queue that waits or by a session that is resumed.
LEMMA OpenUnseen ==
    ASSUME RecorderInv, FrontFact, FrontFact', QueueFact, QueueFact',
           OpenRollout \/ ResumeThread
    PROVE  UNCHANGED Durable!vars
<1>1. Repairs(disk', disk)
  BY OpenKnows
<1>2. ASSUME OpenRollout PROVE UNCHANGED Durable!vars
  <2>1. /\ pc = "open" /\ pc' = "settle"
        /\ UNCHANGED <<pending, unconfirmed, command, inbox, result>>
    BY <1>2 DEF OpenRollout, hosts
  <2>2. Log(disk') = Log(disk) /\ Unwritten' = Unwritten /\ Working' = Working
    BY <1>1, <2>1, RepairSame DEF Working
  <2> QED BY <2>1, <2>2, Unseen
<1>3. ASSUME ResumeThread PROVE UNCHANGED Durable!vars
  <2>1. /\ result' = result /\ pc \in {"stopped", "down"} /\ pc' = "recv"
        /\ pending' = <<>> /\ inbox' = <<>>
    BY <1>3 DEF ResumeThread
  <2>2. pending = <<>> /\ inbox = <<>> /\ Sound(disk)
    BY <2>1 DEF RecorderInv, HostInv, FileInv
  <2>3. PICK d : d = disk' /\ Repairs(d, disk)
    BY <1>1
  <2>4. Log(d) = Log(disk)
    BY <2>2, <2>3, LogRepairs
  <2>5. Working' = Working /\ Selected(Unwritten', Items) = Selected(Unwritten, Items)
    BY <2>1, <2>2, NoneUnwritten, NoneUnwrittenNext DEF Working
  <2> QED BY <2>1, <2>2, <2>3, <2>4, <2>5, Unseen
<1> QED BY <1>2, <1>3

\* The task finds out what became of its last write, and queues the metadata.
LEMMA SettleUnseen ==
    ASSUME RecorderInv, FrontFact, QueueFact, QueueFact', SettleUnconfirmed
    PROVE  UNCHANGED Durable!vars
<1>1. /\ pc = "settle" /\ pc' = "append" /\ unconfirmed' = NoSeq
      /\ UNCHANGED <<disk, writer, command, inbox, result>>
  BY DEF SettleUnconfirmed, disks, hosts
<1>2. /\ disk \in Seq(Lines) /\ Len(disk) \in Nat /\ writer.nextSeq \in Nat
      /\ unconfirmed \in Nat \cup {NoSeq} /\ pending \in Seq(Items \cup {Meta})
  BY DEF RecorderInv, TypeOK
<1>3. Len(disk) = writer.nextSeq
  <2>1. writer.open /\ ~writer.poisoned
    BY <1>1 DEF RecorderInv, WriterInv, WritingPCs
  <2>2. ~(Len(disk) > writer.nextSeq) /\ Follows(writer, disk)
    BY <1>1, <2>1 DEF RecorderInv, WriterInv
  <2> QED BY <1>2, <2>2 DEF Follows
<1>4. Landed <=> FrontStored
  <2>1. FrontStored => Len(disk) > unconfirmed
    BY <1>1 DEF FrontFact, Present
  <2> QED BY <1>1, <1>3, <2>1 DEF Landed, FrontStored
<1>5. Unwritten' = pending'
  <2>1. ~FrontStored'
    BY <1>1 DEF FrontStored
  <2> QED BY <2>1 DEF Unwritten
<1>6. PICK u \in Seq(Items \cup {Meta}) : u = Unwritten
  BY DEF QueueFact
<1>7. pending' = <<Meta>> \o u \/ pending' = u
  BY <1>4, <1>6 DEF SettleUnconfirmed, Unwritten
<1>8. Selected(<<Meta>> \o u, Items) = Selected(u, Items)
  <2>1. PICK S : S = Items \cup {Meta}
    OBVIOUS
  <2>2. u \in Seq(S) /\ Meta \in S
    BY <1>6, <2>1
  <2>3. Selected(<<Meta>> \o u, Items) =
          (IF Meta \in Items THEN <<Meta>> ELSE <<>>) \o Selected(u, Items)
    BY <2>2, SelectedPrepend
  <2>4. Meta \notin Items
    BY ItemsAssumption
  <2>5. PICK s \in Seq(Items) : s = Selected(u, Items)
    BY <1>6 DEF QueueFact
  <2>6. <<>> \o s = s
    BY ConcatEmptySeq
  <2> QED BY <2>3, <2>4, <2>5, <2>6
<1>9. Selected(Unwritten', Items) = Selected(Unwritten, Items)
  BY <1>5, <1>6, <1>7, <1>8
<1>10. Working' = Working
  BY <1>1 DEF Working
<1> QED BY <1>1, <1>9, <1>10, Unseen

\* An attempt fails: it is made again, or the caller is refused.
LEMMA FailureRefuses ==
    ASSUME RecorderInv, FrontFact, FrontFact', QueueFact, QueueFact',
           \/ OpenFails \/ SettleFails \/ AppendPoisoned \/ FlushFails \/ AppendFails
    PROVE  (\E c \in Calls : Durable!Refuse(c)) \/ UNCHANGED Durable!vars
<1>1. /\ Recover /\ UNCHANGED <<pending, inbox>> /\ pc \in WritingPCs \cup {"open"}
  BY DEF OpenFails, SettleFails, AppendPoisoned, FlushFails, AppendFails, WritingPCs
<1>2. pc' \in {"open", "recv", "stopping"}
  BY <1>1 DEF Recover, Reply
<1>3. ASSUME SettleFails \/ AppendPoisoned \/ FlushFails
      PROVE  Log(disk') = Log(disk) /\ Unwritten' = Unwritten
  <2>1. UNCHANGED <<disk, pending, unconfirmed>> /\ pc # "appended"
    BY <1>3 DEF SettleFails, AppendPoisoned, FlushFails, disks
  <2> QED BY <1>2, <2>1, FrontSame
<1>4. ASSUME OpenFails PROVE Log(disk') = Log(disk) /\ Unwritten' = Unwritten
  <2>1. UNCHANGED <<pending, unconfirmed>> /\ pc # "appended"
    BY <1>4 DEF OpenFails
  <2>2. disk' = disk \/ Repairs(disk', disk)
    BY <1>4, OpenLeaves
  <2> QED BY <1>2, <2>1, <2>2, RepairSame
<1>5. ASSUME AppendFails PROVE Log(disk') = Log(disk) /\ Unwritten' = Unwritten
  <2>1. UNCHANGED <<disk, pending>> /\ unconfirmed' = writer.nextSeq /\ pc = "appended"
    BY <1>5 DEF AppendFails, disks
  <2>2. unconfirmed = NoSeq /\ writer.nextSeq \in Nat /\ NoSeq \notin Nat
    BY <2>1 DEF RecorderInv, OutcomeInv, TypeOK, NoSeq
  <2>3. FrontStored' <=> FrontStored
    BY <1>2, <2>1, <2>2 DEF FrontStored
  <2> QED BY <2>1, <2>3 DEF Unwritten
<1>6. Log(disk') = Log(disk) /\ Unwritten' = Unwritten
  BY <1>3, <1>4, <1>5
<1> QED BY <1>1, <1>6, Recovers

\* The front of the queue comes to be stored: it is the oldest item that waits, or
\* the metadata, which no host waits for.
LEMMA FrontLands ==
    ASSUME RecorderInv, QueueFact, QueueFact', pending # <<>>, NEW x, x = Head(pending),
           Unwritten = pending, Unwritten' = Tail(pending),
           Working' = Working, inbox' = inbox, result' = result,
           Log(disk') = IF x \in Items THEN Append(Log(disk), x) ELSE Log(disk)
    PROVE  Durable!Store \/ UNCHANGED Durable!vars
<1>S. PICK S : S = Items \cup {Meta}
  OBVIOUS
<1>1. PICK p \in Seq(S) : p = pending
  BY <1>S DEF RecorderInv, TypeOK
<1>2. Tail(p) \in Seq(S) /\ x \in S
  BY <1>1
<1>3. PICK t \in Seq(S) : t = Tail(p) /\ x \in S
  BY <1>2, Zenon
<1>4. p = <<x>> \o t
  <2>1. p = <<Head(p)>> \o Tail(p)
    BY <1>1, HeadTailConcat
  <2> QED BY <1>1, <1>3, <2>1
<1>5. Selected(p, Items) = (IF x \in Items THEN <<x>> ELSE <<>>) \o Selected(t, Items)
  <2>1. PICK y \in S : y = x
    BY <1>3, Zenon
  <2>2. Selected(<<y>> \o t, Items) = (IF y \in Items THEN <<y>> ELSE <<>>) \o Selected(t, Items)
    BY SelectedPrepend
  <2> QED BY <1>4, <2>1, <2>2, Zenon
<1>P. PICK P : P = Items \cup Calls
  OBVIOUS
<1>6. PICK a \in Seq(P), w \in Seq(P), b \in Seq(P) :
        a = Selected(t, Items) /\ w = Working /\ b = inbox
  BY <1>1, <1>3, <1>P DEF QueueFact
<1>7. WaitingQueue' = (a \o w) \o b
  BY <1>1, <1>3, <1>6 DEF QueueFact
<1>8. CASE x \in Items
  <2>1. PICK q : q = WaitingQueue /\ q = ((<<x>> \o a) \o w) \o b
    BY <1>1, <1>5, <1>6, <1>8 DEF QueueFact
  <2>2. PICK y \in P : y = x
    BY <1>8, <1>P
  <2>3. q # <<>> /\ Head(q) = x /\ Tail(q) = (a \o w) \o b
    <3>1. q = ((<<y>> \o a) \o w) \o b
      BY <2>1, <2>2, Zenon
    <3>2. Fronts(q, y, (a \o w) \o b)
      BY <3>1, QueueStore
    <3> QED BY <2>2, <3>2, Zenon DEF Fronts
  <2>4. StoredItems' = Append(StoredItems, x)
    BY <1>8 DEF QueueFact
  <2> QED BY <1>7, <1>8, <2>1, <2>3, <2>4 DEF Durable!Store
<1>9. CASE x \notin Items
  <2>1. <<>> \o a = a
    BY ConcatEmptySeq
  <2>2. Selected(Unwritten', Items) = Selected(Unwritten, Items)
    BY <1>1, <1>3, <1>5, <1>6, <1>9, <2>1
  <2> QED BY <1>9, <2>2, Unseen
<1> QED BY <1>8, <1>9

\* A write puts the front of the queue in the file.
LEMMA AppendStores ==
    ASSUME RecorderInv, FrontFact, FrontFact', QueueFact, QueueFact', AppendFront
    PROVE  Durable!Store \/ UNCHANGED Durable!vars
<1>1. /\ pc = "append" /\ pending # <<>> /\ ~writer.poisoned /\ pc' = "appended"
      /\ UNCHANGED <<pending, unconfirmed, writer, command, inbox, result>>
  BY DEF AppendFront, state, hosts
<1>2. unconfirmed = NoSeq /\ writer.open /\ disk \in Seq(Lines) /\ Len(disk) \in Nat
  BY <1>1 DEF RecorderInv, OutcomeInv, WriterInv, WritingPCs, TypeOK
<1>3. Unwritten = pending /\ Working' = Working
  BY <1>1, <1>2, NothingWritten DEF Working
<1>4. ~(Len(disk) > writer.nextSeq)
  BY <1>1, <1>2 DEF RecorderInv, WriterInv
<1>5. ~Present(disk, writer.nextSeq)
  BY <1>4 DEF Present
<1>6. PICK d, x : d = disk' /\ x = Head(pending) /\ (d = disk \/ Writes(d, x))
  BY FrontWritten
<1>7. FrontStored' <=> Present(d, writer.nextSeq)
  BY <1>1, <1>6 DEF FrontFact
<1>8. CASE d = disk
  <2>1. Unwritten' = pending
    BY <1>1, <1>5, <1>7, <1>8 DEF Unwritten
  <2> QED BY <1>1, <1>3, <1>6, <1>8, <2>1, Unseen
<1>9. CASE Writes(d, x)
  <2>1. /\ Log(disk) \in Seq(Items)
        /\ Log(d) = IF Present(d, writer.nextSeq) /\ x \in Items
                    THEN Append(Log(disk), x) ELSE Log(disk)
    <3>1. PICK l \in Seq(Items) :
            /\ Log(disk) = IF Present(disk, writer.nextSeq) /\ x \in Items
                           THEN Append(l, x) ELSE l
            /\ Log(d) = IF Present(d, writer.nextSeq) /\ x \in Items THEN Append(l, x) ELSE l
      BY <1>2, <1>4, <1>9, LogWrites
    <3> QED BY <1>5, <3>1
  <2>2. CASE FrontStored'
    <3>1. Unwritten' = Tail(pending)
      BY <1>1, <2>2 DEF Unwritten
    <3>2. Log(disk') = IF x \in Items THEN Append(Log(disk), x) ELSE Log(disk)
      BY <1>6, <1>7, <2>1, <2>2
    <3> QED BY <1>1, <1>3, <1>6, <3>1, <3>2, FrontLands
  <2>3. CASE ~FrontStored'
    <3>1. Unwritten' = Unwritten /\ Log(disk') = Log(disk)
      BY <1>1, <1>3, <1>6, <1>7, <2>1, <2>3 DEF Unwritten
    <3> QED BY <1>1, <1>3, <3>1, Unseen
  <2> QED BY <2>2, <2>3
<1> QED BY <1>6, <1>8, <1>9

\* A write succeeds: its item is stored by now, if it was not before.
LEMMA AppendDoneStores ==
    ASSUME RecorderInv, FrontFact, QueueFact, QueueFact', AppendDone
    PROVE  Durable!Store \/ UNCHANGED Durable!vars
<1>1. /\ pc = "appended" /\ pc' \in {"checkpoint", "append"} /\ pending' = Tail(pending)
      /\ UNCHANGED <<unconfirmed, command, inbox, result>>
  BY DEF AppendDone, hosts
<1>2. unconfirmed = NoSeq /\ writer.open /\ ~writer.poisoned /\ pending # <<>>
  BY <1>1 DEF RecorderInv, OutcomeInv, WriterInv, WritingPCs
<1>3. Unwritten' = Tail(pending) /\ Working' = Working
  <2>1. ~FrontStored'
    BY <1>1, <1>2 DEF FrontStored
  <2> QED BY <1>1, <2>1 DEF Unwritten, Working
<1>4. PICK d, x : d = disk' /\ x = Head(pending) /\ Writes(d, x) /\ d[Len(d)].form = "full"
  BY FrontWritten
<1>5. Present(d, writer.nextSeq)
  <2>1. Len(d) > writer.nextSeq
    BY <1>4 DEF Writes, RecorderInv, TypeOK
  <2> QED BY <1>4, <2>1 DEF Present, Parses
<1>6. FrontStored <=> Present(disk, writer.nextSeq)
  BY <1>1 DEF FrontFact
<1>7. PICK l \in Seq(Items) :
        /\ Log(disk) = IF Present(disk, writer.nextSeq) /\ x \in Items THEN Append(l, x) ELSE l
        /\ Log(d) = IF Present(d, writer.nextSeq) /\ x \in Items THEN Append(l, x) ELSE l
  <2>1. Len(disk) > writer.nextSeq => disk[Len(disk)].what = x
    BY <1>1, <1>2, <1>4 DEF RecorderInv, WriterInv
  <2> QED BY <1>2, <1>4, <2>1, LogWrites
<1>8. CASE FrontStored
  <2>1. Unwritten' = Unwritten
    BY <1>3, <1>8 DEF Unwritten
  <2>2. Log(disk') = Log(disk)
    BY <1>4, <1>5, <1>6, <1>7, <1>8
  <2> QED BY <1>1, <1>3, <2>1, <2>2, Unseen
<1>9. CASE ~FrontStored
  <2>1. Unwritten = pending
    BY <1>9 DEF Unwritten
  <2>2. Log(disk') = IF x \in Items THEN Append(Log(disk), x) ELSE Log(disk)
    BY <1>4, <1>5, <1>6, <1>7, <1>9
  <2> QED BY <1>1, <1>2, <1>3, <1>4, <2>1, <2>2, FrontLands
<1> QED BY <1>8, <1>9

\* Readers do not see a checkpoint.
LEMMA CheckpointUnseen ==
    ASSUME RecorderInv, QueueFact, QueueFact', WriteCheckpoint \/ CheckpointDone
    PROVE  UNCHANGED Durable!vars
<1>1. /\ pc \in {"checkpoint", "checkpointed"} /\ pc' \in {"checkpointed", "append"}
      /\ UNCHANGED <<pending, unconfirmed, command, inbox, result>>
  BY DEF WriteCheckpoint, CheckpointDone, state, hosts
<1>2. unconfirmed = NoSeq /\ writer.open /\ ~writer.poisoned
  BY <1>1 DEF RecorderInv, OutcomeInv, WriterInv, WritingPCs
<1>3. Unwritten = pending /\ Unwritten' = pending
  <2>1. ~FrontStored /\ ~FrontStored'
    BY <1>1, <1>2 DEF FrontStored
  <2> QED BY <1>1, <2>1 DEF Unwritten
<1>4. Working' = Working
  BY <1>1 DEF Working
<1>5. PICK d, x : d = disk' /\ x = Checkpoint /\ (d = disk \/ Writes(d, x))
  BY FrontWritten
<1>6. Log(d) = Log(disk)
  <2>1. Len(disk) > writer.nextSeq => disk[Len(disk)].what = x
    BY <1>1, <1>2, <1>5 DEF RecorderInv, WriterInv
  <2>2. x \notin Items
    BY <1>5, ItemsAssumption
  <2>3. CASE Writes(d, x)
    BY <1>2, <2>1, <2>2, <2>3, LogWrites
  <2> QED BY <1>5, <2>3
<1> QED BY <1>1, <1>3, <1>4, <1>5, <1>6, Unseen

\* The queue is drained: a barrier is answered, with nothing before it left to store.
LEMMA DrainedAnswers ==
    ASSUME RecorderInv, QueueFact, QueueFact', Drained
    PROVE  Durable!Answer \/ UNCHANGED Durable!vars
<1>1. /\ pc = "append" /\ pending = <<>> /\ pending' = <<>> /\ disk' = disk
      /\ UNCHANGED <<command, inbox>> /\ pc' \in {"recv", "stopping"}
      /\ result' = IF command \in Calls THEN [result EXCEPT ![command] = "ok"] ELSE result
  BY DEF Drained, Reply
<1>2. Selected(Unwritten, Items) = <<>> /\ Selected(Unwritten', Items) = <<>>
  BY <1>1, NoneUnwritten, NoneUnwrittenNext
<1>3. CASE command \notin Calls
  <2>1. Working = <<>> /\ Working' = <<>> /\ result' = result
    BY <1>1, <1>3 DEF Working
  <2> QED BY <1>1, <1>2, <2>1, Unseen
<1>4. CASE command \in Calls
  <2>1. Working = <<command>> /\ Working' = <<>>
    BY <1>1, <1>4 DEF Working
  <2>P. PICK P : P = Items \cup Calls
    OBVIOUS
  <2>2. PICK b \in Seq(P), c \in P :
          b = inbox /\ c = command /\ WaitingQueue = (<<>> \o <<c>>) \o b
    BY <1>2, <1>4, <2>1, <2>P DEF QueueFact
  <2>6. PICK q : q = WaitingQueue /\ q = (<<>> \o <<c>>) \o b
    BY <2>2
  <2>3. q # <<>> /\ Head(q) = c /\ Tail(q) = b
    BY <2>6, QueueFront
  <2>4. WaitingQueue' = b
    <3>1. (<<>> \o <<>>) \o b = b
      BY QueueFront
    <3> QED BY <1>1, <1>2, <2>1, <2>2, <3>1 DEF QueueFact
  <2>5. StoredItems' = StoredItems
    BY <1>1 DEF QueueFact
  <2> QED BY <1>1, <1>4, <2>2, <2>3, <2>4, <2>5, <2>6 DEF Durable!Answer
<1> QED BY <1>3, <1>4

\* The task returns or its process dies: what waits is lost, what is stored is not.
LEMMA EndLoses ==
    ASSUME RecorderInv, QueueFact, QueueFact', Stop \/ Crash
    PROVE  Durable!Lose
<1>1. /\ disk' = disk /\ pending' = <<>> /\ inbox' = <<>> /\ pc' \in {"stopped", "down"}
      /\ \A c \in Calls : IF result[c] = "waiting"
                          THEN result'[c] \in {"failed", "discarded"}
                          ELSE result'[c] = result[c]
  BY DEF Stop, Crash, disks
<1>2. Selected(Unwritten', Items) = <<>> /\ Working' = <<>>
  BY <1>1, NoneUnwrittenNext DEF Working
<1>3. WaitingQueue' = <<>>
  <2>1. PICK b \in Seq(Items \cup Calls) : b = <<>>
    <3>1. <<>> \in Seq(Items \cup Calls)
      OBVIOUS
    <3> QED BY <3>1, Zenon
  <2>2. (<<>> \o <<>>) \o b = b
    BY QueueFront
  <2> QED BY <1>1, <1>2, <2>1, <2>2 DEF QueueFact
<1>4. StoredItems' = StoredItems
  BY <1>1 DEF QueueFact
<1> QED BY <1>1, <1>3, <1>4 DEF Durable!Lose

\* Every step of the recorder is a step of the log, or one its users do not see.
LEMMA LogStep ==
    ASSUME RecorderInv, FrontFact, FrontFact', QueueFact, QueueFact', [Next]_vars
    PROVE  [Durable!Next]_(Durable!vars)
<1>1. ASSUME NEW i \in Items, Record(i) PROVE Durable!Next
  BY <1>1, RecordAccepts DEF Durable!Next
<1>2. ASSUME NEW c \in Calls, Call(c) PROVE Durable!Next
  BY <1>2, CallAsks DEF Durable!Next
<1>3. ASSUME DropHandles \/ ReceiveNone \/ CheckpointFails \/ CreateThread
      PROVE  UNCHANGED Durable!vars
  BY <1>3, QuietSteps
<1>4. ASSUME ReceiveRecord PROVE UNCHANGED Durable!vars
  BY <1>4, RecordMoves
<1>5. ASSUME ReceiveBarrier PROVE Durable!Next \/ UNCHANGED Durable!vars
  BY <1>5, BarrierMoves DEF Durable!Next
<1>6. ASSUME ReceiveDiscard PROVE Durable!Next
  BY <1>6, DiscardGivesUp DEF Durable!Next
<1>7. ASSUME OpenRollout \/ ResumeThread PROVE UNCHANGED Durable!vars
  BY <1>7, OpenUnseen
<1>8. ASSUME SettleUnconfirmed PROVE UNCHANGED Durable!vars
  BY <1>8, SettleUnseen
<1>9. ASSUME OpenFails \/ SettleFails \/ AppendPoisoned \/ FlushFails \/ AppendFails
      PROVE  Durable!Next \/ UNCHANGED Durable!vars
  BY <1>9, FailureRefuses DEF Durable!Next
<1>10. ASSUME AppendFront PROVE Durable!Next \/ UNCHANGED Durable!vars
  BY <1>10, AppendStores DEF Durable!Next
<1>11. ASSUME AppendDone PROVE Durable!Next \/ UNCHANGED Durable!vars
  BY <1>11, AppendDoneStores DEF Durable!Next
<1>12. ASSUME WriteCheckpoint \/ CheckpointDone PROVE UNCHANGED Durable!vars
  BY <1>12, CheckpointUnseen
<1>13. ASSUME Drained PROVE Durable!Next \/ UNCHANGED Durable!vars
  BY <1>13, DrainedAnswers DEF Durable!Next
<1>14. ASSUME Stop \/ Crash PROVE Durable!Next
  BY <1>14, EndLoses DEF Durable!Next
<1>15. ASSUME UNCHANGED vars PROVE UNCHANGED Durable!vars
  <2>1. UNCHANGED <<disk, pending, unconfirmed, writer, pc, command, inbox, result>>
    BY <1>15 DEF vars, disks, state, task, hosts
  <2>2. Unwritten' = Unwritten /\ Working' = Working
    BY <2>1 DEF Unwritten, FrontStored, Working
  <2> QED BY <2>1, <2>2, Unseen
<1> QED BY <1>1, <1>2, <1>3, <1>4, <1>5, <1>6, <1>7, <1>8, <1>9, <1>10, <1>11, <1>12, <1>13,
           <1>14, <1>15 DEF Next, WriterTask, Host

\* The recorder (recorder.rs, over writer.rs) implements a durable log, whatever fails
\* and however often its process dies: what is recorded comes to the file in order,
\* once, and stays; a barrier that returns Ok has everything before it in the file.
THEOREM RecorderIsDurable == Spec => ImplementsDurableLog
<1>1. Init => Durable!Init
  <2> SUFFICES ASSUME Init PROVE Durable!Init
    OBVIOUS
  <2>1. /\ disk = <<>> /\ pending = <<>> /\ inbox = <<>> /\ pc = "recv"
        /\ result = [c \in Calls |-> "none"]
    BY DEF Init
  <2>2. Contents(<<>>) = <<>>
    <3>1. DOMAIN <<>> = {} /\ <<>> = [n \in {} |-> IF Parses(<<>>[n]) THEN <<>>[n].what ELSE Unread]
      OBVIOUS
    <3> QED BY <3>1 DEF Contents
  <2>3. StoredItems = <<>>
    BY <2>1, <2>2, SelectedEmpty DEF StoredItems
  <2>4. Selected(Unwritten, Items) = <<>> /\ Working = <<>>
    BY <2>1, NoneUnwritten DEF Working
  <2>5. WaitingQueue = (<<>> \o <<>>) \o <<>>
    BY <2>1, <2>4 DEF WaitingQueue, Unwritten, Working
  <2>6. (<<>> \o <<>>) \o <<>> = <<>>
    <3>1. PICK b \in Seq(Items) : b = <<>>
      <4>1. <<>> \in Seq(Items)
        OBVIOUS
      <4> QED BY <4>1, Zenon
    <3>2. (<<>> \o <<>>) \o b = b
      BY QueueFront
    <3> QED BY <3>1, <3>2
  <2> QED BY <2>1, <2>3, <2>5, <2>6 DEF Durable!Init
<1>2. RecorderInv /\ RecorderInv' /\ [Next]_vars => [Durable!Next]_(Durable!vars)
  BY FrontStoredIs, FrontStoredNext, QueueParts, QueuePartsNext, LogStep
<1> QED BY <1>1, <1>2, RecorderInvariant, PTL DEF Spec, ImplementsDurableLog, Durable!Spec

==============================================================================
