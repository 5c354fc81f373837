---------------------------- MODULE LedgerProofs ----------------------------
(***************************************************************************)
(* What Ledger says of every number of writers and readers, every length   *)
(* of the file and every pattern of crashes and failed writes.  Seqs stay  *)
(* dense and acknowledged events durable because the seq a writer derives  *)
(* under seq_lock still is the next one when it writes: the invariant      *)
(* Holder says so, and Layout where each chunk is on a file that parses.   *)
(* With what last_seq and read compute of a file, both by induction over   *)
(* it, a reader's cursor is the number of events it has received, and the  *)
(* ledger implements the log of EventLog.                                  *)
(***************************************************************************)
EXTENDS Ledger, WellFoundedInduction, TLAPS

\* The lines of f follow one another as they should up to chunk i.
Chained(f, i) == \A j \in 1 .. i - 1 : f[j + 1].part = After(f[j].part)

\* The three chunks of line n are at 3n - 2, 3n - 1 and 3n.
Placed(c, i) ==
  /\ c.part = "head"    => i = 3 * c.seq - 2
  /\ c.part = "rest"    => i = 3 * c.seq - 1
  /\ c.part = "newline" => i = 3 * c.seq

Exclusive == \A w \in Writers : pc[w] # "idle" <=> lock = w

\* A writer at work writes a line whose seq no acknowledged event has...
Fresh ==
  \A w \in Writers :
    pc[w] # "idle" => seq[w] > 0 /\ \A k \in DOMAIN acks : acks[k] < seq[w]

\* ... and which is the next one, if the lines before it are in order.
Holder ==
  \A w \in Writers :
    /\ pc[w] = "write" /\ Chained(file, Len(file))
         /\ (file # <<>> => file[Len(file)].part = "newline")
       => Len(file) = 3 * seq[w] - 3
    /\ pc[w] = "torn" =>
         file # <<>> /\ file[Len(file)] = [part |-> "head", seq |-> seq[w]]
    /\ pc[w] = "unended" =>
         file # <<>> /\ file[Len(file)] = [part |-> "rest", seq |-> seq[w]]
    /\ pc[w] \in {"ended", "durable"} =>
         /\ Len(file) > 1
         /\ file[Len(file)] = [part |-> "newline", seq |-> seq[w]]
         /\ file[Len(file) - 1] = [part |-> "rest", seq |-> seq[w]]
    /\ pc[w] = "durable" => synced = Len(file)

Layout == \A i \in DOMAIN file : Chained(file, i) => Placed(file[i], i)

IInv ==
  /\ WriterTypeOK /\ Exclusive /\ Fresh /\ Holder
  /\ Layout /\ AckedDurable /\ AcksIncrease

-----------------------------------------------------------------------------
\* last_seq on a file whose lines are in order: the greatest seq on it, which
\* is that of its last line.
LEMMA LastSeqInOrder ==
  ASSUME NEW f \in Seq(Chunk), Parsable(f),
         \A i \in DOMAIN f : Placed(f[i], i)
  PROVE  /\ LastSeq(f) \in Nat
         /\ \A m \in Seqs(f) : m <= LastSeq(f)
         /\ f = <<>> => LastSeq(f) = 0
         /\ f # <<>> /\ f[Len(f)].part = "newline" => Len(f) = 3 * LastSeq(f)
<1> DEFINE N == IF f = <<>> THEN 0 ELSE f[Len(f)].seq
<1>1. Seqs(f) \subseteq Nat
  <2>1. \A i \in DOMAIN f : f[i] \in Chunk
    OBVIOUS
  <2> QED
    BY <2>1 DEF Seqs, Chunk
<1>2. \A m \in Seqs(f) : m <= N
  <2> SUFFICES ASSUME NEW j \in DOMAIN f, f[j].part = "rest"
               PROVE  f[j].seq <= N
    BY DEF Seqs
  <2>1. Len(f) \in DOMAIN f /\ f # <<>> /\ j <= Len(f) /\ f[j] \in Chunk /\ f[Len(f)] \in Chunk
    OBVIOUS
  <2>2. f[Len(f)].part \in {"rest", "newline"}
    BY <2>1 DEF Parsable, Chunk, Parts
  <2>3. j = 3 * f[j].seq - 1 /\ Len(f) <= 3 * f[Len(f)].seq
    BY <2>1, <2>2 DEF Placed, Chunk
  <2> QED
    BY <2>1, <2>3 DEF Chunk
<1>3. N \in Seqs(f) \cup {0}
  <2> SUFFICES ASSUME f # <<>> PROVE f[Len(f)].seq \in Seqs(f)
    OBVIOUS
  <2>1. Len(f) \in DOMAIN f /\ f[Len(f)] \in Chunk
    OBVIOUS
  <2>2. CASE f[Len(f)].part = "rest"
    BY <2>1, <2>2 DEF Seqs
  <2>3. CASE f[Len(f)].part = "newline"
    <3>1. Len(f) = 3 * f[Len(f)].seq /\ Len(f) > 2
      BY <2>1, <2>3 DEF Placed, Chunk
    <3>2. Len(f) - 1 \in DOMAIN f /\ f[Len(f) - 1] \in Chunk
      BY <3>1
    <3>3. f[Len(f)].part = After(f[Len(f) - 1].part)
      BY <3>1, <3>2 DEF Parsable
    <3>4. f[Len(f) - 1].part = "rest"
      BY <2>3, <3>2, <3>3 DEF After, Chunk, Parts
    <3>5. Len(f) - 1 = 3 * f[Len(f) - 1].seq - 1
      BY <3>2, <3>4 DEF Placed
    <3>6. f[Len(f) - 1].seq = f[Len(f)].seq
      BY <2>1, <3>1, <3>2, <3>5 DEF Chunk
    <3> QED
      BY <3>2, <3>4, <3>6 DEF Seqs
  <2> QED
    BY <2>1, <2>2, <2>3 DEF Parsable, Chunk, Parts
<1>4. LastSeq(f) \in Seqs(f) \cup {0} /\ \A m \in Seqs(f) : m <= LastSeq(f)
  BY <1>2, <1>3 DEF LastSeq
<1>5. LastSeq(f) = N
  BY <1>1, <1>2, <1>3, <1>4
<1>6. f # <<>> /\ f[Len(f)].part = "newline" => Len(f) = 3 * N
  BY DEF Placed
<1> HIDE DEF N
<1> QED
  BY <1>1, <1>4, <1>5, <1>6 DEF N, Seqs

\* On a file that parses the lines are in order up to every chunk.
LEMMA ParsableChained ==
  ASSUME NEW f \in Seq(Chunk), Parsable(f), NEW i \in DOMAIN f
  PROVE  Chained(f, i)
BY DEF Parsable, Chained

\* What append finds when it has the lock: a seq above all those on the file,
\* in particular above those acknowledged, and the place of its line.
LEMMA NextSeq ==
  ASSUME WriterTypeOK, Layout, AckedDurable, Parsable(file)
  PROVE  /\ LastSeq(file) \in Nat
         /\ \A k \in DOMAIN acks : acks[k] < LastSeq(file) + 1
         /\ (file # <<>> => file[Len(file)].part = "newline")
              => Len(file) = 3 * LastSeq(file)
<1>1. file \in Seq(Chunk) /\ \A i \in DOMAIN file : Placed(file[i], i)
  BY ParsableChained DEF WriterTypeOK, Layout
<1>2. /\ LastSeq(file) \in Nat
      /\ \A m \in Seqs(file) : m <= LastSeq(file)
      /\ file = <<>> => LastSeq(file) = 0
      /\ file # <<>> /\ file[Len(file)].part = "newline" => Len(file) = 3 * LastSeq(file)
  BY <1>1, LastSeqInOrder
<1>3. \A k \in DOMAIN acks : acks[k] \in Seqs(file)
  <2> SUFFICES ASSUME NEW k \in DOMAIN acks PROVE acks[k] \in Seqs(file)
    OBVIOUS
  <2>1. PICK i \in 1 .. synced : file[i] = [part |-> "rest", seq |-> acks[k]]
    BY DEF AckedDurable
  <2>2. i \in DOMAIN file
    BY DEF WriterTypeOK
  <2> QED
    BY <2>1, <2>2 DEF Seqs
<1>4. \A k \in DOMAIN acks : acks[k] \in Nat
  BY DEF WriterTypeOK
<1> QED
  BY <1>1, <1>2, <1>3, <1>4

\* A write by the holder puts its chunk where it belongs, if the chunks before
\* it are in order.
LEMMA WriteLayout ==
  ASSUME IInv, NEW w \in Writers, NEW part \in Parts, Write(w, part), seq[w] > 0,
         Chained(file', Len(file) + 1) =>
           Placed([part |-> part, seq |-> seq[w]], Len(file) + 1)
  PROVE  /\ file' \in Seq(Chunk) /\ Len(file') = Len(file) + 1
         /\ file'[Len(file')] = [part |-> part, seq |-> seq[w]]
         /\ \A i \in DOMAIN file : file'[i] = file[i]
         /\ Layout' /\ synced \in 0 .. Len(file')
         /\ \A k \in DOMAIN acks : \E i \in 1 .. synced :
              file'[i] = [part |-> "rest", seq |-> acks[k]]
<1>1. file \in Seq(Chunk) /\ seq[w] \in Nat /\ synced \in 0 .. Len(file)
  BY DEF IInv, WriterTypeOK
<1>2. [part |-> part, seq |-> seq[w]] \in Chunk
  BY <1>1 DEF Chunk
<1>3. /\ file' \in Seq(Chunk) /\ Len(file') = Len(file) + 1
      /\ file'[Len(file) + 1] = [part |-> part, seq |-> seq[w]]
      /\ \A i \in DOMAIN file : file'[i] = file[i]
  BY <1>1, <1>2 DEF Write
<1>4. Layout'
  <2> SUFFICES ASSUME NEW i \in DOMAIN file', Chained(file', i)
               PROVE  Placed(file'[i], i)
    BY DEF Layout
  <2>1. CASE i = Len(file) + 1
    BY <1>3, <2>1
  <2>2. CASE i \in DOMAIN file
    <3>0. DOMAIN file = 1 .. Len(file) /\ Len(file) \in Nat
      BY <1>1
    <3>1. \A j \in 1 .. i - 1 : file'[j + 1] = file[j + 1] /\ file'[j] = file[j]
      <4> TAKE j \in 1 .. i - 1
      <4>1. j \in DOMAIN file /\ j + 1 \in DOMAIN file
        BY <2>2, <3>0
      <4> QED
        BY <1>3, <4>1
    <3>2. Chained(file, i)
      BY <3>1 DEF Chained
    <3> QED
      BY <1>3, <2>2, <3>2 DEF IInv, Layout
  <2> QED
    BY <1>1, <1>3, <2>1, <2>2
<1>5. \A k \in DOMAIN acks : \E i \in 1 .. synced :
        file'[i] = [part |-> "rest", seq |-> acks[k]]
  BY <1>1, <1>3 DEF IInv, AckedDurable
<1> QED
  BY <1>1, <1>3, <1>4, <1>5

\* The lines before an appended chunk stay in order.
LEMMA ChainedPrefix ==
  ASSUME NEW f \in Seq(Chunk), NEW c, Chained(Append(f, c), Len(f) + 1)
  PROVE  /\ Chained(f, Len(f))
         /\ f # <<>> => c.part = After(f[Len(f)].part)
<1> DEFINE g == Append(f, c)
<1>1. Len(f) \in Nat /\ DOMAIN f = 1 .. Len(f)
  OBVIOUS
<1>2. g[Len(f) + 1] = c /\ \A i \in 1 .. Len(f) : g[i] = f[i]
  OBVIOUS
<1>3. \A j \in 1 .. Len(f) : g[j + 1].part = After(g[j].part)
  BY <1>1 DEF Chained
<1> HIDE DEF g
<1>4. \A j \in 1 .. Len(f) - 1 : f[j + 1].part = After(f[j].part)
  <2> TAKE j \in 1 .. Len(f) - 1
  <2>1. j \in 1 .. Len(f) /\ j + 1 \in 1 .. Len(f)
    BY <1>1
  <2> QED
    BY <1>2, <1>3, <2>1
<1>5. f # <<>> => Len(f) \in 1 .. Len(f)
  BY <1>1
<1> QED
  BY <1>2, <1>3, <1>4, <1>5 DEF Chained

-----------------------------------------------------------------------------
\* IInv is inductive.
LEMMA Preservation == IInv /\ [Next]_vars => IInv'
<1> SUFFICES ASSUME IInv, [Next]_vars PROVE IInv'
  OBVIOUS
<1> USE LedgerAssumption
<1>1. ASSUME NEW w \in Writers, BeginAppend(w) PROVE IInv'
  <2> USE <1>1
  <2>1. /\ pc[w] = "idle" /\ pc' = [pc EXCEPT ![w] = "write"]
        /\ lock = NoWriter /\ lock' = w
        /\ Parsable(file) /\ seq' = [seq EXCEPT ![w] = LastSeq(file) + 1]
        /\ UNCHANGED <<file, synced, acks>>
    BY DEF BeginAppend, Step
  <2>2. \A v \in Writers : pc[v] = "idle"
    BY <2>1 DEF IInv, Exclusive
  <2>3. /\ LastSeq(file) \in Nat
        /\ \A k \in DOMAIN acks : acks[k] < LastSeq(file) + 1
        /\ (file # <<>> => file[Len(file)].part = "newline")
             => Len(file) = 3 * LastSeq(file)
    BY <2>1, NextSeq DEF IInv
  <2>4. WriterTypeOK' /\ Exclusive' /\ Fresh'
    BY <2>1, <2>2, <2>3 DEF IInv, WriterTypeOK, Exclusive, Fresh, Steps
  <2>5. Holder'
    BY <2>1, <2>2, <2>3 DEF IInv, WriterTypeOK, Holder
  <2>6. Layout' /\ AckedDurable' /\ AcksIncrease'
    BY <2>1 DEF IInv, Layout, Chained, AckedDurable, AcksIncrease
  <2> QED
    BY <2>4, <2>5, <2>6 DEF IInv
<1>2. ASSUME NEW w \in Writers, WriteHead(w) PROVE IInv'
  <2> USE <1>2
  <2>1. /\ pc[w] = "write" /\ pc' = [pc EXCEPT ![w] = "torn"] /\ Write(w, "head")
        /\ UNCHANGED <<synced, lock, seq, acks>>
    BY DEF WriteHead, Step
  <2>2. seq[w] > 0 /\ seq[w] \in Nat /\ lock = w /\ \A v \in Writers : v # w => pc[v] = "idle"
    BY <2>1 DEF IInv, WriterTypeOK, Exclusive, Fresh
  <2>3. Chained(file', Len(file) + 1) =>
          Placed([part |-> "head", seq |-> seq[w]], Len(file) + 1)
    <3> SUFFICES ASSUME Chained(file', Len(file) + 1)
                 PROVE  Placed([part |-> "head", seq |-> seq[w]], Len(file) + 1)
      OBVIOUS
    <3>1. file \in Seq(Chunk) /\ file' = Append(file, [part |-> "head", seq |-> seq[w]])
      BY <2>1 DEF IInv, WriterTypeOK, Write
    <3>2. Chained(file, Len(file))
      BY <3>1, ChainedPrefix
    <3>3. file # <<>> => file[Len(file)] \in Chunk /\ "head" = After(file[Len(file)].part)
      BY <3>1, ChainedPrefix
    <3>4. file # <<>> => file[Len(file)].part = "newline"
      BY <3>3 DEF After, Chunk, Parts
    <3>5. Len(file) = 3 * seq[w] - 3
      BY <2>1, <3>2, <3>4 DEF IInv, Holder
    <3> QED
      BY <2>2, <3>1, <3>5 DEF Placed
  <2>4. /\ file' \in Seq(Chunk) /\ Len(file') = Len(file) + 1
        /\ file'[Len(file')] = [part |-> "head", seq |-> seq[w]]
        /\ \A i \in DOMAIN file : file'[i] = file[i]
        /\ Layout' /\ synced \in 0 .. Len(file')
        /\ \A k \in DOMAIN acks : \E i \in 1 .. synced :
             file'[i] = [part |-> "rest", seq |-> acks[k]]
    BY <2>1, <2>2, <2>3, WriteLayout DEF Parts
  <2>5. WriterTypeOK' /\ Exclusive' /\ Fresh'
    BY <2>1, <2>2, <2>4 DEF IInv, WriterTypeOK, Exclusive, Fresh, Steps
  <2>6. Holder'
    <3> SUFFICES ASSUME NEW v \in Writers, v = w PROVE Holder!(v)'
      BY <2>1, <2>2 DEF Holder, IInv, WriterTypeOK
    <3> QED
      BY <2>1, <2>2, <2>4 DEF IInv, WriterTypeOK, Holder
  <2>7. AckedDurable' /\ AcksIncrease'
    BY <2>1, <2>4 DEF IInv, AckedDurable, AcksIncrease
  <2> QED
    BY <2>4, <2>5, <2>6, <2>7 DEF IInv
<1>3. ASSUME NEW w \in Writers, WriteRest(w) PROVE IInv'
  <2> USE <1>3
  <2>1. /\ pc[w] = "torn" /\ pc' = [pc EXCEPT ![w] = "unended"] /\ Write(w, "rest")
        /\ UNCHANGED <<synced, lock, seq, acks>>
    BY DEF WriteRest, Step
  <2>2. seq[w] > 0 /\ seq[w] \in Nat /\ lock = w /\ \A v \in Writers : v # w => pc[v] = "idle"
    BY <2>1 DEF IInv, WriterTypeOK, Exclusive, Fresh
  <2>3. Chained(file', Len(file) + 1) =>
          Placed([part |-> "rest", seq |-> seq[w]], Len(file) + 1)
    <3> SUFFICES ASSUME Chained(file', Len(file) + 1)
                 PROVE  Placed([part |-> "rest", seq |-> seq[w]], Len(file) + 1)
      OBVIOUS
    <3>1. file \in Seq(Chunk) /\ file' = Append(file, [part |-> "rest", seq |-> seq[w]])
      BY <2>1 DEF IInv, WriterTypeOK, Write
    <3>2. Chained(file, Len(file))
      BY <3>1, ChainedPrefix
    <3>3. file # <<>> /\ file[Len(file)] = [part |-> "head", seq |-> seq[w]]
      BY <2>1 DEF IInv, Holder
    <3>4. Len(file) \in DOMAIN file
      BY <3>1, <3>3
    <3>5. Len(file) = 3 * seq[w] - 2
      BY <3>2, <3>3, <3>4 DEF IInv, Layout, Placed
    <3> QED
      BY <2>2, <3>1, <3>5 DEF Placed
  <2>4. /\ file' \in Seq(Chunk) /\ Len(file') = Len(file) + 1
        /\ file'[Len(file')] = [part |-> "rest", seq |-> seq[w]]
        /\ \A i \in DOMAIN file : file'[i] = file[i]
        /\ Layout' /\ synced \in 0 .. Len(file')
        /\ \A k \in DOMAIN acks : \E i \in 1 .. synced :
             file'[i] = [part |-> "rest", seq |-> acks[k]]
    BY <2>1, <2>2, <2>3, WriteLayout DEF Parts
  <2>5. WriterTypeOK' /\ Exclusive' /\ Fresh'
    BY <2>1, <2>2, <2>4 DEF IInv, WriterTypeOK, Exclusive, Fresh, Steps
  <2>6. Holder'
    <3> SUFFICES ASSUME NEW v \in Writers, v = w PROVE Holder!(v)'
      BY <2>1, <2>2 DEF Holder, IInv, WriterTypeOK
    <3> QED
      BY <2>1, <2>2, <2>4 DEF IInv, WriterTypeOK, Holder
  <2>7. AckedDurable' /\ AcksIncrease'
    BY <2>1, <2>4 DEF IInv, AckedDurable, AcksIncrease
  <2> QED
    BY <2>4, <2>5, <2>6, <2>7 DEF IInv
<1>4. ASSUME NEW w \in Writers, WriteNewline(w) PROVE IInv'
  <2> USE <1>4
  <2>1. /\ pc[w] = "unended" /\ pc' = [pc EXCEPT ![w] = "ended"] /\ Write(w, "newline")
        /\ UNCHANGED <<synced, lock, seq, acks>>
    BY DEF WriteNewline, Step
  <2>2. seq[w] > 0 /\ seq[w] \in Nat /\ lock = w /\ \A v \in Writers : v # w => pc[v] = "idle"
    BY <2>1 DEF IInv, WriterTypeOK, Exclusive, Fresh
  <2>3. Chained(file', Len(file) + 1) =>
          Placed([part |-> "newline", seq |-> seq[w]], Len(file) + 1)
    <3> SUFFICES ASSUME Chained(file', Len(file) + 1)
                 PROVE  Placed([part |-> "newline", seq |-> seq[w]], Len(file) + 1)
      OBVIOUS
    <3>1. file \in Seq(Chunk) /\ file' = Append(file, [part |-> "newline", seq |-> seq[w]])
      BY <2>1 DEF IInv, WriterTypeOK, Write
    <3>2. Chained(file, Len(file))
      BY <3>1, ChainedPrefix
    <3>3. file # <<>> /\ file[Len(file)] = [part |-> "rest", seq |-> seq[w]]
      BY <2>1 DEF IInv, Holder
    <3>4. Len(file) \in DOMAIN file
      BY <3>1, <3>3
    <3>5. Len(file) = 3 * seq[w] - 1
      BY <3>2, <3>3, <3>4 DEF IInv, Layout, Placed
    <3> QED
      BY <2>2, <3>1, <3>5 DEF Placed
  <2>4. /\ file' \in Seq(Chunk) /\ Len(file') = Len(file) + 1
        /\ file'[Len(file')] = [part |-> "newline", seq |-> seq[w]]
        /\ \A i \in DOMAIN file : file'[i] = file[i]
        /\ Layout' /\ synced \in 0 .. Len(file')
        /\ \A k \in DOMAIN acks : \E i \in 1 .. synced :
             file'[i] = [part |-> "rest", seq |-> acks[k]]
    BY <2>1, <2>2, <2>3, WriteLayout DEF Parts
  <2>5. WriterTypeOK' /\ Exclusive' /\ Fresh'
    BY <2>1, <2>2, <2>4 DEF IInv, WriterTypeOK, Exclusive, Fresh, Steps
  <2>6. Holder'
    <3> SUFFICES ASSUME NEW v \in Writers, v = w PROVE Holder!(v)'
      BY <2>1, <2>2 DEF Holder, IInv, WriterTypeOK
    <3>1. file \in Seq(Chunk) /\ file # <<>> /\ file[Len(file)] = [part |-> "rest", seq |-> seq[w]]
      BY <2>1 DEF IInv, WriterTypeOK, Holder
    <3>2. Len(file') > 1 /\ file'[Len(file') - 1] = [part |-> "rest", seq |-> seq[w]]
      BY <2>4, <3>1
    <3> QED
      BY <2>1, <2>2, <2>4, <3>2 DEF IInv, WriterTypeOK, Holder
  <2>7. AckedDurable' /\ AcksIncrease'
    BY <2>1, <2>4 DEF IInv, AckedDurable, AcksIncrease
  <2> QED
    BY <2>4, <2>5, <2>6, <2>7 DEF IInv
<1>5. ASSUME NEW w \in Writers, Sync(w) PROVE IInv'
  <2> USE <1>5
  <2>1. /\ pc[w] = "ended" /\ pc' = [pc EXCEPT ![w] = "durable"] /\ synced' = Len(file)
        /\ UNCHANGED <<file, lock, seq, acks>>
    BY DEF Sync, Step
  <2>2. WriterTypeOK' /\ Exclusive' /\ Fresh'
    BY <2>1 DEF IInv, WriterTypeOK, Exclusive, Fresh, Steps
  <2>3. Holder'
    BY <2>1 DEF IInv, WriterTypeOK, Exclusive, Holder
  <2>4. Layout' /\ AcksIncrease'
    BY <2>1 DEF IInv, Layout, Chained, AcksIncrease
  <2>5. AckedDurable'
    BY <2>1 DEF IInv, WriterTypeOK, AckedDurable
  <2> QED
    BY <2>2, <2>3, <2>4, <2>5 DEF IInv
<1>6. ASSUME NEW w \in Writers, Ack(w) PROVE IInv'
  <2> USE <1>6
  <2>1. /\ pc[w] = "durable" /\ pc' = [pc EXCEPT ![w] = "idle"]
        /\ acks' = Append(acks, seq[w]) /\ lock' = NoWriter
        /\ UNCHANGED <<file, synced, seq>>
    BY DEF Ack, Step
  <2>2. acks \in Seq(Nat) /\ seq[w] \in Nat
    BY DEF IInv, WriterTypeOK
  <2>3. \A v \in Writers : pc'[v] = "idle"
    BY <2>1 DEF IInv, WriterTypeOK, Exclusive
  <2>4. WriterTypeOK' /\ Exclusive'
    BY <2>1, <2>2, <2>3 DEF IInv, WriterTypeOK, Exclusive, Steps
  <2>5. Fresh' /\ Holder'
    BY <2>3 DEF Fresh, Holder
  <2>6. /\ Len(acks') = Len(acks) + 1 /\ acks'[Len(acks) + 1] = seq[w]
        /\ \A k \in DOMAIN acks : acks'[k] = acks[k]
        /\ DOMAIN acks' = 1 .. Len(acks) + 1 /\ DOMAIN acks = 1 .. Len(acks)
    BY <2>1, <2>2
  <2>7. Layout'
    BY <2>1 DEF IInv, Layout, Chained
  <2>8. AckedDurable'
    <3>1. /\ Len(file) > 1 /\ synced = Len(file)
          /\ file[Len(file) - 1] = [part |-> "rest", seq |-> seq[w]]
      BY <2>1 DEF IInv, Holder
    <3>2. Len(file) - 1 \in 1 .. synced
      BY <3>1 DEF IInv, WriterTypeOK
    <3> QED
      BY <2>1, <2>6, <3>1, <3>2 DEF IInv, AckedDurable
  <2>9. AcksIncrease'
    <3>1. \A k \in DOMAIN acks : acks[k] < seq[w]
      BY <2>1 DEF IInv, Fresh
    <3> QED
      BY <2>2, <2>6, <3>1 DEF IInv, AcksIncrease
  <2> QED
    BY <2>4, <2>5, <2>7, <2>8, <2>9 DEF IInv
<1>7. ASSUME NEW w \in Writers, IOError(w) PROVE IInv'
  <2> USE <1>7
  <2>1. /\ pc[w] # "idle" /\ pc' = [pc EXCEPT ![w] = "idle"] /\ lock' = NoWriter
        /\ UNCHANGED <<file, synced, seq, acks>>
    BY DEF IOError
  <2>2. \A v \in Writers : pc'[v] = "idle"
    BY <2>1 DEF IInv, WriterTypeOK, Exclusive
  <2>3. WriterTypeOK' /\ Exclusive' /\ Fresh' /\ Holder'
    BY <2>1, <2>2 DEF IInv, WriterTypeOK, Exclusive, Fresh, Holder, Steps
  <2>4. Layout' /\ AckedDurable' /\ AcksIncrease'
    BY <2>1 DEF IInv, Layout, Chained, AckedDurable, AcksIncrease
  <2> QED
    BY <2>3, <2>4 DEF IInv
<1>8. ASSUME NEW r \in Readers, Read(r) PROVE IInv'
  BY <1>8 DEF Read, IInv, WriterTypeOK, Exclusive, Fresh, Holder, Layout, Chained,
     AckedDurable, AcksIncrease
<1>9. ASSUME Crash PROVE IInv'
  <2> USE <1>9
  <2>1. PICK k \in synced .. Len(file) : file' = SubSeq(file, 1, k) /\ synced' = k
    BY DEF Crash
  <2>2. /\ lock' = NoWriter /\ pc' = [w \in Writers |-> "idle"]
        /\ UNCHANGED <<seq, acks>>
    BY DEF Crash
  <2>3. file \in Seq(Chunk) /\ synced \in 0 .. Len(file) /\ k \in 0 .. Len(file)
    BY <2>1 DEF IInv, WriterTypeOK
  <2>4. /\ file' \in Seq(Chunk) /\ Len(file') = k /\ DOMAIN file' = 1 .. k
        /\ \A i \in 1 .. k : i \in DOMAIN file /\ file'[i] = file[i]
    BY <2>1, <2>3
  <2>5. WriterTypeOK' /\ Exclusive' /\ Fresh' /\ Holder'
    BY <2>1, <2>2, <2>3, <2>4
    DEF IInv, WriterTypeOK, Exclusive, Fresh, Holder, Steps
  <2>6. Layout'
    <3> SUFFICES ASSUME NEW i \in 1 .. k, Chained(file', i) PROVE Placed(file[i], i)
      BY <2>4 DEF Layout
    <3>1. \A j \in 1 .. i - 1 : file'[j + 1] = file[j + 1] /\ file'[j] = file[j]
      BY <2>3, <2>4
    <3>2. Chained(file, i)
      BY <3>1 DEF Chained
    <3> QED
      BY <2>4, <3>2 DEF IInv, Layout
  <2>7. AckedDurable'
    <3> SUFFICES ASSUME NEW n \in DOMAIN acks
                 PROVE  \E i \in 1 .. k : file'[i] = [part |-> "rest", seq |-> acks[n]]
      BY <2>1, <2>2 DEF AckedDurable
    <3>1. PICK i \in 1 .. synced : file[i] = [part |-> "rest", seq |-> acks[n]]
      BY DEF IInv, AckedDurable
    <3> QED
      BY <2>1, <2>3, <2>4, <3>1
  <2>8. AcksIncrease'
    BY <2>2 DEF IInv, AcksIncrease
  <2> QED
    BY <2>5, <2>6, <2>7, <2>8 DEF IInv
<1>10. CASE UNCHANGED vars
  BY <1>10 DEF vars, IInv, WriterTypeOK, Exclusive, Fresh, Holder, Layout, Chained,
     AckedDurable, AcksIncrease
<1> QED
  BY <1>1, <1>2, <1>3, <1>4, <1>5, <1>6, <1>7, <1>8, <1>9, <1>10 DEF Next, AppendStep

\* IInv holds at first.
LEMMA Initial == Init => IInv
BY LedgerAssumption
DEF Init, IInv, WriterTypeOK, Exclusive, Fresh, Holder, Layout, Steps, AckedDurable,
    AcksIncrease

\* The file, the lock, the writers and the acknowledgements keep to IInv in
\* every behaviour.
THEOREM Invariance == Spec => []IInv
<1>1. Init => IInv
  BY Initial
<1>2. IInv /\ [Next]_vars => IInv'
  BY Preservation
<1> QED
  BY <1>1, <1>2, PTL DEF Spec

\* Type correctness of the writers' part: in particular no event of seq 0 is
\* written, which a cursor of 0 would skip.
THEOREM WriterTypesCorrect == Spec => []WriterTypeOK
<1>1. IInv => WriterTypeOK
  BY DEF IInv
<1> QED
  BY <1>1, Invariance, PTL

\* On a ledger that parses the n-th line carries seq n, after any crashes and
\* failed writes and for any number of concurrent writers.
THEOREM SeqsDense == Spec => []DenseSeq
<1>1. IInv => DenseSeq
  <2> SUFFICES ASSUME IInv, Parsable(file), NEW i \in DOMAIN file, file[i].part = "rest"
               PROVE  i = 3 * file[i].seq - 1
    BY DEF DenseSeq
  <2>1. Chained(file, i)
    BY ParsableChained DEF IInv, WriterTypeOK
  <2> QED
    BY <2>1 DEF IInv, Layout, Placed
<1> QED
  BY <1>1, Invariance, PTL

\* What append acknowledged is durable and whole: no crash takes it away.
THEOREM AcknowledgedDurable == Spec => []AckedDurable
<1>1. IInv => AckedDurable
  BY DEF IInv
<1> QED
  BY <1>1, Invariance, PTL

\* No two appends are acknowledged with one seq, and acknowledgements come in
\* seq order, whatever writers race and whatever fails.
THEOREM AcknowledgementsIncrease == Spec => []AcksIncrease
<1>1. IInv => AcksIncrease
  BY DEF IInv
<1> QED
  BY <1>1, Invariance, PTL

-----------------------------------------------------------------------------
(* Induction, which the recursion of read and the maximum of last_seq need *)
(* and the library states with an operator parameter: here over sets.      *)

LEMMA BelowWellFounded ==
  \E R : IsWellFoundedOn(R, Nat) /\ \A x, y \in Nat : x < y => <<x, y>> \in R
<1>1. IsWellFoundedOn(OpToRel(<, Nat), Nat)
  BY NatLessThanWellFounded
<1>2. \A x, y \in Nat : x < y => <<x, y>> \in OpToRel(<, Nat)
  BY DEF OpToRel
<1> QED
  BY <1>1, <1>2, Zenon

LEMMA MinimalElement ==
  \A R, S, T : IsWellFoundedOn(R, S) /\ T \subseteq S /\ T # {} =>
    \E x \in T : \A y \in T : ~(<<y, x>> \in R)
BY WFMin

LEMMA LeastNumber ==
  \A T : T \subseteq Nat /\ T # {} => \E x \in T : \A y \in T : x <= y
<1>1. PICK R : IsWellFoundedOn(R, Nat) /\ \A x, y \in Nat : x < y => <<x, y>> \in R
  BY BelowWellFounded, Zenon
<1> SUFFICES ASSUME NEW T, T \subseteq Nat, T # {}
             PROVE  \E x \in T : \A y \in T : x <= y
  OBVIOUS
<1>2. PICK x \in T : \A y \in T : ~(<<y, x>> \in R)
  BY <1>1, MinimalElement
<1>3. ASSUME NEW y \in T PROVE x <= y
  <2>1. x \in Nat /\ y \in Nat /\ ~(<<y, x>> \in R)
    BY <1>2
  <2>2. ~(y < x)
    BY <1>1, <2>1
  <2> QED
    BY <2>1, <2>2
<1> QED
  BY <1>3

\* A set of naturals that contains 0 and the successor of each member is Nat.
LEMMA Induction ==
  \A T : T \subseteq Nat /\ 0 \in T /\ (\A n \in T : n + 1 \in T) => T = Nat
<1> SUFFICES ASSUME NEW T, T \subseteq Nat, 0 \in T, \A n \in T : n + 1 \in T, T # Nat
             PROVE  FALSE
  OBVIOUS
<1> DEFINE Others == Nat \ T
<1>1. Others \subseteq Nat /\ Others # {}
  OBVIOUS
<1>2. PICK x \in Others : \A y \in Others : x <= y
  BY <1>1, LeastNumber
<1>3. x \in Nat /\ x # 0 /\ x - 1 \in Nat /\ x = (x - 1) + 1
  BY <1>2
<1>4. x - 1 \in T
  BY <1>2, <1>3
<1> QED
  BY <1>2, <1>3, <1>4

\* The rest of a line brings its seq, the other chunks nothing.
LEMMA WrittenSeqs ==
  ASSUME NEW f \in Seq(Chunk), NEW c \in Chunk
  PROVE  Seqs(Append(f, c)) = IF c.part = "rest" THEN Seqs(f) \cup {c.seq} ELSE Seqs(f)
<1> DEFINE g == Append(f, c)
<1>1. /\ DOMAIN f = 1 .. Len(f) /\ DOMAIN g = 1 .. Len(f) + 1
      /\ g[Len(f) + 1] = c /\ \A i \in DOMAIN f : g[i] = f[i]
      /\ Len(f) \in Nat
  OBVIOUS
<1> HIDE DEF g
<1>2. c.part # "rest" => Seqs(g) = Seqs(f)
  BY <1>1 DEF Seqs
<1>3. c.part = "rest" => Seqs(g) = Seqs(f) \cup {c.seq}
  <2> SUFFICES ASSUME c.part = "rest" PROVE Seqs(g) = Seqs(f) \cup {c.seq}
    OBVIOUS
  <2>1. Seqs(f) \subseteq Seqs(g)
    BY <1>1 DEF Seqs
  <2>2. Seqs(g) \subseteq Seqs(f) \cup {c.seq}
    BY <1>1 DEF Seqs
  <2>3. c.seq \in Seqs(g)
    <3>1. Len(f) + 1 \in DOMAIN g
      BY <1>1
    <3> QED
      BY <1>1, <3>1 DEF Seqs
  <2> QED
    BY <2>1, <2>2, <2>3
<1> QED
  BY <1>2, <1>3 DEF g

LEMMA SeqsAreNumbers == ASSUME NEW f \in Seq(Chunk) PROVE Seqs(f) \subseteq Nat
<1>1. \A i \in DOMAIN f : f[i] \in Chunk
  OBVIOUS
<1> QED
  BY <1>1 DEF Seqs, Chunk

\* last_seq on any file, in order or not: the greatest seq on it, or 0.
LEMMA LastSeqGreatest ==
  ASSUME NEW f \in Seq(Chunk)
  PROVE  /\ LastSeq(f) \in Nat /\ LastSeq(f) \in Seqs(f) \cup {0}
         /\ Seqs(f) \subseteq Nat
         /\ \A m \in Seqs(f) : m <= LastSeq(f)
<1> DEFINE Greatest(S) == \E n \in S \cup {0} : \A m \in S : m <= n
           T == {n \in Nat : \A g \in Seq(Chunk) : Len(g) = n => Greatest(Seqs(g))}
<1>2. 0 \in T
  <2> SUFFICES ASSUME NEW g \in Seq(Chunk), Len(g) = 0 PROVE Greatest(Seqs(g))
    OBVIOUS
  <2>1. Seqs(g) = {}
    BY DEF Seqs
  <2> QED
    BY <2>1
<1>3. ASSUME NEW n \in T PROVE n + 1 \in T
  <2> SUFFICES ASSUME NEW g \in Seq(Chunk), Len(g) = n + 1 PROVE Greatest(Seqs(g))
    OBVIOUS
  <2> DEFINE h == SubSeq(g, 1, n)
             c == g[n + 1]
  <2>0. n \in Nat
    OBVIOUS
  <2>1. h \in Seq(Chunk) /\ Len(h) = n /\ c \in Chunk
    BY <2>0
  <2>2. g = Append(h, c)
    BY <2>0
  <2>3. \A f1 \in Seq(Chunk) : Len(f1) = n => Greatest(Seqs(f1))
    OBVIOUS
  <2> HIDE DEF h, c, Greatest
  <2>4. Seqs(g) = IF c.part = "rest" THEN Seqs(h) \cup {c.seq} ELSE Seqs(h)
    BY <2>1, <2>2, WrittenSeqs
  <2>5. Seqs(h) \subseteq Nat /\ c.seq \in Nat
    BY <2>1, SeqsAreNumbers DEF Chunk
  <2>6. Greatest(Seqs(h))
    BY <2>1, <2>3
  <2>7. ASSUME NEW S, S \subseteq Nat, NEW s \in Nat, Greatest(S)
        PROVE  Greatest(S \cup {s})
    <3>1. PICK max \in S \cup {0} : \A m \in S : m <= max
      BY <2>7 DEF Greatest
    <3>2. CASE s > max
      <4>1. \A m \in S \cup {s} : m <= s
        BY <2>7, <3>1, <3>2
      <4> QED
        BY <4>1 DEF Greatest
    <3>3. CASE ~(s > max)
      <4>1. \A m \in S \cup {s} : m <= max
        BY <2>7, <3>1, <3>3
      <4> QED
        BY <3>1, <4>1 DEF Greatest
    <3> QED
      BY <3>2, <3>3
  <2> QED
    BY <2>4, <2>5, <2>6, <2>7
<1>4. T = Nat
  <2>1. T \subseteq Nat
    OBVIOUS
  <2> HIDE DEF T
  <2> QED
    BY <1>2, <1>3, <2>1, Induction
<1>5. Greatest(Seqs(f))
  <2>1. Len(f) \in T
    BY <1>4
  <2> QED
    BY <2>1
<1>6. LastSeq(f) \in Seqs(f) \cup {0} /\ \A m \in Seqs(f) : m <= LastSeq(f)
  BY <1>5 DEF LastSeq
<1> QED
  BY <1>6, SeqsAreNumbers

\* What one more chunk does to the last seq.
LEMMA WrittenLastSeq ==
  ASSUME NEW f \in Seq(Chunk), NEW c \in Chunk
  PROVE  /\ c.part # "rest" => LastSeq(Append(f, c)) = LastSeq(f)
         /\ c.part = "rest" /\ c.seq > LastSeq(f) => LastSeq(Append(f, c)) = c.seq
<1> DEFINE g == Append(f, c)
<1>1. g \in Seq(Chunk) /\ c.seq \in Nat
  BY DEF Chunk
<1>2. Seqs(g) = IF c.part = "rest" THEN Seqs(f) \cup {c.seq} ELSE Seqs(f)
  BY WrittenSeqs
<1> HIDE DEF g
<1>3. c.part # "rest" => LastSeq(g) = LastSeq(f)
  BY <1>2 DEF LastSeq
<1>4. /\ LastSeq(f) \in Nat /\ Seqs(f) \subseteq Nat /\ \A m \in Seqs(f) : m <= LastSeq(f)
      /\ LastSeq(g) \in Nat /\ LastSeq(g) \in Seqs(g) \cup {0} /\ \A m \in Seqs(g) : m <= LastSeq(g)
  BY <1>1, LastSeqGreatest
<1>5. c.part = "rest" /\ c.seq > LastSeq(f) => LastSeq(g) = c.seq
  <2> SUFFICES ASSUME c.part = "rest", c.seq > LastSeq(f) PROVE LastSeq(g) = c.seq
    OBVIOUS
  <2>1. Seqs(g) = Seqs(f) \cup {c.seq}
    BY <1>2
  <2>2. c.seq <= LastSeq(g)
    BY <1>4, <2>1
  <2>3. LastSeq(g) = c.seq \/ LastSeq(g) \in Seqs(f) \/ LastSeq(g) = 0
    BY <1>4, <2>1
  <2> QED
    BY <1>1, <1>4, <2>2, <2>3
<1> QED
  BY <1>3, <1>5 DEF g

-----------------------------------------------------------------------------
\* The recursion of read is well defined: at each chunk it goes on from what
\* it has of the chunks before.
LEMMA UnseenRecursion ==
  ASSUME NEW f \in Seq(Chunk), NEW since \in Nat
  PROVE  \E out :
           /\ Unseen(f, since) = out[Len(f)]
           /\ out[0] = <<>>
           /\ \A i \in 1 .. Len(f) :
                out[i] = IF f[i].part = "rest" /\ f[i].seq > since
                         THEN Append(out[i - 1], f[i].seq) ELSE out[i - 1]
<1> DEFINE Pass(i, s) == IF f[i].part = "rest" /\ f[i].seq > since
                         THEN Append(s, f[i].seq) ELSE s
           Good(out, n) == out = [i \in 0 .. n |-> IF i = 0 THEN <<>> ELSE Pass(i, out[i - 1])]
           T == {n \in Nat : \E out : Good(out, n)}
<1>0. Unseen(f, since) =
        LET out == CHOOSE out : Good(out, Len(f)) IN out[Len(f)]
  BY DEF Unseen
<1> HIDE DEF Pass
<1>1. 0 \in T
  <2>1. Good([i \in 0 .. 0 |-> <<>>], 0)
    OBVIOUS
  <2> QED
    BY <2>1
<1>2. ASSUME NEW n \in T PROVE n + 1 \in T
  <2>1. PICK out : Good(out, n)
    OBVIOUS
  <2> DEFINE on == [i \in 0 .. n + 1 |-> IF i = n + 1 THEN Pass(i, out[n]) ELSE out[i]]
  <2>2. Good(on, n + 1)
    <3>1. n \in Nat
      OBVIOUS
    <3>2. ASSUME NEW i \in 0 .. n + 1
          PROVE  on[i] = IF i = 0 THEN <<>> ELSE Pass(i, on[i - 1])
      <4>1. CASE i = n + 1
        BY <3>1, <4>1
      <4>2. CASE i # n + 1
        BY <2>1, <3>1, <4>2
      <4> QED
        BY <4>1, <4>2
    <3> QED
      BY <3>1, <3>2
  <2>3. n + 1 \in Nat
    OBVIOUS
  <2> HIDE DEF on, Good
  <2> QED
    BY <2>2, <2>3
<1>3. T = Nat
  <2>1. T \subseteq Nat
    OBVIOUS
  <2> HIDE DEF T
  <2> QED
    BY <1>1, <1>2, <2>1, Induction
<1>4. Len(f) \in Nat /\ \E out : Good(out, Len(f))
  BY <1>3
<1>5. PICK out : Unseen(f, since) = out[Len(f)] /\ Good(out, Len(f))
  BY <1>0, <1>4
<1>6. out[0] = <<>>
  BY <1>4, <1>5
<1>7. \A i \in 1 .. Len(f) : out[i] = Pass(i, out[i - 1])
  BY <1>4, <1>5
<1> QED
  BY <1>5, <1>6, <1>7 DEF Pass

\* A read of a file that parses, with its lines in order, returns the seqs
\* past the cursor, one after another up to the last.
LEMMA UnseenInOrder ==
  ASSUME NEW f \in Seq(Chunk), Parsable(f),
         \A i \in DOMAIN f : Placed(f[i], i),
         NEW since \in Nat
  PROVE  Unseen(f, since) = [k \in 1 .. LastSeq(f) - since |-> since + k]
<1> DEFINE From(n) == [k \in 1 .. n - since |-> since + k]
<1>1. PICK out :
        /\ Unseen(f, since) = out[Len(f)]
        /\ out[0] = <<>>
        /\ \A i \in 1 .. Len(f) :
             out[i] = IF f[i].part = "rest" /\ f[i].seq > since
                      THEN Append(out[i - 1], f[i].seq) ELSE out[i - 1]
  BY UnseenRecursion
<1> DEFINE Q(i) == \E n \in Nat : 3 * n - 1 <= i /\ i < 3 * n + 2 /\ out[i] = From(n)
           T == {i \in Nat : i <= Len(f) => Q(i)}
<1>2. 0 \in T
  <2>1. From(0) = <<>>
    OBVIOUS
  <2>2. Q(0)
    <3>1. out[0] = From(0)
      BY <1>1, <2>1
    <3> HIDE DEF From
    <3> QED
      BY <3>1
  <2> QED
    BY <2>2
<1>3. ASSUME NEW n \in Nat, n + 1 > since PROVE Append(From(n), n + 1) = From(n + 1)
  <2>1. From(n) \in Seq(Nat) /\ Len(From(n)) = n - since /\ DOMAIN From(n) = 1 .. n - since
    BY <1>3
  <2>2. Append(From(n), n + 1) = [k \in 1 .. n - since + 1 |->
          IF k = n - since + 1 THEN n + 1 ELSE From(n)[k]]
    <3> HIDE DEF From
    <3> QED
      BY <1>3, <2>1
  <2>3. From(n + 1) = [k \in 1 .. n - since + 1 |->
          IF k = n - since + 1 THEN n + 1 ELSE From(n)[k]]
    <3>1. (n + 1) - since = n - since + 1
      OBVIOUS
    <3>2. ASSUME NEW k \in 1 .. n - since + 1
          PROVE  since + k = IF k = n - since + 1 THEN n + 1 ELSE From(n)[k]
      OBVIOUS
    <3>3. From(n + 1) = [k \in 1 .. n - since + 1 |-> since + k]
      BY <3>1
    <3> HIDE DEF From
    <3> QED
      BY <3>2, <3>3
  <2> QED
    BY <2>2, <2>3
<1>4. ASSUME NEW n \in Nat, ~(n + 1 > since) PROVE From(n) = From(n + 1)
  BY <1>4
<1> HIDE DEF From
<1>5. ASSUME NEW i \in T PROVE i + 1 \in T
  <2> SUFFICES ASSUME i + 1 <= Len(f) PROVE Q(i + 1)
    OBVIOUS
  <2>1. PICK n \in Nat : 3 * n - 1 <= i /\ i < 3 * n + 2 /\ out[i] = From(n)
    OBVIOUS
  <2>2. i \in Nat /\ i + 1 \in DOMAIN f /\ i + 1 \in 1 .. Len(f) /\ (i + 1) - 1 = i
    OBVIOUS
  <2>3. f[i + 1] \in Chunk /\ Placed(f[i + 1], i + 1)
    BY <2>2
  <2>4. out[i + 1] = IF f[i + 1].part = "rest" /\ f[i + 1].seq > since
                     THEN Append(out[i], f[i + 1].seq) ELSE out[i]
    BY <1>1, <2>2
  <2> DEFINE s == f[i + 1].seq
  <2>5. s \in Nat /\ f[i + 1].part \in {"head", "rest", "newline"}
    BY <2>3 DEF Chunk, Parts
  <2> HIDE DEF Q
  <2>6. CASE f[i + 1].part = "rest"
    <3>1. i + 1 = 3 * s - 1
      BY <2>3, <2>6 DEF Placed
    <3> HIDE DEF s
    <3>2. s = n + 1
      BY <2>1, <2>2, <2>5, <3>1
    <3>3. out[i + 1] = From(n + 1)
      BY <1>3, <1>4, <2>1, <2>4, <2>6, <3>2 DEF s
    <3>4. n + 1 \in Nat /\ 3 * (n + 1) - 1 <= i + 1 /\ i + 1 < 3 * (n + 1) + 2
      BY <2>2, <3>1, <3>2
    <3> QED
      BY <3>3, <3>4 DEF Q
  <2>7. CASE f[i + 1].part # "rest"
    <3>1. i + 1 = 3 * s - 2 \/ i + 1 = 3 * s
      BY <2>3, <2>5, <2>7 DEF Placed
    <3>2. out[i + 1] = From(n)
      BY <2>1, <2>4, <2>7
    <3> HIDE DEF s
    <3>3. 3 * n - 1 <= i + 1 /\ i + 1 < 3 * n + 2
      BY <2>1, <2>2, <2>5, <3>1
    <3> QED
      BY <3>2, <3>3 DEF Q
  <2> QED
    BY <2>6, <2>7
<1>6. T = Nat
  <2>1. T \subseteq Nat
    OBVIOUS
  <2> HIDE DEF T
  <2> QED
    BY <1>2, <1>5, <2>1, Induction
<1>7. Len(f) \in Nat /\ Len(f) \in T
  BY <1>6
<1>8. PICK n \in Nat : 3 * n - 1 <= Len(f) /\ Len(f) < 3 * n + 2 /\ out[Len(f)] = From(n)
  BY <1>7
<1>9. n = LastSeq(f)
  <2>1. /\ LastSeq(f) \in Nat /\ LastSeq(f) \in Seqs(f) \cup {0}
        /\ \A m \in Seqs(f) : m <= LastSeq(f)
        /\ f = <<>> => LastSeq(f) = 0
        /\ f # <<>> /\ f[Len(f)].part = "newline" => Len(f) = 3 * LastSeq(f)
    BY LastSeqInOrder, LastSeqGreatest
  <2>2. CASE f = <<>>
    BY <1>8, <2>1, <2>2
  <2>3. CASE f # <<>>
    <3>1. Len(f) \in DOMAIN f /\ f[Len(f)] \in Chunk
      BY <2>3
    <3>2. CASE f[Len(f)].part = "newline"
      BY <1>7, <1>8, <2>1, <2>3, <3>2
    <3>3. CASE f[Len(f)].part = "rest"
      <4>1. f[Len(f)].seq \in Seqs(f) /\ Len(f) = 3 * f[Len(f)].seq - 1
        BY <3>1, <3>3 DEF Seqs, Placed
      <4>2. f[Len(f)].seq \in Nat /\ f[Len(f)].seq <= LastSeq(f)
        BY <2>1, <3>1, <4>1 DEF Chunk
      <4>3. LastSeq(f) <= f[Len(f)].seq
        <5> SUFFICES ASSUME NEW j \in DOMAIN f, f[j].part = "rest", LastSeq(f) = f[j].seq
                     PROVE  LastSeq(f) <= f[Len(f)].seq
          BY <2>1, <4>2 DEF Seqs
        <5>1. j = 3 * f[j].seq - 1 /\ j <= Len(f)
          BY DEF Placed
        <5> QED
          BY <2>1, <4>1, <4>2, <5>1
      <4> QED
        BY <1>7, <1>8, <2>1, <4>1, <4>2, <4>3
    <3> QED
      BY <2>3, <3>1, <3>2, <3>3 DEF Parsable, Chunk, Parts
  <2> QED
    BY <2>2, <2>3
<1> QED
  BY <1>1, <1>8, <1>9 DEF From

-----------------------------------------------------------------------------
\* The seq a writer works on is next to the last on the file until its event
\* is on it, and the last from then on.
Current ==
  \A w \in Writers :
    /\ pc[w] \in {"write", "torn"} => seq[w] = LastSeq(file) + 1
    /\ pc[w] \in {"unended", "ended", "durable"} => seq[w] = LastSeq(file)

\* What a reader has is the events from the first on.
Following == seen \in [Readers -> Seq(Nat)] /\ ReaderInOrder

RInv == IInv /\ Current /\ Following

\* A cursor is the number of events delivered, and a read brings the reader to
\* the end of the log.
LEMMA Delivery ==
  ASSUME RInv, NEW r \in Readers, Read(r)
  PROVE  seen' = [seen EXCEPT ![r] = [n \in 1 .. LastSeq(file) |-> n]]
<1> DEFINE since == IF seen[r] = <<>> THEN 0 ELSE seen[r][Len(seen[r])]
           old == seen[r]
<1>1. /\ Parsable(file) /\ Unseen(file, since) # <<>>
      /\ seen' = [seen EXCEPT ![r] = seen[r] \o Unseen(file, since)]
  BY DEF Read
<1>2. old \in Seq(Nat) /\ \A k \in DOMAIN old : old[k] = k
  BY DEF RInv, Following, ReaderInOrder
<1>3. since = Len(old) /\ since \in Nat
  BY <1>2
<1>4. file \in Seq(Chunk) /\ \A i \in DOMAIN file : Placed(file[i], i)
  BY <1>1, ParsableChained DEF RInv, IInv, WriterTypeOK, Layout
<1>5. LastSeq(file) \in Nat
  BY <1>4, LastSeqGreatest
<1> HIDE DEF since
<1> DEFINE L == LastSeq(file)
           more == [k \in 1 .. L - since |-> since + k]
<1>6. Unseen(file, since) = more
  BY <1>1, <1>3, <1>4, UnseenInOrder
<1> HIDE DEF L
<1>7. L > since
  <2> SUFFICES ASSUME ~(L > since) PROVE FALSE
    OBVIOUS
  <2>1. more = <<>>
    BY <1>3, <1>5 DEF L
  <2> QED
    BY <1>1, <1>6, <2>1
<1>8. more \in Seq(Nat) /\ Len(more) = L - since /\ \A k \in 1 .. L - since : more[k] = since + k
  BY <1>3, <1>5, <1>7 DEF L
<1> HIDE DEF more
<1> HIDE DEF old
<1>9. old \o more = [n \in 1 .. L |-> n]
  <2> DEFINE both == old \o more
  <2>1. both = [n \in 1 .. Len(old) + Len(more) |->
                  IF n <= Len(old) THEN old[n] ELSE more[n - Len(old)]]
    <3>1. both \in Seq(Nat) /\ Len(both) = Len(old) + Len(more)
      BY <1>2, <1>8
    <3>2. \A n \in 1 .. Len(both) :
            both[n] = IF n <= Len(old) THEN old[n] ELSE more[n - Len(old)]
      BY <1>2, <1>8
    <3> HIDE DEF both
    <3>3. both = [n \in 1 .. Len(both) |-> both[n]]
      BY <3>1
    <3> QED
      BY <3>1, <3>2, <3>3
  <2>2. Len(old) + Len(more) = L
    BY <1>3, <1>5, <1>8 DEF L
  <2>3. ASSUME NEW n \in 1 .. L
        PROVE  n = IF n <= Len(old) THEN old[n] ELSE more[n - Len(old)]
    <3>1. CASE n <= Len(old)
      BY <1>2, <3>1
    <3>2. CASE ~(n <= Len(old))
      <4>1. n - Len(old) \in 1 .. L - since
        BY <1>3, <1>5, <3>2 DEF L
      <4> QED
        BY <1>3, <1>5, <1>8, <3>2, <4>1 DEF L
    <3> QED
      BY <3>1, <3>2
  <2> QED
    BY <2>1, <2>2, <2>3
<1> QED
  BY <1>1, <1>6, <1>9 DEF L, old

\* Only the rest of a line makes the last seq grow, by one.
LEMMA Grows ==
  ASSUME RInv, NEW w \in Writers
  PROVE  /\ WriteHead(w) \/ WriteNewline(w) => LastSeq(file)' = LastSeq(file)
         /\ WriteRest(w) => LastSeq(file)' = LastSeq(file) + 1
<1>1. file \in Seq(Chunk) /\ seq[w] \in Nat
  BY DEF RInv, IInv, WriterTypeOK
<1>2. LastSeq(file) \in Nat
  BY <1>1, LastSeqGreatest
<1>3. ASSUME NEW part \in Parts, Write(w, part), seq[w] > 0
      PROVE  /\ part # "rest" => LastSeq(file)' = LastSeq(file)
             /\ part = "rest" /\ seq[w] > LastSeq(file) => LastSeq(file)' = seq[w]
  <2> DEFINE c == [part |-> part, seq |-> seq[w]]
  <2>1. c \in Chunk /\ c.part = part /\ c.seq = seq[w]
    BY <1>1, <1>3 DEF Chunk
  <2>2. file' = Append(file, c)
    BY <1>3 DEF Write
  <2>3. LastSeq(file)' = LastSeq(Append(file, c))
    BY <2>2 DEF LastSeq, Seqs
  <2> HIDE DEF c
  <2> QED
    BY <1>1, <2>1, <2>3, WrittenLastSeq
<1>4. pc[w] # "idle" => seq[w] > 0
  BY DEF RInv, IInv, Fresh
<1>5. WriteHead(w) => LastSeq(file)' = LastSeq(file)
  BY <1>3, <1>4 DEF WriteHead, Step, Parts
<1>6. WriteNewline(w) => LastSeq(file)' = LastSeq(file)
  BY <1>3, <1>4 DEF WriteNewline, Step, Parts
<1>7. WriteRest(w) => LastSeq(file)' = LastSeq(file) + 1
  <2> SUFFICES ASSUME WriteRest(w) PROVE LastSeq(file)' = LastSeq(file) + 1
    OBVIOUS
  <2>1. pc[w] = "torn" /\ Write(w, "rest")
    BY DEF WriteRest, Step
  <2>2. seq[w] = LastSeq(file) + 1
    BY <2>1 DEF RInv, Current
  <2>3. seq[w] > 0 /\ seq[w] > LastSeq(file) /\ "rest" \in Parts
    BY <1>2, <2>2 DEF Parts
  <2> QED
    BY <1>3, <2>1, <2>2, <2>3
<1> QED
  BY <1>5, <1>6, <1>7

\* What a crash leaves of the file holds every acknowledged event and none
\* that was not there.
LEMMA Shrinks ==
  ASSUME RInv, Crash
  PROVE  /\ LastSeq(file)' \in 0 .. LastSeq(file)
         /\ \A k \in DOMAIN acks : acks[k] <= LastSeq(file)'
<1>1. PICK k \in synced .. Len(file) : file' = SubSeq(file, 1, k)
  BY DEF Crash
<1> DEFINE kept == SubSeq(file, 1, k)
<1>2. file \in Seq(Chunk) /\ synced \in 0 .. Len(file) /\ acks \in Seq(Nat)
  BY DEF RInv, IInv, WriterTypeOK
<1>3. k \in 0 .. Len(file) /\ synced <= k
  BY <1>1, <1>2
<1>4. /\ kept \in Seq(Chunk) /\ DOMAIN kept = 1 .. k
      /\ \A i \in 1 .. k : i \in DOMAIN file /\ kept[i] = file[i]
  BY <1>2, <1>3
<1>5. LastSeq(file)' = LastSeq(kept)
  BY <1>1 DEF LastSeq, Seqs
<1> HIDE DEF kept
<1>6. Seqs(kept) \subseteq Seqs(file)
  BY <1>4 DEF Seqs
<1>7. /\ LastSeq(kept) \in Nat /\ LastSeq(kept) \in Seqs(kept) \cup {0}
      /\ \A m \in Seqs(kept) : m <= LastSeq(kept)
      /\ LastSeq(file) \in Nat /\ \A m \in Seqs(file) : m <= LastSeq(file)
  BY <1>2, <1>4, LastSeqGreatest
<1>8. LastSeq(kept) \in 0 .. LastSeq(file)
  BY <1>6, <1>7
<1>9. ASSUME NEW n \in DOMAIN acks PROVE acks[n] <= LastSeq(kept)
  <2>1. PICK i \in 1 .. synced : file[i] = [part |-> "rest", seq |-> acks[n]]
    BY DEF RInv, IInv, AckedDurable
  <2>2. i \in DOMAIN kept /\ kept[i] = file[i]
    BY <1>2, <1>3, <1>4
  <2>3. kept[i].part = "rest" /\ kept[i].seq = acks[n]
    BY <2>1, <2>2
  <2>4. acks[n] \in Seqs(kept)
    BY <2>2, <2>3 DEF Seqs
  <2> QED
    BY <1>7, <2>4
<1> QED
  BY <1>5, <1>8, <1>9

\* RInv is inductive, given that IInv is.
LEMMA ReadersStep == ASSUME RInv, [Next]_vars PROVE RInv'
<1>0. IInv'
  BY Preservation DEF RInv
<1>1. /\ seq \in [Writers -> Nat] /\ pc \in [Writers -> Steps]
      /\ LastSeq(file) \in Nat
  BY LastSeqGreatest DEF RInv, IInv, WriterTypeOK
<1>2. file' = file => LastSeq(file)' = LastSeq(file)
  BY DEF LastSeq, Seqs
<1>3. seen' = seen => Following'
  BY DEF RInv, Following, ReaderInOrder
<1>4. (\A v \in Writers : pc'[v] = "idle") => Current'
  BY DEF Current
<1>5. ASSUME NEW w \in Writers, BeginAppend(w) PROVE RInv'
  <2>1. /\ pc[w] = "idle" /\ pc' = [pc EXCEPT ![w] = "write"] /\ lock = NoWriter
        /\ seq' = [seq EXCEPT ![w] = LastSeq(file) + 1] /\ UNCHANGED <<file, seen>>
    BY <1>5 DEF BeginAppend, Step
  <2>2. \A v \in Writers : pc[v] = "idle"
    BY <2>1, LedgerAssumption DEF RInv, IInv, Exclusive
  <2>3. Current'
    BY <1>1, <1>2, <2>1, <2>2 DEF Current
  <2> QED
    BY <1>0, <1>3, <2>1, <2>3 DEF RInv
<1>6. ASSUME NEW w \in Writers, AppendStep(w) PROVE RInv'
  <2>1. \A v \in Writers : v # w => pc[v] = "idle" \/ pc[w] = "idle"
    BY DEF RInv, IInv, Exclusive
  <2>2. pc[w] # "idle" /\ seen' = seen
    BY <1>6 DEF AppendStep, WriteHead, WriteRest, WriteNewline, Sync, Ack, Step
  <2>3. CASE WriteHead(w)
    <3>1. Current'
      BY <1>1, <2>1, <2>3, Grows DEF RInv, Current, WriteHead, Step
    <3> QED
      BY <1>0, <1>3, <2>2, <3>1 DEF RInv
  <2>4. CASE WriteRest(w)
    <3>1. LastSeq(file)' = LastSeq(file) + 1
      BY <2>4, Grows
    <3>2. Current'
      BY <1>1, <2>1, <2>4, <3>1 DEF RInv, Current, WriteRest, Step
    <3> QED
      BY <1>0, <1>3, <2>2, <3>2 DEF RInv
  <2>5. CASE WriteNewline(w)
    <3>1. Current'
      BY <1>1, <2>1, <2>5, Grows DEF RInv, Current, WriteNewline, Step
    <3> QED
      BY <1>0, <1>3, <2>2, <3>1 DEF RInv
  <2>6. CASE Sync(w)
    <3>1. Current'
      BY <1>1, <1>2, <2>1, <2>6 DEF RInv, Current, Sync, Step
    <3> QED
      BY <1>0, <1>3, <2>2, <3>1 DEF RInv
  <2>7. CASE Ack(w)
    <3>1. Current'
      BY <1>1, <1>2, <2>1, <2>7 DEF RInv, Current, Ack, Step
    <3> QED
      BY <1>0, <1>3, <2>2, <3>1 DEF RInv
  <2> QED
    BY <1>6, <2>3, <2>4, <2>5, <2>6, <2>7 DEF AppendStep
<1>7. ASSUME NEW w \in Writers, IOError(w) PROVE RInv'
  <2>1. Current'
    BY <1>1, <1>2, <1>7 DEF RInv, Current, IOError
  <2> QED
    BY <1>0, <1>3, <1>7, <2>1 DEF RInv, IOError
<1>8. ASSUME NEW r \in Readers, Read(r) PROVE RInv'
  <2>1. UNCHANGED <<file, pc, seq>>
    BY <1>8 DEF Read
  <2>2. seen' = [seen EXCEPT ![r] = [n \in 1 .. LastSeq(file) |-> n]]
    BY <1>8, Delivery
  <2> DEFINE whole == [n \in 1 .. LastSeq(file) |-> n]
  <2>3. whole \in Seq(Nat) /\ \A n \in DOMAIN whole : whole[n] = n
    BY <1>1
  <2> HIDE DEF whole
  <2>4. Following'
    BY <2>2, <2>3 DEF RInv, Following, ReaderInOrder, whole
  <2>5. Current'
    BY <1>2, <2>1 DEF RInv, Current
  <2> QED
    BY <1>0, <2>4, <2>5 DEF RInv
<1>9. CASE Crash
  <2>1. pc' = [v \in Writers |-> "idle"] /\ seen' = [r \in Readers |-> <<>>]
    BY <1>9 DEF Crash
  <2>2. Following'
    BY <2>1 DEF Following, ReaderInOrder
  <2> QED
    BY <1>0, <1>4, <2>1, <2>2 DEF RInv
<1>10. CASE UNCHANGED vars
  <2>1. Current'
    BY <1>2, <1>10 DEF vars, RInv, Current
  <2> QED
    BY <1>0, <1>3, <1>10, <2>1 DEF vars, RInv
<1> QED
  BY <1>5, <1>6, <1>7, <1>8, <1>9, <1>10 DEF Next

LEMMA ReadersInitially == Init => RInv
<1> SUFFICES ASSUME Init PROVE RInv
  OBVIOUS
<1>1. IInv
  BY Initial
<1> QED
  BY <1>1 DEF Init, RInv, Current, Following, ReaderInOrder

\* The readers' part of the state keeps to RInv in every behaviour.
THEOREM ReadersInvariance == Spec => []RInv
<1>1. RInv /\ [Next]_vars => RInv'
  BY ReadersStep
<1> QED
  BY ReadersInitially, <1>1, PTL DEF Spec

\* Type correctness of writers and readers: seqs are positive, so that no
\* cursor passes over an event (append, read).
THEOREM TypesCorrect == Spec => []TypeOK
<1>1. RInv => TypeOK
  BY DEF RInv, IInv, Following, TypeOK
<1> QED
  BY <1>1, ReadersInvariance, PTL

\* A reader that follows the ledger by its cursor gets every event once and in
\* order, whatever is appended, torn or lost while it reads without the lock.
THEOREM ReadersInOrder == Spec => []ReaderInOrder
<1>1. RInv => ReaderInOrder
  BY DEF RInv, Following
<1> QED
  BY <1>1, ReadersInvariance, PTL

-----------------------------------------------------------------------------
(* Every step of the ledger is a step of the log it promises, or none.     *)

LogNow == [n \in 1 .. LastSeq(file) |-> n]

LEMMA LogInitially == Init => Log!Init
<1> SUFFICES ASSUME Init PROVE Log!Init
  OBVIOUS
<1>1. file \in Seq(Chunk) /\ file = <<>>
  BY DEF Init
<1>2. Seqs(file) = {}
  BY <1>1 DEF Seqs
<1>3. LastSeq(file) = 0
  BY <1>1, <1>2, LastSeqGreatest
<1>4. [n \in 1 .. LastSeq(file) |-> n] = <<>>
  BY <1>3
<1> QED
  BY <1>4 DEF Init, Log!Init

\* Without a change of what the log is made of there is no step of the log.
LEMMA Stutter ==
  ASSUME LastSeq(file)' = LastSeq(file), UNCHANGED <<acks, seen>>
  PROVE  UNCHANGED Log!vars
BY DEF Log!vars

\* The rest of a line publishes its event.
LEMMA Publishes ==
  ASSUME RInv, NEW w \in Writers, WriteRest(w) PROVE Log!Publish
<1>1. file \in Seq(Chunk)
  BY DEF RInv, IInv, WriterTypeOK
<1>2. LastSeq(file) \in Nat
  BY <1>1, LastSeqGreatest
<1>3. LastSeq(file)' = LastSeq(file) + 1
  BY Grows
<1>4. ASSUME NEW L \in Nat
      PROVE  [n \in 1 .. L + 1 |-> n] = Append([n \in 1 .. L |-> n], Len([n \in 1 .. L |-> n]) + 1)
  <2> DEFINE l == [n \in 1 .. L |-> n]
  <2>1. l \in Seq(Nat) /\ Len(l) = L /\ \A n \in 1 .. L : l[n] = n
    OBVIOUS
  <2> HIDE DEF l
  <2>2. Append(l, L + 1) = [n \in 1 .. L + 1 |-> IF n = L + 1 THEN L + 1 ELSE l[n]]
    BY <2>1
  <2>3. \A n \in 1 .. L + 1 : n = IF n = L + 1 THEN L + 1 ELSE l[n]
    BY <2>1
  <2>4. [n \in 1 .. L + 1 |-> n] = Append(l, Len(l) + 1)
    BY <2>1, <2>2, <2>3
  <2> QED
    BY <2>4 DEF l
<1>5. [n \in 1 .. LastSeq(file)' |-> n]
        = Append([n \in 1 .. LastSeq(file) |-> n], Len([n \in 1 .. LastSeq(file) |-> n]) + 1)
  BY <1>2, <1>3, <1>4
<1>6. UNCHANGED <<acks, seen>>
  BY DEF WriteRest
<1> QED
  BY <1>5, <1>6 DEF Log!Publish

\* Ok(event) acknowledges an event of the log after those acknowledged.
LEMMA Acknowledges ==
  ASSUME RInv, NEW w \in Writers, Ack(w) PROVE Log!Acknowledge
<1>1. file \in Seq(Chunk) /\ acks \in Seq(Nat) /\ seq[w] \in Nat
  BY DEF RInv, IInv, WriterTypeOK
<1>2. LastSeq(file) \in Nat /\ LastSeq(file)' = LastSeq(file)
  <2>1. LastSeq(file) \in Nat
    BY <1>1, LastSeqGreatest
  <2>2. LastSeq(file)' = LastSeq(file)
    BY DEF Ack, LastSeq, Seqs
  <2> QED
    BY <2>1, <2>2
<1>3. pc[w] = "durable" /\ acks' = Append(acks, seq[w]) /\ seen' = seen
  BY DEF Ack, Step
<1>4. seq[w] = LastSeq(file) /\ seq[w] > 0 /\ \A k \in DOMAIN acks : acks[k] < seq[w]
  BY <1>3 DEF RInv, IInv, Current, Fresh
<1>5. Log!LastAck \in Nat /\ Log!LastAck < seq[w]
  BY <1>1, <1>4 DEF Log!LastAck
<1> DEFINE L == LastSeq(file)
<1> HIDE DEF L
<1>6. Len([n \in 1 .. L |-> n]) = L /\ [n \in 1 .. L |-> n][seq[w]] = seq[w]
  BY <1>2, <1>4 DEF L
<1>7. seq[w] \in Log!LastAck + 1 .. Len([n \in 1 .. LastSeq(file) |-> n])
  BY <1>1, <1>2, <1>4, <1>5, <1>6 DEF L
<1>8. acks' = Append(acks, [n \in 1 .. LastSeq(file) |-> n][seq[w]])
  BY <1>3, <1>6 DEF L
<1>9. [n \in 1 .. LastSeq(file)' |-> n] = [n \in 1 .. LastSeq(file) |-> n]
  BY <1>2
<1> QED
  BY <1>3, <1>7, <1>8, <1>9 DEF Log!Acknowledge

\* A crash of the daemon loses an end of the log without acknowledged events.
LEMMA Loses == ASSUME RInv, Crash PROVE Log!Crash
<1>1. file \in Seq(Chunk) /\ acks \in Seq(Nat)
  BY DEF RInv, IInv, WriterTypeOK
<1>2. LastSeq(file) \in Nat
  BY <1>1, LastSeqGreatest
<1>3. /\ LastSeq(file)' \in 0 .. LastSeq(file)
      /\ \A k \in DOMAIN acks : acks[k] <= LastSeq(file)'
  BY Shrinks
<1>4. Log!LastAck \in Nat /\ Log!LastAck <= LastSeq(file)'
  BY <1>1, <1>3 DEF Log!LastAck
<1>5. ASSUME NEW L \in Nat, NEW K \in 0 .. L
      PROVE  [n \in 1 .. K |-> n] = SubSeq([n \in 1 .. L |-> n], 1, K)
             /\ Len([n \in 1 .. L |-> n]) = L
  OBVIOUS
<1>6. /\ [n \in 1 .. LastSeq(file)' |-> n]
           = SubSeq([n \in 1 .. LastSeq(file) |-> n], 1, LastSeq(file)')
      /\ Len([n \in 1 .. LastSeq(file) |-> n]) = LastSeq(file)
  BY <1>2, <1>3, <1>5
<1>7. LastSeq(file)' \in Log!LastAck .. Len([n \in 1 .. LastSeq(file) |-> n])
  BY <1>2, <1>3, <1>4, <1>6
<1>8. seen' = [r \in Readers |-> <<>>] /\ acks' = acks
  BY DEF Crash
<1> QED
  BY <1>6, <1>7, <1>8 DEF Log!Crash

\* A read brings its reader to the end of the log.
LEMMA Delivers ==
  ASSUME RInv, NEW r \in Readers, Read(r) PROVE Log!Deliver(r)
<1>1. seen' = [seen EXCEPT ![r] = [n \in 1 .. LastSeq(file) |-> n]]
  BY Delivery
<1>2. acks' = acks /\ LastSeq(file)' = LastSeq(file)
  BY DEF Read, LastSeq, Seqs
<1> QED
  BY <1>1, <1>2 DEF Log!Deliver

LEMMA LogStep == ASSUME RInv, [Next]_vars PROVE [Log!Next]_(Log!vars)
<1>1. ASSUME NEW w \in Writers, BeginAppend(w) \/ IOError(w) \/ Sync(w)
      PROVE  UNCHANGED Log!vars
  <2>1. LastSeq(file)' = LastSeq(file) /\ UNCHANGED <<acks, seen>>
    BY <1>1 DEF BeginAppend, IOError, Sync, LastSeq, Seqs
  <2> QED
    BY <2>1, Stutter
<1>2. ASSUME NEW w \in Writers, WriteHead(w) \/ WriteNewline(w)
      PROVE  UNCHANGED Log!vars
  <2>1. LastSeq(file)' = LastSeq(file) /\ UNCHANGED <<acks, seen>>
    BY <1>2, Grows DEF WriteHead, WriteNewline
  <2> QED
    BY <2>1, Stutter
<1>3. CASE UNCHANGED vars
  <2>1. LastSeq(file)' = LastSeq(file) /\ UNCHANGED <<acks, seen>>
    BY <1>3 DEF vars, LastSeq, Seqs
  <2> QED
    BY <2>1, Stutter
<1>4. CASE Next
  BY <1>1, <1>2, <1>4, Publishes, Acknowledges, Loses, Delivers DEF Next, AppendStep, Log!Next
<1> QED
  BY <1>3, <1>4

\* append under seq_lock and reads without it implement the atomic event log:
\* one event at a time appears in it, is acknowledged in order and at most
\* once and then survives every crash, and readers receive a prefix of it.
THEOREM LedgerIsEventLog == Spec => ImplementsEventLog
<1>1. RInv /\ [Next]_vars => [Log!Next]_(Log!vars)
  BY LogStep
<1> QED
  BY LogInitially, <1>1, ReadersInvariance, PTL DEF Spec, ImplementsEventLog, Log!Spec

=============================================================================
