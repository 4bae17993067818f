-------------------------- MODULE QueryLoaderProofs --------------------------
(***************************************************************************)
(* Proofs about the bulk loader of the store query test (QueryLoader): the *)
(* loader is well typed and, once the scope has ended, the store holds     *)
(* every record the drain took from the vector, for every CSV and chunk    *)
(* size.                                                                   *)
(*                                                                         *)
(* The argument follows a record through its places: the CSV, a builder,  *)
(* the vector, the chunk, a writer, the store. The records not yet drained *)
(* (CSV, builders, vector) are disjoint from every later place, and the    *)
(* records reach every place between them; while the closure holds the    *)
(* mutex no builder pushes, so the vector is drained to its end and the    *)
(* last, partial chunk is flushed.                                         *)
(***************************************************************************)
EXTENDS QueryLoader, FiniteSets, FiniteSetTheorems, SequenceTheorems, TLAPS

\* The records the drain has not taken yet: they may still reach the vector.
Undrained == ToSet(csv) \cup builders \cup ToSet(documents)

\* The records handed to writer tasks that have not run.
InWriters == UNION {ToSet(w) : w \in writers}

\* A record is in one place at a time among CSV, builders and vector, and
\* appears once in the CSV and once in the vector.
Distinct ==
    /\ IsInjective(csv)
    /\ IsInjective(documents)
    /\ ToSet(csv) \cap builders = {}
    /\ ToSet(csv) \cap ToSet(documents) = {}
    /\ builders \cap ToSet(documents) = {}

\* Nothing drained, chunked, handed to a writer or stored can come back to
\* the vector.
Separated ==
    /\ ToSet(chunk) \cap Undrained = {}
    /\ InWriters \cap Undrained = {}
    /\ stored \cap Undrained = {}

\* Every record is in one of the places.
Covered ==
    RecordSet \subseteq Undrained \cup ToSet(chunk) \cup InWriters \cup stored

\* The records counted: each one read from the CSV is a builder, a pushed
\* document or one of the pos drained.
Counted ==
    /\ IsFiniteSet(builders)
    /\ Len(csv) + Cardinality(builders) + Len(documents) + pos = Len(Records)

\* Where the closure is: spawning, nothing is drained; draining, it holds
\* the mutex, the vector still holds len - pos documents and the chunk is
\* empty once all are drained; after the drain the CSV is read and the last
\* chunk flushed.
Phase ==
    /\ held <=> main = "drain"
    /\ main = "spawn" => pos = 0 /\ chunk = <<>>
    /\ main # "spawn" => csv = <<>>
    /\ main = "drain" => Len(documents) + pos = len /\ (pos = len => chunk = <<>>)
    /\ main \in {"done", "tested"} => chunk = <<>>
    /\ main = "tested" => builders = {} /\ writers = {}

IInv ==
    /\ TypeOK
    /\ Distinct
    /\ Separated
    /\ Covered
    /\ Counted
    /\ Phase

-----------------------------------------------------------------------------
(* Lemmas on the sequence operators the loader uses                        *)

\* Appending x adds x to the elements of a sequence.
LEMMA ToSetAppend ==
    ASSUME NEW S, NEW s \in Seq(S), NEW x \in S
    PROVE  ToSet(Append(s, x)) = ToSet(s) \cup {x}
BY AppendProperties DEF ToSet

\* A non-empty sequence holds its head and the elements of its tail.
LEMMA ToSetTail ==
    ASSUME NEW S, NEW s \in Seq(S), s # <<>>
    PROVE  ToSet(s) = {Head(s)} \cup ToSet(Tail(s))
<1>1. Len(s) \in Nat \ {0} /\ DOMAIN s = 1..Len(s)
    BY EmptySeq, LenProperties
<1>2. DOMAIN Tail(s) = 1..(Len(s) - 1) /\ \A i \in 1..(Len(s) - 1) : Tail(s)[i] = s[i + 1]
    BY HeadTailProperties, LenProperties
<1>3. Head(s) = s[1]
    OBVIOUS
<1>4. ASSUME NEW i \in 1..Len(s) PROVE s[i] \in {Head(s)} \cup ToSet(Tail(s))
    <2>1. CASE i = 1
        BY <2>1, <1>3
    <2>2. CASE i # 1
        <3>1. i - 1 \in 1..(Len(s) - 1) /\ Tail(s)[i - 1] = s[i]
            BY <2>2, <1>1, <1>2
        <3>. QED BY <3>1, <1>2 DEF ToSet
    <2>. QED BY <2>1, <2>2
<1>5. ToSet(Tail(s)) \subseteq ToSet(s)
    BY <1>1, <1>2 DEF ToSet
<1>. QED BY <1>1, <1>3, <1>4, <1>5 DEF ToSet

\* An injective sequence does not hold its head in its tail, and its tail
\* is injective.
LEMMA InjectiveTail ==
    ASSUME NEW S, NEW s \in Seq(S), s # <<>>, IsInjective(s)
    PROVE  /\ Head(s) \notin ToSet(Tail(s))
           /\ IsInjective(Tail(s))
<1>1. Len(s) \in Nat \ {0} /\ DOMAIN s = 1..Len(s)
    BY EmptySeq, LenProperties
<1>2. DOMAIN Tail(s) = 1..(Len(s) - 1) /\ \A i \in 1..(Len(s) - 1) : Tail(s)[i] = s[i + 1]
    BY HeadTailProperties, LenProperties
<1>. QED BY <1>1, <1>2 DEF ToSet, IsInjective

\* Appending a new element keeps a sequence injective.
LEMMA InjectiveAppend ==
    ASSUME NEW S, NEW s \in Seq(S), NEW x \in S, IsInjective(s), x \notin ToSet(s)
    PROVE  IsInjective(Append(s, x))
<1>1. Len(s) \in Nat /\ DOMAIN s = 1..Len(s)
    BY LenProperties
<1>2. DOMAIN Append(s, x) = 1..(Len(s) + 1)
    BY AppendProperties, LenProperties
<1>. QED BY <1>1, <1>2, AppendProperties DEF ToSet, IsInjective

\* A sequence of at most n elements of S.
LEMMA BoundedSeqIff ==
    ASSUME NEW S, NEW n \in Nat, NEW s
    PROVE  s \in BoundedSeq(S, n) <=> s \in Seq(S) /\ Len(s) <= n
<1>1. ASSUME s \in BoundedSeq(S, n) PROVE s \in Seq(S) /\ Len(s) <= n
    <2>1. PICK m \in 0..n : s \in [1..m -> S]
        BY <1>1 DEF BoundedSeq, SeqOf
    <2>2. s \in Seq(S)
        BY <2>1
    <2>. QED BY <2>1, <2>2, LenProperties
<1>2. ASSUME s \in Seq(S), Len(s) <= n PROVE s \in BoundedSeq(S, n)
    BY <1>2, LenProperties DEF BoundedSeq, SeqOf
<1>. QED BY <1>1, <1>2

-----------------------------------------------------------------------------
(* The inductive invariant                                                 *)

\* The types the steps below rely on.
LEMMA Types ==
    ASSUME IInv
    PROVE  /\ Records \in Seq(RecordSet)
           /\ csv \in Seq(RecordSet)
           /\ documents \in Seq(RecordSet)
           /\ chunk \in Seq(RecordSet) /\ Len(chunk) <= ChunkSize - 1
           /\ ChunkSize \in Nat \ {0}
           /\ Cardinality(builders) \in Nat
           /\ Len(csv) \in Nat /\ Len(documents) \in Nat /\ pos \in Nat
<1>1. ChunkSize \in Nat \ {0} /\ Records \in Seq(RecordSet)
    BY LoaderAssumption DEF RecordSet
<1>2. chunk \in Seq(RecordSet) /\ Len(chunk) <= ChunkSize - 1
    BY <1>1, BoundedSeqIff DEF IInv, TypeOK
<1>3. Cardinality(builders) \in Nat
    BY FS_CardinalityType DEF IInv, Counted
<1>. QED BY <1>1, <1>2, <1>3, LenProperties DEF IInv, TypeOK

\* The initial state satisfies the invariant.
LEMMA InitIInv == Init => IInv
<1>. SUFFICES ASSUME Init PROVE IInv
    OBVIOUS
<1>1. Records \in Seq(RecordSet) /\ ChunkSize \in Nat \ {0}
    BY LoaderAssumption DEF RecordSet
<1>2. <<>> \in BoundedSeq(RecordSet, ChunkSize - 1)
    <2>1. ChunkSize - 1 \in Nat /\ <<>> \in Seq(RecordSet) /\ Len(<<>>) = 0
        BY <1>1, EmptySeq
    <2>2. <<>> \in BoundedSeq(RecordSet, ChunkSize - 1)
            <=> <<>> \in Seq(RecordSet) /\ Len(<<>>) <= ChunkSize - 1
        BY <2>1, BoundedSeqIff
    <2>. QED BY <2>1, <2>2
<1>3. TypeOK
    <2>1. Len(Records) \in Nat
        BY <1>1, LenProperties
    <2>2. csv \in Seq(RecordSet) /\ documents \in Seq(RecordSet)
        BY <1>1, EmptySeq DEF Init
    <2>3. len \in 0..Len(Records) /\ pos \in 0..Len(Records)
        BY <2>1 DEF Init
    <2>4. chunk \in BoundedSeq(RecordSet, ChunkSize - 1)
        BY <1>2 DEF Init
    <2>5. /\ builders \subseteq RecordSet
          /\ main \in {"spawn", "drain", "done", "tested"}
          /\ held \in BOOLEAN
          /\ writers \subseteq BoundedSeq(RecordSet, ChunkSize) \ {<<>>}
          /\ stored \subseteq RecordSet
        BY DEF Init
    <2>. QED BY <2>2, <2>3, <2>4, <2>5 DEF TypeOK
<1>4. Distinct
    BY LoaderAssumption DEF Init, Distinct, ToSet, IsInjective
<1>5. Separated /\ Covered
    BY DEF Init, Separated, Covered, Undrained, InWriters, ToSet, RecordSet
<1>6. Counted
    BY <1>1, FS_EmptySet, EmptySeq DEF Init, Counted
<1>7. Phase
    BY DEF Init, Phase
<1>. QED BY <1>3, <1>4, <1>5, <1>6, <1>7 DEF IInv

\* Spawn moves the CSV's head to the builders: the undrained records are
\* the same.
LEMMA SpawnIInv ==
    ASSUME IInv, Spawn
    PROVE  IInv'
<1>. DEFINE h == Head(csv)
<1>1. /\ csv \in Seq(RecordSet) /\ documents \in Seq(RecordSet)
      /\ Cardinality(builders) \in Nat
    BY Types
<1>2. /\ h \in RecordSet /\ csv' \in Seq(RecordSet) /\ Len(csv') = Len(csv) - 1
      /\ ToSet(csv) = {h} \cup ToSet(csv')
      /\ h \notin ToSet(csv') /\ IsInjective(csv')
    BY <1>1, HeadTailProperties, ToSetTail, InjectiveTail DEF Spawn, IInv, Distinct
<1>3. h \notin builders /\ h \notin ToSet(documents)
    BY <1>2 DEF IInv, Distinct
<1>4. IsFiniteSet(builders') /\ Cardinality(builders') = Cardinality(builders) + 1
    BY <1>3, FS_AddElement DEF Spawn, IInv, Counted
<1>5. Undrained' = Undrained
    BY <1>2 DEF Spawn, Undrained
<1>6. TypeOK'
    BY <1>2 DEF Spawn, IInv, TypeOK
<1>7. Distinct'
    BY <1>2, <1>3 DEF Spawn, IInv, Distinct
<1>8. Separated' /\ Covered'
    BY <1>5 DEF Spawn, IInv, Separated, Covered, InWriters
<1>9. Counted'
    BY <1>1, <1>2, <1>4, Types DEF Spawn, IInv, Counted
<1>10. Phase'
    BY DEF Spawn, IInv, Phase
<1>. QED BY <1>6, <1>7, <1>8, <1>9, <1>10 DEF IInv

\* A builder pushes its record: the undrained records are the same, and the
\* closure does not hold the mutex, so it is not draining.
LEMMA BuildIInv ==
    ASSUME IInv, NEW r \in builders, Build(r)
    PROVE  IInv'
<1>1. /\ documents \in Seq(RecordSet) /\ Cardinality(builders) \in Nat
      /\ r \in RecordSet
    BY Types DEF IInv, TypeOK
<1>2. r \notin ToSet(documents) /\ r \notin ToSet(csv)
    BY DEF IInv, Distinct
<1>3. /\ documents' \in Seq(RecordSet) /\ Len(documents') = Len(documents) + 1
      /\ ToSet(documents') = ToSet(documents) \cup {r}
      /\ IsInjective(documents')
    BY <1>1, <1>2, AppendProperties, ToSetAppend, InjectiveAppend DEF Build, IInv, Distinct
<1>4. IsFiniteSet(builders') /\ Cardinality(builders') = Cardinality(builders) - 1
    BY FS_RemoveElement DEF Build, IInv, Counted
<1>5. Undrained' = Undrained
    BY <1>3 DEF Build, Undrained
<1>6. TypeOK'
    BY <1>3 DEF Build, IInv, TypeOK
<1>7. Distinct'
    BY <1>2, <1>3 DEF Build, IInv, Distinct
<1>8. Separated' /\ Covered'
    BY <1>5 DEF Build, IInv, Separated, Covered, InWriters
<1>9. Counted'
    BY <1>1, <1>3, <1>4, Types DEF Build, IInv, Counted
<1>10. Phase'
    BY DEF Build, IInv, Phase
<1>. QED BY <1>6, <1>7, <1>8, <1>9, <1>10 DEF IInv

\* The closure locks the vector once the CSV is read: nothing is drained
\* yet and the chunk is empty.
LEMMA LockIInv ==
    ASSUME IInv, Lock
    PROVE  IInv'
<1>1. Len(csv) = 0 /\ Cardinality(builders) \in Nat /\ Len(documents) \in Nat
    BY Types DEF Lock
<1>2. Len(documents) \in 0..Len(Records)
    BY <1>1 DEF Lock, IInv, Counted, Phase
<1>3. TypeOK'
    BY <1>2 DEF Lock, IInv, TypeOK
<1>4. Phase'
    BY <1>1 DEF Lock, IInv, Phase
<1>5. (Distinct /\ Separated /\ Covered /\ Counted)'
    BY DEF Lock, IInv, Distinct, Separated, Covered, Counted, Phase, Undrained,
           InWriters
<1>. QED BY <1>3, <1>4, <1>5 DEF IInv

\* The drain is over: the guard is dropped and the last chunk was flushed.
LEMMA ReleaseIInv ==
    ASSUME IInv, Release
    PROVE  IInv'
<1>1. pos = len
    BY EmptySeq, Types DEF Release, IInv, Phase
<1>2. Phase'
    BY <1>1 DEF Release, IInv, Phase
<1>3. (TypeOK /\ Distinct /\ Separated /\ Covered /\ Counted)'
    BY DEF Release, IInv, TypeOK, Distinct, Separated, Covered, Counted, Undrained, InWriters
<1>. QED BY <1>2, <1>3 DEF IInv

\* A writer stores its chunk: its records move from the writers to the
\* store, and none of them is undrained.
LEMMA WriteIInv ==
    ASSUME IInv, NEW c \in writers, Write(c)
    PROVE  IInv'
<1>1. ChunkSize \in Nat
    BY Types
<1>2. c \in Seq(RecordSet)
    BY <1>1, BoundedSeqIff DEF IInv, TypeOK
<1>3. ToSet(c) \subseteq RecordSet /\ ToSet(c) \subseteq InWriters
    BY <1>2, ElementOfSeq, LenProperties DEF ToSet, InWriters
<1>4. InWriters' \subseteq InWriters
    BY DEF Write, InWriters
<1>5. TypeOK'
    BY <1>3 DEF Write, IInv, TypeOK
<1>6. Separated'
    BY <1>3, <1>4 DEF Write, IInv, Separated, Undrained
<1>7. Covered'
    BY DEF Write, IInv, Covered, Undrained, InWriters
<1>8. (Distinct /\ Counted /\ Phase)'
    BY DEF Write, IInv, Distinct, Counted, Phase
<1>. QED BY <1>5, <1>6, <1>7, <1>8 DEF IInv

\* The scope ends once every task has finished.
LEMMA ScopeEndIInv ==
    ASSUME IInv, ScopeEnd
    PROVE  IInv'
BY DEF ScopeEnd, IInv, TypeOK, Distinct, Separated, Covered, Counted, Phase,
       Undrained, InWriters

\* The drain takes the vector's head into the chunk, and a flushed chunk to
\* a new writer: the head leaves the undrained records for good, and the
\* chunk is flushed when the vector's last document joins it.
LEMMA DrainIInv ==
    ASSUME IInv, Drain
    PROVE  IInv'
<1>. DEFINE h == Head(documents)
            c == Append(chunk, h)
<1>1. /\ documents \in Seq(RecordSet) /\ chunk \in Seq(RecordSet)
      /\ Len(chunk) <= ChunkSize - 1 /\ ChunkSize \in Nat \ {0}
      /\ Cardinality(builders) \in Nat /\ pos \in Nat /\ Len(csv) \in Nat
    BY Types
<1>2. /\ h \in RecordSet /\ documents' \in Seq(RecordSet)
      /\ Len(documents') = Len(documents) - 1
      /\ ToSet(documents) = {h} \cup ToSet(documents')
      /\ h \notin ToSet(documents') /\ IsInjective(documents')
    BY <1>1, HeadTailProperties, ToSetTail, InjectiveTail DEF Drain, IInv, Distinct
<1>3. /\ c \in Seq(RecordSet) /\ c # <<>> /\ Len(c) = Len(chunk) + 1
      /\ ToSet(c) = ToSet(chunk) \cup {h}
    BY <1>1, <1>2, AppendProperties, ToSetAppend
<1>4. main = "drain" /\ csv = <<>> /\ ToSet(csv) = {} /\ Len(documents) + pos = len
    BY DEF Drain, IInv, Phase, ToSet
<1>5. /\ Undrained = Undrained' \cup {h}
      /\ h \notin Undrained'
      /\ ToSet(c) \cap Undrained' = {}
    BY <1>2, <1>3, <1>4 DEF Drain, IInv, Distinct, Separated, Undrained
<1>6. /\ documents' = Tail(documents) /\ pos' = pos + 1
      /\ UNCHANGED <<csv, builders, main, held, len, stored>>
      /\ \/ Flush(c, pos) /\ writers' = writers \cup {c} /\ chunk' = <<>>
         \/ ~Flush(c, pos) /\ chunk' = c /\ writers' = writers
    BY DEF Drain
<1>7. Distinct'
    BY <1>2, <1>6 DEF IInv, Distinct
<1>8. Counted'
    BY <1>1, <1>2, <1>6 DEF IInv, Counted
<1>9. /\ len \in 0..Len(Records) /\ Len(Records) \in Nat
      /\ Len(documents) \in Nat \ {0} /\ Len(documents') \in Nat
    BY <1>1, <1>2, EmptySeq, LenProperties DEF Drain, IInv, TypeOK
<1>10. pos' \in 0..Len(Records)
    BY <1>1, <1>6, <1>8, <1>9 DEF Counted
<1>11. pos + 1 = len => Flush(c, pos)
    BY <1>1, <1>9 DEF Flush
<1>14. Len(documents') + pos' = len
    <2>1. pos' = pos + 1 /\ pos \in Nat
        BY <1>1, <1>6
    <2>2. Len(documents') = Len(documents) - 1 /\ Len(documents) \in Nat \ {0}
        BY <1>2, <1>9
    <2>3. Len(documents) + pos = len
        BY <1>4
    <2>. QED BY <2>1, <2>2, <2>3
<1>12. CASE Flush(c, pos)
    <2>1. writers' = writers \cup {c} /\ chunk' = <<>>
        BY <1>12, <1>6
    <2>2. c \in BoundedSeq(RecordSet, ChunkSize)
        <3>1. Len(c) <= ChunkSize
            BY <1>1, <1>3
        <3>. QED BY <1>1, <1>3, <3>1, BoundedSeqIff
    <2>3. <<>> \in BoundedSeq(RecordSet, ChunkSize - 1)
        <3>1. <<>> \in Seq(RecordSet) /\ Len(<<>>) = 0 /\ ChunkSize - 1 \in Nat
            BY <1>1, EmptySeq
        <3>2. <<>> \in BoundedSeq(RecordSet, ChunkSize - 1)
                <=> <<>> \in Seq(RecordSet) /\ Len(<<>>) <= ChunkSize - 1
            BY <3>1, BoundedSeqIff
        <3>. QED BY <3>1, <3>2
    <2>8. TypeOK'
        BY <1>2, <1>3, <1>6, <1>9, <1>10, <2>1, <2>2, <2>3 DEF IInv, TypeOK
    <2>9. ToSet(<<>>) = {}
        BY EmptySeq, LenProperties DEF ToSet
    <2>4. InWriters' = InWriters \cup ToSet(c) /\ ToSet(chunk') = {}
        BY <2>1, <2>9 DEF InWriters
    <2>5. Separated'
        BY <1>5, <1>6, <2>4 DEF IInv, Separated
    <2>6. Covered'
        BY <1>3, <1>5, <1>6, <2>4 DEF IInv, Covered
    <2>7. Phase'
        BY <1>4, <1>6, <1>14, <2>1 DEF IInv, Phase
    <2>. QED BY <1>7, <1>8, <2>8, <2>5, <2>6, <2>7 DEF IInv
<1>13. CASE ~Flush(c, pos)
    <2>1. chunk' = c /\ writers' = writers /\ Len(c) # ChunkSize /\ pos + 1 # len
        BY <1>13, <1>6, <1>11 DEF Flush
    <2>2. chunk' \in BoundedSeq(RecordSet, ChunkSize - 1)
        <3>1. Len(c) <= ChunkSize - 1 /\ ChunkSize - 1 \in Nat
            BY <1>1, <1>3, <2>1
        <3>. QED BY <1>3, <2>1, <3>1, BoundedSeqIff
    <2>3. TypeOK'
        BY <1>2, <1>6, <1>9, <1>10, <2>1, <2>2 DEF IInv, TypeOK
    <2>4. Separated'
        BY <1>5, <1>6, <2>1 DEF IInv, Separated, InWriters
    <2>5. Covered'
        BY <1>3, <1>5, <1>6, <2>1 DEF IInv, Covered, InWriters
    <2>6. Phase'
        BY <1>4, <1>6, <1>14, <2>1 DEF IInv, Phase
    <2>. QED BY <1>7, <1>8, <2>3, <2>4, <2>5, <2>6 DEF IInv
<1>. QED BY <1>12, <1>13

\* Every step of the loader, and a stuttering step, keeps the invariant.
LEMMA StepIInv ==
    ASSUME IInv, [Next]_vars
    PROVE  IInv'
<1>1. CASE Spawn
    BY <1>1, SpawnIInv
<1>2. CASE \E r \in builders : Build(r)
    BY <1>2, BuildIInv
<1>3. CASE Lock
    BY <1>3, LockIInv
<1>4. CASE Drain
    BY <1>4, DrainIInv
<1>5. CASE Release
    BY <1>5, ReleaseIInv
<1>6. CASE \E c \in writers : Write(c)
    BY <1>6, WriteIInv
<1>7. CASE ScopeEnd
    BY <1>7, ScopeEndIInv
<1>8. CASE Tested \/ UNCHANGED vars
    BY <1>8 DEF Tested, vars, IInv, TypeOK, Distinct, Separated, Covered, Counted,
               Phase, Undrained, InWriters
<1>. QED BY <1>1, <1>2, <1>3, <1>4, <1>5, <1>6, <1>7, <1>8 DEF Next

\* IInv holds in every reachable state of the loader, whatever the CSV and
\* the chunk size.
THEOREM InductiveInvariant == Spec => []IInv
BY InitIInv, StepIInv, PTL DEF Spec

\* The loader is well typed in every reachable state: in particular a chunk
\* being filled never reaches ChunkSize documents, and every writer task is
\* given a non-empty chunk of at most ChunkSize (line 183 of query.rs).
THEOREM TypeCorrect == Spec => []TypeOK
BY InductiveInvariant, PTL DEF IInv

\* When the scope has ended, the CSV, the builders, the chunk and the writers
\* are empty, so every record is in the vector or in the store, not both.
LEMMA IInvDrainedStored == IInv => DrainedStored
<1>. SUFFICES ASSUME IInv, main = "tested" PROVE stored = RecordSet \ ToSet(documents)
    BY DEF DrainedStored
<1>1. csv = <<>> /\ chunk = <<>> /\ builders = {} /\ writers = {}
    BY DEF IInv, Phase
<1>2. ToSet(<<>>) = {} /\ InWriters = {}
    BY <1>1, EmptySeq, LenProperties DEF ToSet, InWriters
<1>3. RecordSet \subseteq ToSet(documents) \cup stored
    BY <1>1, <1>2 DEF IInv, Covered, Undrained
<1>4. stored \cap ToSet(documents) = {} /\ stored \subseteq RecordSet
    BY <1>1, <1>2 DEF IInv, Separated, Undrained, TypeOK
<1>. QED BY <1>3, <1>4

\* Once the scope of query.rs has ended, the store holds exactly the records
\* the drain took from the vector, for every CSV and chunk size: the
\* chunking of lines 181-204 hands the last, partial chunk to a writer, and
\* no drained record is pushed again.
THEOREM DrainedStoredHolds == Spec => []DrainedStored
BY InductiveInvariant, IInvDrainedStored, PTL

=============================================================================
