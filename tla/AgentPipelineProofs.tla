-------------------------- MODULE AgentPipelineProofs --------------------------
(***************************************************************************)
(* Proofs about AgentPipeline, for any input, rate and duration.           *)
(***************************************************************************)
EXTENDS AgentPipeline, SequenceTheorems, FiniteSetTheorems, WellFoundedInduction, TLAPS

-----------------------------------------------------------------------------
(* Sequences without a set of elements that is known beforehand.           *)

IsSequence(s) == s \in Seq(ToSet(s))

\* A sequence over any set is one.
LEMMA SequenceIs ==
    ASSUME NEW S, NEW s \in Seq(S)
    PROVE  IsSequence(s)
<1>1. Len(s) \in Nat /\ s \in [1..Len(s) -> S] /\ DOMAIN s = 1..Len(s)
    BY LenProperties
<1>2. \A k \in 1..Len(s) : s[k] \in ToSet(s)
    BY <1>1 DEF ToSet
<1>3. s \in [1..Len(s) -> ToSet(s)]
    BY <1>1, <1>2
<1> QED BY <1>1, <1>3, SeqDef DEF IsSequence

\* The sequence u is s with e at its end.
Longer(s, e, u) ==
    /\ IsSequence(u) /\ Len(u) = Len(s) + 1 /\ Len(s) \in Nat
    /\ ToSet(u) = ToSet(s) \cup {e}
    /\ u[Len(s) + 1] = e /\ \A k \in 1..Len(s) : u[k] = s[k]

LEMMA AppendIs ==
    ASSUME NEW s, IsSequence(s), NEW e
    PROVE  Longer(s, e, Append(s, e))
<1> DEFINE S == ToSet(s) \cup {e}
           u == Append(s, e)
<1>1. s \in Seq(S) /\ e \in S
    BY SeqMonotonic DEF IsSequence
<1>2. Len(s) \in Nat /\ DOMAIN s = 1..Len(s)
    BY <1>1, LenProperties
<1>3. /\ u \in Seq(S) /\ Len(u) = Len(s) + 1 /\ u[Len(s) + 1] = e
      /\ \A k \in 1..Len(s) : u[k] = s[k]
    BY <1>1, AppendProperties
<1> HIDE DEF u, S
<1>4. IsSequence(u) /\ DOMAIN u = 1..Len(u)
    BY <1>3, SequenceIs, LenProperties
<1>5. \A k \in 1..Len(u) : k \in 1..Len(s) \/ k = Len(s) + 1
    BY <1>2, <1>3
<1>6. \A k \in 1..Len(s) : k \in 1..Len(u)
    BY <1>2, <1>3
<1>7. Len(s) + 1 \in 1..Len(u)
    BY <1>2, <1>3
<1>8. \A x : x \in ToSet(u) <=> x \in ToSet(s) \cup {e}
    BY <1>2, <1>3, <1>4, <1>5, <1>6, <1>7 DEF ToSet
<1>9. ToSet(u) = ToSet(s) \cup {e}
    BY <1>8
<1> QED BY <1>2, <1>3, <1>4, <1>9 DEF Longer, u

\* A line is put into the queue t behind the stored lines s.
Queued(s, t, e, u) ==
    IsSequence(s \o t) /\ s \o u = Append(s \o t, e) /\ t \o <<e>> = u

LEMMA QueueIs ==
    ASSUME NEW s, IsSequence(s), NEW t, IsSequence(t), NEW e
    PROVE  Queued(s, t, e, Append(t, e))
<1> DEFINE S == ToSet(s) \cup ToSet(t) \cup {e}
<1>1. s \in Seq(S) /\ t \in Seq(S) /\ e \in S
    BY SeqMonotonic DEF IsSequence
<1> HIDE DEF S
<1>2. s \o t \in Seq(S)
    BY <1>1, ConcatProperties
<1>3. <<e>> \in Seq(S)
    BY <1>1
<1>4. Append(t, e) = t \o <<e>> /\ Append(s \o t, e) = (s \o t) \o <<e>>
    BY <1>1, <1>2, AppendIsConcat
<1>5. (s \o t) \o <<e>> = s \o (t \o <<e>>)
    BY <1>1, <1>3, ConcatAssociative
<1>6. IsSequence(s \o t)
    BY <1>2, SequenceIs
<1> QED BY <1>4, <1>5, <1>6 DEF Queued

\* The first line of the queue t is taken to the stored lines s.
Moved(s, t, u, v) ==
    IsSequence(u) /\ IsSequence(v) /\ u \o v = s \o t /\ ToSet(v) \subseteq ToSet(t)

LEMMA MoveIs ==
    ASSUME NEW s, IsSequence(s), NEW t, IsSequence(t), t # <<>>
    PROVE  Moved(s, t, Append(s, Head(t)), Tail(t))
<1> DEFINE S == ToSet(s) \cup ToSet(t)
           e == Head(t)
           v == Tail(t)
<1>1. s \in Seq(S) /\ t \in Seq(S)
    BY SeqMonotonic DEF IsSequence
<1>2. Len(t) \in Nat /\ Len(t) # 0 /\ DOMAIN t = 1..Len(t)
    BY <1>1, LenProperties, EmptySeq
<1>3. e \in S /\ v \in Seq(S) /\ Len(v) = Len(t) - 1 /\ \A k \in 1..Len(v) : v[k] = t[k + 1]
    BY <1>1, HeadTailProperties
<1>4. 1 \in 1..Len(t) /\ Len(t) \in 1..Len(t)
    BY <1>2
<1>5. SubSeq(t, 1, Len(t)) = <<t[1]>> \o SubSeq(t, 1 + 1, Len(t))
    BY <1>1, <1>4, SubSeqRecursiveFirst
<1>6. SubSeq(t, 1, Len(t)) = t /\ SubSeq(t, 2, Len(t)) = v
    BY <1>1, SubSeqFull, TailIsSubSeq
<1>7. t[1] = e
    BY <1>1
<1>8. <<e>> \o v = t
    BY <1>5, <1>6, <1>7
<1>9. Append(s, e) = s \o <<e>> /\ Append(s, e) \in Seq(S)
    BY <1>1, <1>3, AppendIsConcat, AppendProperties
<1> HIDE DEF S, e, v
<1>10. <<e>> \in Seq(S)
    BY <1>3
<1>11. (s \o <<e>>) \o v = s \o (<<e>> \o v)
    BY <1>1, <1>3, <1>10, ConcatAssociative
<1>12. IsSequence(Append(s, e)) /\ IsSequence(v)
    BY <1>3, <1>9, SequenceIs
<1>13. ToSet(v) \subseteq ToSet(t)
    <2>1. DOMAIN v = 1..Len(v) /\ Len(v) \in Nat
        BY <1>3, LenProperties
    <2>2. \A k \in 1..Len(v) : k + 1 \in 1..Len(t)
        BY <1>2, <1>3, <2>1
    <2> QED BY <1>2, <1>3, <2>1, <2>2 DEF ToSet
<1> QED BY <1>8, <1>9, <1>11, <1>12, <1>13 DEF Moved, e, v

\* The empty sequence.
LEMMA EmptyIs == IsSequence(<<>>) /\ ToSet(<<>>) = {} /\ Len(<<>>) = 0 /\ <<>> \o <<>> = <<>>
<1>1. <<>> \in Seq({}) /\ Len(<<>>) = 0 /\ <<>> \o <<>> = <<>>
    BY EmptySeq, ConcatEmptySeq
<1>2. DOMAIN <<>> = 1..0
    BY <1>1, LenProperties
<1>3. 1..0 = {}
    OBVIOUS
<1> QED BY <1>1, <1>2, <1>3, SequenceIs DEF ToSet

-----------------------------------------------------------------------------
(* What the parser makes of a line, and the lines counted.                 *)

Levels == {"D", "I", "W", "E"}

\* Nothing, or one log line with a level of the engine.
OneLog(s) == s = <<>> \/ \E log : s = <<log>> /\ log.level \in Levels

LEMMA ParseIsOneLog ==
    ASSUME NEW line, NEW service
    PROVE  OneLog(ParseLine(line, service))
<1>1. \A words : Normalized(words) \in Levels
    BY DEF Normalized, Levels
<1>2. \A fields : LevelOf(fields) \in Levels
    BY <1>1 DEF LevelOf, Levels
<1>3. \A fields : ParseJson(fields, service).level \in Levels
    BY <1>2 DEF ParseJson
<1>4. \A words : ParseNginx(words).level \in Levels
    BY DEF ParseNginx, Levels
<1>5. \A words : Inferred(words) \in Levels
    BY DEF Inferred, Levels
<1> DEFINE text == [ts |-> Now, service |-> service, level |-> Inferred(line.words),
                    message |-> Stripped(line)]
<1>6. text.level \in Levels
    BY <1>5
<1>7. \/ ParseLine(line, service) = <<>>
      \/ ParseLine(line, service) = <<ParseJson(line.fields, service)>>
      \/ ParseLine(line, service) = <<ParseNginx(line.words)>>
      \/ ParseLine(line, service) = <<text>>
    BY ZenonT(30) DEF ParseLine
<1> HIDE DEF text
<1> QED BY <1>3, <1>4, <1>6, <1>7 DEF OneLog

\* A line of the mock has a level, too.
LEMMA MockLevel ==
    ASSUME NEW n \in Nat
    PROVE  MockLine(n).level \in Levels
<1>1. n % 3 \in 0..2
    OBVIOUS
<1>2. n % 3 = 0 \/ n % 3 = 1 \/ n % 3 = 2
    BY <1>1
<1> QED BY <1>2 DEF MockLine, Levels

\* How the set of the raw lines that became log lines goes on from n to n + 1.
Counted(n) ==
    /\ Cardinality(Logged(n)) \in Nat
    /\ LogOf(n + 1) = <<>> => Logged(n + 1) = Logged(n)
    /\ LogOf(n + 1) # <<>> =>
         /\ Logged(n + 1) = Logged(n) \cup {n + 1}
         /\ Cardinality(Logged(n + 1)) = Cardinality(Logged(n)) + 1
    /\ \A k \in Logged(n) : Cardinality(Logged(k)) \in 1..Cardinality(Logged(n))

LEMMA CountIs ==
    ASSUME NEW n \in Nat
    PROVE  Counted(n)
<1>1. \A m \in Nat : IsFiniteSet(Logged(m)) /\ Cardinality(Logged(m)) \in Nat
    <2> TAKE m \in Nat
    <2>1. IsFiniteSet(1..m) /\ Logged(m) \subseteq 1..m
        BY FS_Interval DEF Logged
    <2> QED BY <2>1, FS_Subset, FS_CardinalityType
<1>2. 1..(n + 1) = 1..n \cup {n + 1} /\ n + 1 \notin 1..n
    OBVIOUS
<1>3. LogOf(n + 1) = <<>> => Logged(n + 1) = Logged(n)
    BY <1>2 DEF Logged
<1>4. LogOf(n + 1) # <<>> => Logged(n + 1) = Logged(n) \cup {n + 1}
    BY <1>2 DEF Logged
<1>5. n + 1 \notin Logged(n)
    BY <1>2 DEF Logged
<1>6. LogOf(n + 1) # <<>> => Cardinality(Logged(n + 1)) = Cardinality(Logged(n)) + 1
    BY <1>1, <1>4, <1>5, FS_AddElement
<1>7. ASSUME NEW k \in Logged(n)
      PROVE  Cardinality(Logged(k)) \in 1..Cardinality(Logged(n))
    <2>1. k \in 1..n /\ LogOf(k) # <<>>
        BY <1>7 DEF Logged
    <2>2. k \in Nat /\ \A j \in 1..k : j \in 1..n
        BY <2>1
    <2>3. Logged(k) \subseteq Logged(n)
        BY <2>2 DEF Logged
    <2>4. Cardinality(Logged(k)) <= Cardinality(Logged(n))
        BY <1>1, <2>3, FS_Subset
    <2>5. k \in Logged(k)
        BY <2>1 DEF Logged
    <2>6. Cardinality(Logged(k)) # 0
        BY <1>1, <2>2, <2>5, FS_EmptySet
    <2> QED BY <1>1, <2>2, <2>4, <2>6
<1> QED BY <1>1, <1>3, <1>4, <1>6, <1>7 DEF Counted

\* AllTaken when n raw lines of standard input or the file, or m lines of the mock, were taken.
At(logs, n, m) ==
    IF source = "mock" THEN logs = [k \in 1..m |-> MockLine(k - 1)]
    ELSE /\ Len(logs) = Cardinality(Logged(n))
         /\ \A k \in Logged(n) : LogOf(k) = <<logs[Cardinality(Logged(k))]>>

\* A raw line that becomes nothing.
LEMMA TakenNone ==
    ASSUME NEW s, NEW n \in Nat, NEW m, source # "mock", At(s, n, m), LogOf(n + 1) = <<>>
    PROVE  At(s, n + 1, m)
<1>1. Logged(n + 1) = Logged(n)
    BY CountIs DEF Counted
<1> QED BY <1>1 DEF At

\* A raw line that becomes a log line.
LEMMA TakenOne ==
    ASSUME NEW s, IsSequence(s), NEW n \in Nat, NEW m, NEW log,
           source # "mock", At(s, n, m), LogOf(n + 1) = <<log>>
    PROVE  At(Append(s, log), n + 1, m)
<1> DEFINE u == Append(s, log)
           c == Cardinality(Logged(n))
<1>1. Longer(s, log, u)
    BY AppendIs
<1> HIDE DEF u
<1>2. LogOf(n + 1) # <<>>
    <2>1. <<log>> # <<>>
        OBVIOUS
    <2> QED BY <2>1
<1>3. /\ c \in Nat /\ Logged(n + 1) = Logged(n) \cup {n + 1}
      /\ Cardinality(Logged(n + 1)) = c + 1
      /\ \A k \in Logged(n) : Cardinality(Logged(k)) \in 1..c
    BY <1>2, CountIs DEF Counted
<1>4. Len(s) = c /\ \A k \in Logged(n) : LogOf(k) = <<s[Cardinality(Logged(k))]>>
    BY DEF At
<1> HIDE DEF c
<1>5. Len(u) = c + 1 /\ u[c + 1] = log /\ \A k \in 1..c : u[k] = s[k]
    BY <1>1, <1>4 DEF Longer
<1>6. \A k \in Logged(n) : LogOf(k) = <<u[Cardinality(Logged(k))]>>
    BY <1>3, <1>4, <1>5
<1>7. LogOf(n + 1) = <<u[Cardinality(Logged(n + 1))]>>
    BY <1>3, <1>5
<1> QED BY <1>3, <1>5, <1>6, <1>7 DEF At, u

\* The next line of the mock.
LEMMA MockOne ==
    ASSUME NEW s, NEW n, NEW m \in Nat, source = "mock", At(s, n, m)
    PROVE  At(Append(s, MockLine(m)), n, m + 1) /\ IsSequence(s)
<1> DEFINE S == {MockLine(k - 1) : k \in 1..m} \cup {MockLine(m)}
           u == Append(s, MockLine(m))
<1>1. s = [k \in 1..m |-> MockLine(k - 1)]
    BY DEF At
<1>2. s \in [1..m -> S]
    BY <1>1
<1>3. s \in Seq(S) /\ MockLine(m) \in S
    BY <1>2, SeqDef
<1>4. Len(s) \in Nat /\ DOMAIN s = 1..Len(s) /\ DOMAIN s = 1..m
    BY <1>1, <1>3, LenProperties
<1> HIDE DEF S
<1>5. Len(s) = m
    BY <1>1, <1>3, <1>4, LenProperties
<1>6. IsSequence(s)
    BY <1>3, SequenceIs
<1>7. Longer(s, MockLine(m), u)
    BY <1>6, AppendIs
<1> HIDE DEF u
<1>8. /\ IsSequence(u) /\ Len(u) = m + 1
      /\ u[m + 1] = MockLine(m) /\ \A k \in 1..m : u[k] = s[k]
    BY <1>5, <1>7 DEF Longer
<1>9. DOMAIN u = 1..(m + 1) /\ u = [k \in DOMAIN u |-> u[k]]
    BY <1>8, LenProperties DEF IsSequence
<1>10. \A k \in 1..(m + 1) : k \in 1..m \/ k = m + 1
    OBVIOUS
<1>11. \A k \in 1..m : u[k] = MockLine(k - 1)
    BY <1>1, <1>8
<1>12. (m + 1) - 1 = m
    OBVIOUS
<1>13. \A k \in 1..(m + 1) : u[k] = MockLine(k - 1)
    BY <1>8, <1>10, <1>11, <1>12
<1>14. u = [k \in 1..(m + 1) |-> MockLine(k - 1)]
    BY <1>9, <1>13
<1> QED BY <1>6, <1>14 DEF At, u

-----------------------------------------------------------------------------
(* The initial states.                                                     *)

LEMMA InitInv == Init => IInv
<1> SUFFICES ASSUME Init PROVE IInv
    OBVIOUS
<1>1. /\ IsSequence(<<>>) /\ ToSet(<<>>) = {} /\ Len(<<>>) = 0 /\ <<>> \o <<>> = <<>>
      /\ Rate \in Nat /\ Duration \in Nat
    BY EmptyIs, PipelineAssumption
<1>2. Len(script) \in Nat
    <2>1. script \in Seq(ToSet(script))
        BY <1>1, PipelineAssumption DEF Init, IsSequence
    <2> QED BY <2>1, LenProperties
<1>3. TypeOK
    <2>1. 0 * Rate = 0
        BY <1>1
    <2>2. clock \in 0..Duration /\ goal \in 0..(clock * Rate) /\ total \in 0..goal
        BY <1>1, <2>1 DEF Init
    <2>3. fed \in 0..Len(script) /\ taken \in 0..fed /\ seen \in 0..fed
        BY <1>2 DEF Init
    <2>4. \A log \in ToSet(channel) : log.level \in {"D", "I", "W", "E"}
        BY <1>1 DEF Init
    <2>5. /\ source \in {"file", "stdin", "mock"} /\ owner \in {"loop", "caller"}
          /\ script \in Scripts \cup {<<>>} /\ ended \in BOOLEAN
          /\ pc \in {"poll", "stat", "read", "round", "send", "done", "dead"}
          /\ opc \in {"loop", "stop", "drain", "done"}
          /\ stop \in BOOLEAN /\ rx \in BOOLEAN /\ refused \in BOOLEAN
        <3>1. /\ DOMAIN Begin = {"file", "stdin", "mock"}
              /\ \A x \in DOMAIN Begin : Begin[x] \in {"poll", "read", "round"}
            BY DEF Begin
        <3> QED BY <3>1 DEF Init
    <2> QED BY <2>2, <2>3, <2>4, <2>5 DEF TypeOK
<1>4. Logged(0) = {} /\ Cardinality(Logged(0)) = 0
    <2>1. 1..0 = {}
        OBVIOUS
    <2> QED BY <2>1, FS_EmptySet DEF Logged
<1>5. InOrder
    <2>1. ASSUME source = "mock" PROVE AllTaken(<<>>)
        <3>1. 1..total = {} /\ 1..0 = {}
            BY DEF Init
        <3>2. <<>> \in [1..0 -> {}]
            BY <1>1, LenProperties DEF IsSequence
        <3>3. <<>> = [k \in 1..total |-> MockLine(k - 1)]
            BY <3>1, <3>2
        <3> QED BY <2>1, <3>3 DEF AllTaken
    <2>2. ASSUME source # "mock" PROVE AllTaken(<<>>)
        BY <1>1, <1>4, <2>2 DEF AllTaken, Init
    <2> QED BY <1>1, <2>1, <2>2 DEF InOrder, Init
<1>6. QueueInv
    BY <1>1 DEF Init, QueueInv, IsSequence
<1>7. LoopInv
    BY DEF Init, Begin, LoopInv
<1>8. OwnerInv
    BY DEF Init, Begin, OwnerInv
<1> QED BY <1>3, <1>5, <1>6, <1>7, <1>8 DEF IInv, Orderly

-----------------------------------------------------------------------------
(* Steps.                                                                  *)

\* The moves of the clock keep goal below what is due.
LEMMA MoreIsDue ==
    ASSUME NEW r \in Nat, NEW c \in Nat
    PROVE  c * r \in Nat /\ (c + 1) * r \in Nat /\ c * r <= (c + 1) * r
<1>1. c * r \in Nat
    OBVIOUS
<1>2. (c + 1) * r = c * r + r
    OBVIOUS
<1> QED BY <1>1, <1>2

\* What a step of the collector puts into the queue.
LEMMA SentIs ==
    ASSUME IInv
    PROVE  /\ \A log : Queued(stored, channel, log, Append(channel, log))
           /\ \A log : Longer(channel, log, Append(channel, log))
           /\ OneLog(ParsedLine)
           /\ channel \o <<>> = channel
<1>1. IsSequence(stored) /\ IsSequence(channel)
    BY DEF IInv, QueueInv, IsSequence
<1>2. channel \o <<>> = channel
    BY <1>1, ConcatEmptySeq DEF IsSequence
<1> QED BY <1>1, <1>2, QueueIs, AppendIs, ParseIsOneLog DEF ParsedLine

\* The type invariant's part about the queue.
GoodLevels == \A log \in ToSet(channel) : log.level \in Levels

\* The queue and the store after a step.
LEMMA QueueStep ==
    ASSUME IInv, [Next]_vars
    PROVE  QueueInv' /\ GoodLevels'
<1>1. IsSequence(stored) /\ IsSequence(channel)
    BY DEF IInv, QueueInv, IsSequence
<1>2. GoodLevels
    BY DEF IInv, Orderly, TypeOK, GoodLevels, Levels
<1>3. ASSUME UNCHANGED <<channel, stored>> PROVE QueueInv' /\ GoodLevels'
    BY <1>1, <1>2, <1>3 DEF QueueInv, GoodLevels, IsSequence
<1>4. ASSUME NEW log, log.level \in Levels, channel' = Append(channel, log), stored' = stored
      PROVE  QueueInv' /\ GoodLevels'
    <2>1. Longer(channel, log, Append(channel, log))
        BY SentIs
    <2>2. IsSequence(channel') /\ ToSet(channel') = ToSet(channel) \cup {log}
        BY <1>4, <2>1 DEF Longer
    <2> QED BY <1>1, <1>2, <1>4, <2>2 DEF QueueInv, GoodLevels, IsSequence
<1>5. CASE TakeLine
    <2>1. CASE ~rx
        BY <1>3, <1>5, <2>1 DEF TakeLine
    <2>2. CASE rx /\ ParsedLine = <<>>
        BY <1>3, <1>5, <2>2, SentIs DEF TakeLine
    <2>3. CASE rx /\ ParsedLine # <<>>
        <3>1. PICK log : ParsedLine = <<log>> /\ log.level \in Levels
            BY <2>3, SentIs DEF OneLog
        <3>2. channel' = channel \o <<log>> /\ stored' = stored
            BY <1>5, <2>3, <3>1 DEF TakeLine
        <3>3. channel' = Append(channel, log)
            BY <3>2, SentIs DEF Queued
        <3> QED BY <1>4, <3>1, <3>2, <3>3
    <2> QED BY <2>1, <2>2, <2>3
<1>6. CASE MockSend
    <2>1. MockLine(total).level \in Levels
        <3>1. total \in Nat
            BY PipelineAssumption, MoreIsDue DEF IInv, Orderly, TypeOK
        <3> QED BY <3>1, MockLevel
    <2> QED BY <1>3, <1>4, <1>6, <2>1 DEF MockSend
<1>7. CASE Receive
    <2>1. Moved(stored, channel, stored', channel')
        BY <1>1, <1>7, MoveIs DEF Receive
    <2> QED BY <1>2, <2>1 DEF Moved, QueueInv, GoodLevels, IsSequence
<1>8. CASE DropReceiver
    BY <1>1, <1>8, EmptyIs DEF DropReceiver, QueueInv, GoodLevels, IsSequence
<1>9. CASE CallStop
    BY <1>3, <1>9 DEF CallStop
<1>10. CASE Feed \/ CloseInput \/ Tick \/ SeeFlag \/ SkipLine \/ EndOfInput \/ MockEnds \/ MockRound
    BY <1>3, <1>10 DEF Feed, CloseInput, Tick, SeeFlag, SkipLine, EndOfInput, MockEnds, MockRound
<1>11. CASE Joined \/ Drained \/ UNCHANGED vars
    BY <1>3, <1>11 DEF Joined, Drained, vars
<1>12. CASE CollectFile \/ Die
    BY <1>3, <1>12 DEF CollectFile, LookAtFlag, Stat, EndPass, FailPass, Die
<1> QED BY <1>5, <1>6, <1>7, <1>8, <1>9, <1>10, <1>11, <1>12 DEF Next, Collect, CollectFile, CollectStdin, CollectMock

\* The collector stays in its loop.
LEMMA LoopStep ==
    ASSUME IInv, [Next]_vars
    PROVE  LoopInv'
<1>1. LoopInv /\ UNCHANGED <<source, script, owner>>
    BY DEF IInv, Next, vars, Feed, CloseInput, Tick, Collect, CollectFile, CollectStdin,
       CollectMock, LookAtFlag, Stat, EndPass, FailPass, SeeFlag, TakeLine, Die, SkipLine,
       EndOfInput, MockEnds, MockRound, MockSend, Receive, CallStop, Joined, Drained,
       DropReceiver, input
<1>2. ASSUME UNCHANGED <<pc, total, goal>> PROVE LoopInv'
    BY <1>1, <1>2 DEF LoopInv
<1>3. /\ total \in Nat /\ goal \in Nat /\ total <= goal
      /\ pc = "send" => total < goal
      /\ Due \in Nat
    BY PipelineAssumption, MoreIsDue DEF IInv, Orderly, TypeOK, LoopInv, Due
<1>4. CASE SeeFlag \/ EndOfInput \/ SkipLine \/ MockEnds
    BY <1>1, <1>2, <1>4 DEF SeeFlag, EndOfInput, SkipLine, MockEnds, LoopInv
<1>5. CASE TakeLine
    BY <1>1, <1>5 DEF TakeLine, Arrived, LoopInv
<1>6. CASE MockRound
    BY <1>1, <1>3, <1>6 DEF MockRound, LoopInv
<1>7. CASE MockSend
    BY <1>1, <1>3, <1>7 DEF MockSend, LoopInv
<1>8. CASE Feed \/ CloseInput \/ Tick \/ Receive \/ CallStop
    BY <1>2, <1>8 DEF Feed, CloseInput, Tick, Receive, CallStop
<1>9. CASE Joined \/ Drained \/ DropReceiver \/ UNCHANGED vars
    BY <1>2, <1>9 DEF Joined, Drained, DropReceiver, vars
<1>10. CASE CollectFile \/ Die
    BY <1>1, <1>10 DEF CollectFile, LookAtFlag, Stat, EndPass, FailPass, Die, Arrived, LoopInv
<1> QED BY <1>4, <1>5, <1>6, <1>7, <1>8, <1>9, <1>10 DEF Next, Collect, CollectFile, CollectStdin, CollectMock

\* Nobody changes the run's input.
LEMMA InputStays ==
    ASSUME [Next]_vars
    PROVE  UNCHANGED input /\ \A n : Logged(n)' = Logged(n) /\ LogOf(n)' = LogOf(n)
<1>1. UNCHANGED input
    BY DEF Next, vars, Feed, CloseInput, Tick, Collect, CollectFile, CollectStdin,
       CollectMock, LookAtFlag, Stat, EndPass, FailPass, SeeFlag, TakeLine, Die, SkipLine,
       EndOfInput, MockEnds, MockRound, MockSend, Receive, CallStop, Joined, Drained,
       DropReceiver, input
<1>2. script' = script
    BY <1>1 DEF input
<1>3. \A n : LogOf(n)' = LogOf(n)
    BY <1>2 DEF LogOf
<1>4. \A n : Logged(n)' = Logged(n)
    BY <1>3 DEF Logged
<1> QED BY <1>1, <1>3, <1>4

\* Type correctness is kept.
LEMMA TypeStep ==
    ASSUME IInv, [Next]_vars
    PROVE  TypeOK'
<1>1. GoodLevels' /\ UNCHANGED input
    BY QueueStep, InputStays
<1>2. \A log \in ToSet(channel') : log.level \in {"D", "I", "W", "E"}
    BY <1>1 DEF GoodLevels, Levels
<1>3. /\ source \in {"file", "stdin", "mock"} /\ owner \in {"loop", "caller"}
      /\ script \in Scripts \cup {<<>>} /\ clock \in 0..Duration
      /\ fed \in 0..Len(script) /\ taken \in 0..fed /\ seen \in 0..fed
      /\ goal \in 0..(clock * Rate) /\ total \in 0..goal
      /\ pc = "send" => total < goal
      /\ ended \in BOOLEAN /\ stop \in BOOLEAN /\ rx \in BOOLEAN /\ refused \in BOOLEAN
      /\ pc \in {"poll", "stat", "read", "round", "send", "done", "dead"}
      /\ opc \in {"loop", "stop", "drain", "done"}
    BY DEF IInv, Orderly, TypeOK, LoopInv
<1>4. Rate \in Nat /\ Duration \in Nat /\ Len(script) \in Nat /\ clock * Rate \in Nat
    <2>1. script \in Seq(ToSet(script))
        BY <1>3, EmptyIs, PipelineAssumption DEF IsSequence
    <2> QED BY <1>3, <2>1, LenProperties, PipelineAssumption, MoreIsDue
<1>5. /\ source' = source /\ owner' = owner /\ script' = script /\ Len(script') = Len(script)
    BY <1>1 DEF input
<1>6. ASSUME UNCHANGED clock, goal' \in 0..(clock * Rate), total' \in 0..goal',
             fed' \in 0..Len(script), taken' \in 0..fed', seen' \in 0..fed',
             ended' \in BOOLEAN, stop' \in BOOLEAN, rx' \in BOOLEAN, refused' \in BOOLEAN,
             pc' \in {"poll", "stat", "read", "round", "send", "done", "dead"},
             opc' \in {"loop", "stop", "drain", "done"}
      PROVE  TypeOK'
    BY <1>2, <1>3, <1>5, <1>6 DEF TypeOK
<1>7. CASE Feed
    <2>1. fed' \in 0..Len(script) /\ taken \in 0..fed' /\ seen \in 0..fed'
        BY <1>3, <1>4, <1>7 DEF Feed
    <2> QED BY <1>3, <1>6, <1>7, <2>1 DEF Feed
<1>8. CASE CloseInput
    BY <1>3, <1>6, <1>8 DEF CloseInput
<1>9. CASE Tick
    <2>1. clock' = clock + 1 /\ clock' \in 0..Duration
        BY <1>3, <1>4, <1>9 DEF Tick
    <2>2. goal \in 0..(clock' * Rate)
        <3>1. clock * Rate <= (clock + 1) * Rate /\ (clock + 1) * Rate \in Nat
            BY <1>3, <1>4, MoreIsDue
        <3>2. \A a \in Nat : \A b \in Nat : a <= b => \A g \in 0..a : g \in 0..b
            OBVIOUS
        <3>3. goal \in 0..((clock + 1) * Rate)
            BY <1>3, <1>4, <3>1, <3>2
        <3> QED BY <2>1, <3>3
    <2> QED BY <1>2, <1>3, <1>5, <1>9, <2>1, <2>2 DEF Tick, TypeOK, input
<1>10. CASE SeeFlag
    BY <1>3, <1>6, <1>10 DEF SeeFlag, outside
<1>11. CASE TakeLine \/ SkipLine
    <2>1. taken' = taken + 1 /\ taken < fed /\ fed' = fed
        BY <1>11 DEF TakeLine, SkipLine, Arrived, outside
    <2>2. taken' \in 0..fed'
        BY <1>3, <1>4, <2>1
    <2> QED BY <1>3, <1>6, <1>11, <2>1, <2>2 DEF TakeLine, SkipLine, outside
<1>12. CASE EndOfInput \/ MockEnds
    BY <1>3, <1>6, <1>12 DEF EndOfInput, MockEnds, outside
<1>13. CASE MockRound
    <2>1. goal' = Due /\ Due > total /\ Due \in Nat /\ total \in Nat /\ Due = clock * Rate
        BY <1>3, <1>4, <1>13 DEF MockRound, Due
    <2>2. goal' \in 0..(clock * Rate) /\ total \in 0..goal'
        BY <2>1
    <2> QED BY <1>3, <1>6, <1>13, <2>2 DEF MockRound, outside
<1>14. CASE MockSend
    <2>1. total' \in 0..goal /\ goal' = goal
        BY <1>3, <1>4, <1>14 DEF MockSend
    <2> QED BY <1>3, <1>6, <1>14, <2>1 DEF MockSend, outside
<1>15. CASE Receive
    BY <1>3, <1>6, <1>15 DEF Receive, outside
<1>16. CASE CallStop \/ Joined
    BY <1>3, <1>6, <1>16 DEF CallStop, Joined, outside
<1>17. CASE Drained \/ DropReceiver
    BY <1>3, <1>6, <1>17 DEF Drained, DropReceiver, outside
<1>18. CASE UNCHANGED vars
    BY <1>3, <1>6, <1>18 DEF vars
<1>19. CASE LookAtFlag \/ Stat
    <2>1. seen' \in 0..fed
        BY <1>3, <1>4, <1>19 DEF LookAtFlag, Stat
    <2> QED BY <1>3, <1>6, <1>19, <2>1 DEF LookAtFlag, Stat, outside
<1>20. CASE EndPass \/ Die
    BY <1>3, <1>6, <1>20 DEF EndPass, Die, outside
<1>21. CASE FailPass
    <2>1. taken' \in 0..fed
        BY <1>3, <1>4, <1>21 DEF FailPass
    <2> QED BY <1>3, <1>6, <1>21, <2>1 DEF FailPass, outside
<1> QED BY <1>7, <1>8, <1>9, <1>10, <1>11, <1>12, <1>13, <1>14, <1>15, <1>16, <1>17, <1>18,
           <1>19, <1>20, <1>21 DEF Next, Collect, CollectFile, CollectStdin, CollectMock

\* The counters are numbers.
LEMMA CountersAre ==
    ASSUME IInv
    PROVE  fed \in Nat /\ taken \in Nat /\ total \in Nat
<1>1. script \in Seq(ToSet(script))
    BY EmptyIs, PipelineAssumption DEF IInv, Orderly, TypeOK, IsSequence
<1>2. Len(script) \in Nat
    BY <1>1, LenProperties
<1>3. /\ fed \in 0..Len(script) /\ taken \in 0..fed
      /\ clock \in 0..Duration /\ goal \in 0..(clock * Rate) /\ total \in 0..goal
    BY DEF IInv, Orderly, TypeOK
<1> QED BY <1>2, <1>3, PipelineAssumption, MoreIsDue

\* What was stored and what is queued remain what was taken.
LEMMA InOrderStep ==
    ASSUME IInv, [Next]_vars
    PROVE  InOrder'
<1>1. source' = source /\ \A n : Logged(n)' = Logged(n) /\ LogOf(n)' = LogOf(n)
    BY InputStays DEF input
<1>2. ASSUME At(stored' \o channel', taken', total') PROVE InOrder'
    BY <1>1, <1>2 DEF At, InOrder, AllTaken
<1>3. ASSUME ~rx' PROVE InOrder'
    BY <1>3 DEF InOrder
<1>4. rx => At(stored \o channel, taken, total)
    BY DEF IInv, Orderly, InOrder, AllTaken, At
<1>5. ASSUME stored' \o channel' = stored \o channel, UNCHANGED <<taken, total, rx>>
      PROVE  InOrder'
    BY <1>2, <1>3, <1>4, <1>5
<1>6. ASSUME UNCHANGED <<stored, channel, taken, total, rx>> PROVE InOrder'
    BY <1>5, <1>6
<1>7. IsSequence(stored) /\ IsSequence(channel)
    BY DEF IInv, QueueInv, IsSequence
<1>8. \A log : Queued(stored, channel, log, Append(channel, log))
    BY SentIs
<1>9. taken \in Nat /\ total \in Nat
    BY CountersAre
<1>10. pc = "read" => source # "mock"
    BY DEF IInv, LoopInv
<1>11. CASE TakeLine
    <2>1. source # "mock" /\ rx' = rx /\ taken' = taken + 1 /\ total' = total /\ stored' = stored
        BY <1>10, <1>11 DEF TakeLine, Arrived
    <2>2. LogOf(taken + 1) = ParsedLine
        BY <1>11 DEF TakeLine, LogOf, ParsedLine, Line
    <2>3. CASE ~rx
        BY <1>3, <2>1, <2>3
    <2>4. CASE rx /\ ParsedLine = <<>>
        <3>1. At(stored \o channel, taken + 1, total)
            BY <1>4, <1>9, <2>1, <2>2, <2>4, TakenNone
        <3>2. channel' = channel
            BY <1>11, <2>4, SentIs DEF TakeLine
        <3> QED BY <1>2, <2>1, <3>1, <3>2
    <2>5. CASE rx /\ ParsedLine # <<>>
        <3>1. PICK log : ParsedLine = <<log>>
            BY <2>5, SentIs DEF OneLog
        <3>2. /\ IsSequence(stored \o channel) /\ channel \o <<log>> = Append(channel, log)
              /\ stored \o Append(channel, log) = Append(stored \o channel, log)
            BY <1>8 DEF Queued
        <3>3. At(Append(stored \o channel, log), taken + 1, total)
            BY <1>4, <1>9, <2>1, <2>2, <2>5, <3>1, <3>2, TakenOne
        <3>4. stored' \o channel' = Append(stored \o channel, log)
            BY <1>11, <2>1, <2>5, <3>1, <3>2 DEF TakeLine
        <3> QED BY <1>2, <2>1, <3>3, <3>4
    <2> QED BY <2>3, <2>4, <2>5
<1>12. CASE SkipLine \/ (FailPass /\ Line = Garbled)
    <2>1. /\ source # "mock" /\ rx' = rx /\ taken' = taken + 1 /\ total' = total
          /\ stored' = stored /\ channel' = channel
        BY <1>10, <1>12 DEF SkipLine, FailPass, Arrived
    <2>2. LogOf(taken + 1) = <<>>
        BY <1>12 DEF SkipLine, LogOf, Line
    <2>3. rx => At(stored \o channel, taken + 1, total)
        BY <1>4, <1>9, <2>1, <2>2, TakenNone
    <2> QED BY <1>2, <1>3, <2>1, <2>3
<1>13. CASE MockSend
    <2>1. source = "mock" /\ rx' = rx /\ taken' = taken /\ stored' = stored
        BY <1>13 DEF MockSend, IInv, Orderly, TypeOK, LoopInv
    <2>2. CASE ~rx
        BY <1>3, <2>1, <2>2
    <2>3. CASE rx
        <3>1. At(Append(stored \o channel, MockLine(total)), taken, total + 1)
            BY <1>4, <1>9, <2>1, <2>3, MockOne
        <3>2. stored \o Append(channel, MockLine(total)) = Append(stored \o channel, MockLine(total))
            BY <1>8 DEF Queued
        <3>3. channel' = Append(channel, MockLine(total)) /\ total' = total + 1
            BY <1>13, <2>3 DEF MockSend
        <3> QED BY <1>2, <2>1, <3>1, <3>2, <3>3
    <2> QED BY <2>2, <2>3
<1>14. CASE Receive
    <2>1. Moved(stored, channel, Append(stored, Head(channel)), Tail(channel))
        BY <1>7, <1>14, MoveIs DEF Receive
    <2>2. stored' \o channel' = stored \o channel
        BY <1>14, <2>1 DEF Receive, Moved
    <2> QED BY <1>5, <1>14, <2>2 DEF Receive
<1>15. CASE DropReceiver
    BY <1>3, <1>15 DEF DropReceiver
<1>16. CASE Feed \/ CloseInput \/ Tick \/ SeeFlag \/ EndOfInput \/ MockEnds \/ MockRound
    BY <1>6, <1>16 DEF Feed, CloseInput, Tick, SeeFlag, EndOfInput, MockEnds, MockRound
<1>17. CASE CallStop \/ Joined \/ Drained \/ UNCHANGED vars
    BY <1>6, <1>17 DEF CallStop, Joined, Drained, vars
<1>18. CASE LookAtFlag \/ Stat \/ EndPass \/ Die \/ (FailPass /\ Line # Garbled)
    BY <1>6, <1>18 DEF LookAtFlag, Stat, EndPass, Die, FailPass
<1> QED BY <1>11, <1>12, <1>13, <1>14, <1>15, <1>16, <1>17, <1>18 DEF Next, Collect, CollectFile, CollectStdin, CollectMock

\* The two threads stop in the right order.
LEMMA OwnerStep ==
    ASSUME IInv, [Next]_vars
    PROVE  OwnerInv'
<1>1. UNCHANGED <<source, owner, script>>
    BY InputStays DEF input
<1>2. OwnerInv /\ LoopInv /\ fed \in Nat /\ taken \in Nat
    BY CountersAre DEF IInv
<1>3. ASSUME pc' = "dead" => pc = "dead" /\ taken' = taken /\ fed' \in {fed, fed + 1}
      PROVE  pc' = "dead" => Killed'
    <2> SUFFICES ASSUME pc' = "dead" PROVE Killed'
        OBVIOUS
    <2>1. Killed /\ script' = script /\ taken' = taken /\ fed' \in {fed, fed + 1}
        BY <1>1, <1>2, <1>3 DEF OwnerInv
    <2>2. Line' = Line /\ taken' < fed'
        BY <1>2, <2>1 DEF Line, Killed
    <2> QED BY <2>1, <2>2 DEF Killed
<1>4. ASSUME UNCHANGED <<stop, opc, rx, pc, channel, clock, ended, taken, fed, refused>>
      PROVE  OwnerInv'
    <2>1. pc' = "dead" => Killed'
        BY <1>3, <1>4
    <2> QED BY <1>1, <1>2, <1>4, <2>1 DEF OwnerInv, Disconnected, Gone
<1>5. CASE Feed
    <2>1. pc' = "dead" => Killed'
        BY <1>3, <1>5 DEF Feed
    <2> QED BY <1>1, <1>2, <1>5, <2>1 DEF OwnerInv, Disconnected, Gone, Feed
<1>6. CASE CloseInput
    <2>1. pc' = "dead" => Killed'
        BY <1>3, <1>6 DEF CloseInput
    <2> QED BY <1>1, <1>2, <1>6, <2>1 DEF OwnerInv, Disconnected, Gone, CloseInput
<1>7. CASE Tick
    <2>1. clock # Duration /\ source = "mock"
        BY <1>7, PipelineAssumption DEF Tick, IInv, Orderly, TypeOK
    <2>2. pc' = "dead" => Killed'
        BY <1>3, <1>7 DEF Tick
    <2> QED BY <1>1, <1>2, <1>7, <2>1, <2>2 DEF OwnerInv, Disconnected, Gone, Tick
<1>8. ASSUME ~Gone PROVE /\ opc = "done" => ~rx
                         /\ owner = "loop" => ~stop /\ rx
    BY <1>2, <1>8 DEF OwnerInv, Disconnected
<1>9. pc \in {"poll", "stat"} => source = "file"
    BY <1>2 DEF IInv, Orderly, TypeOK, LoopInv
<1>10. CASE SeeFlag
    <2>1. stop /\ pc = "read" /\ owner = "caller" /\ source = "stdin"
        BY <1>8, <1>10 DEF SeeFlag, FlagSeen, Arrived, Gone, IInv, Orderly, TypeOK
    <2>2. pc' # "dead"
        BY <1>10 DEF SeeFlag
    <2> QED BY <1>1, <1>2, <1>10, <2>1, <2>2 DEF SeeFlag, OwnerInv, Disconnected, Gone, outside
<1>11. CASE TakeLine \/ SkipLine \/ MockSend
    <2>1. /\ ~Gone /\ UNCHANGED <<stop, opc, rx, refused, clock, ended, fed>>
          /\ (rx => pc' # "done") /\ pc' # "dead"
        BY <1>11 DEF TakeLine, SkipLine, MockSend, Arrived, Gone, outside
    <2> QED BY <1>1, <1>2, <1>8, <2>1 DEF OwnerInv, Disconnected, Gone
<1>12. CASE EndOfInput
    <2>1. source = "stdin" /\ ~Gone /\ pc' # "dead"
        BY <1>12 DEF EndOfInput, Gone
    <2> QED BY <1>1, <1>2, <1>8, <1>12, <2>1 DEF EndOfInput, OwnerInv, Disconnected, Gone, outside
<1>13. CASE MockEnds
    <2>1. ~Gone /\ pc' # "dead" /\ source = "mock" /\ (stop \/ clock >= Duration)
        BY <1>2, <1>13 DEF MockEnds, MockOver, Gone, IInv, Orderly, TypeOK, LoopInv
    <2>2. owner = "loop" => clock = Duration
        BY <1>8, <2>1, PipelineAssumption DEF IInv, Orderly, TypeOK
    <2> QED BY <1>1, <1>2, <1>8, <1>13, <2>1, <2>2 DEF MockEnds, OwnerInv, Disconnected, Gone, outside
<1>14. CASE MockRound \/ Stat \/ EndPass \/ FailPass
    <2>1. /\ ~Gone /\ pc' \notin {"done", "dead"}
          /\ UNCHANGED <<stop, opc, rx, channel, refused, clock, ended, fed>>
        BY <1>14 DEF MockRound, Stat, EndPass, FailPass, Gone, outside
    <2> QED BY <1>1, <1>2, <1>8, <2>1 DEF OwnerInv, Disconnected, Gone
<1>15. CASE LookAtFlag
    <2>1. /\ ~Gone /\ pc' # "dead" /\ source = "file" /\ (pc' = "done" => stop)
          /\ UNCHANGED <<stop, opc, rx, channel, refused, clock, ended, fed>>
        BY <1>9, <1>15 DEF LookAtFlag, Gone, outside
    <2> QED BY <1>1, <1>2, <1>8, <2>1 DEF OwnerInv, Disconnected, Gone
<1>16. CASE Die
    <2>1. /\ ~Gone /\ pc' = "dead"
          /\ UNCHANGED <<stop, opc, rx, channel, refused, clock, ended, fed, taken>>
        BY <1>16 DEF Die, Arrived, Gone, outside
    <2>2. Line' = Line
        BY <1>1, <2>1 DEF Line
    <2>3. Killed'
        BY <1>16, <2>1, <2>2 DEF Killed, Die, Arrived
    <2> QED BY <1>1, <1>2, <1>8, <2>1, <2>3 DEF OwnerInv, Disconnected, Gone
<1>17. CASE Receive \/ CallStop
    <2>1. pc' = "dead" => Killed'
        BY <1>3, <1>17 DEF Receive, CallStop, outside
    <2> QED BY <1>1, <1>2, <1>17, <2>1
            DEF Receive, CallStop, OwnerInv, Disconnected, Gone, outside, IInv, Orderly, TypeOK
<1>18. CASE Joined \/ Drained \/ DropReceiver
    <2>1. pc' = "dead" => Killed'
        BY <1>3, <1>18 DEF Joined, Drained, DropReceiver, outside
    <2> QED BY <1>1, <1>2, <1>18, <2>1
            DEF Joined, Drained, DropReceiver, OwnerInv, Disconnected, Gone, outside
<1>19. CASE UNCHANGED vars
    BY <1>4, <1>19 DEF vars
<1> QED BY <1>5, <1>6, <1>7, <1>10, <1>11, <1>12, <1>13, <1>14, <1>15, <1>16, <1>17, <1>18,
           <1>19 DEF Next, Collect, CollectFile, CollectStdin, CollectMock

-----------------------------------------------------------------------------
(* The results.                                                            *)

\* The invariant holds in every state: for any input, rate and duration, whatever
\* the owner does.
THEOREM PipelineInvariance == Spec => []IInv
<1>1. IInv /\ [Next]_vars => IInv'
    BY TypeStep, InOrderStep, QueueStep, LoopStep, OwnerStep DEF IInv, Orderly
<1> QED BY <1>1, InitInv, PTL DEF Spec

\* Nothing is lost, doubled or overtaken between the collector thread and append.
THEOREM PipelineIsOrderly == Spec => []Orderly
<1>1. IInv => Orderly
    BY DEF IInv
<1> QED BY <1>1, PipelineInvariance, PTL

\* An owner that is done has handed everything that was taken to append, and the loop
\* of an agent is done only when its source is, or when the parser has panicked.
THEOREM PipelineEndsDrained == Spec => []EndsDrained
<1>1. ASSUME IInv PROVE EndsDrained
    <2>1. OwnerInv /\ IsSequence(stored)
        BY <1>1 DEF IInv, QueueInv, IsSequence
    <2>2. ASSUME opc = "done", rx PROVE AllTaken(stored)
        <3>1. channel = <<>> /\ AllTaken(stored \o channel)
            BY <1>1, <2>1, <2>2 DEF OwnerInv, Disconnected, IInv, Orderly, InOrder
        <3>2. stored \o <<>> = stored
            BY <2>1, ConcatEmptySeq DEF IsSequence
        <3> QED BY <3>1, <3>2
    <2>3. ASSUME opc = "done", rx
          PROVE  /\ owner = "loop" => \/ Killed
                                      \/ source = "mock" /\ clock = Duration
                                      \/ source = "stdin" /\ ended /\ taken = fed
                 /\ refused => source = "stdin" /\ owner = "caller"
        BY <2>1, <2>3 DEF OwnerInv, Disconnected, Gone
    <2> QED BY <2>2, <2>3 DEF EndsDrained
<1> QED BY <1>1, PipelineInvariance, PTL

-----------------------------------------------------------------------------
(* The parser's promises.                                                  *)

\* Every set of numbers that is not empty has a least element.
LEMMA LeastIs ==
    ASSUME NEW T, T \subseteq Nat, T # {}
    PROVE  Least(T) \in T /\ \A y \in T : Least(T) <= y
<1> DEFINE R == OpToRel(<, Nat)
<1>1. IsWellFoundedOn(R, Nat)
    BY NatLessThanWellFounded
<1>2. \A x, y \in Nat : <<y, x>> \in R <=> y < x
    BY DEF OpToRel
<1> HIDE DEF R
<1>3. PICK x \in T : \A y \in T : <<y, x>> \notin R
    BY <1>1, WFMin
<1>4. \A y \in T : ~(y < x)
    BY <1>2, <1>3
<1>5. \A y \in T : x <= y
    BY <1>4
<1> QED BY <1>5 DEF Least

\* A level prefix is followed by another word.
LEMMA PrefixIs ==
    ASSUME NEW words, IsSequence(words), HasPrefix(words)
    PROVE  PrefixWord(words) \in 1..(Len(words) - 1)
<1> DEFINE found == {n \in DOMAIN LevelWords : PrefixAt(words, LevelWords[n]) # {}}
           P == PrefixAt(words, LevelWords[Least(found)])
<1>1. DOMAIN LevelWords \subseteq Nat
    BY DEF LevelWords
<1>2. found \subseteq Nat /\ found # {}
    BY <1>1 DEF HasPrefix
<1>3. Least(found) \in found
    BY <1>2, LeastIs
<1>4. P # {}
    BY <1>3
<1>5. Len(words) \in Nat
    BY LenProperties DEF IsSequence
<1>6. P \subseteq 1..(Len(words) - 1) /\ P \subseteq Nat
    BY <1>5 DEF PrefixAt
<1>7. PrefixWord(words) = Least(P)
    BY DEF PrefixWord
<1> HIDE DEF P
<1>8. Least(P) \in P
    BY <1>4, <1>6, LeastIs
<1> QED BY <1>6, <1>7, <1>8

\* The end of a text from word k on.
LEMMA EndIs ==
    ASSUME NEW words, IsSequence(words), NEW k \in 1..Len(words)
    PROVE  LET rest == SubSeq(words, k, Len(words)) IN
           /\ IsSequence(rest) /\ rest # <<>>
           /\ ToSet(rest) = {words[i] : i \in k..Len(words)}
<1> DEFINE n == Len(words)
           rest == SubSeq(words, k, n)
<1>1. n \in Nat /\ \A i \in 1..n : words[i] \in ToSet(words)
    BY LenProperties DEF IsSequence, ToSet
<1>2. \A i \in k..n : words[i] \in ToSet(words)
    BY <1>1
<1>3. /\ rest \in Seq(ToSet(words)) /\ Len(rest) = n - k + 1
      /\ \A i \in 1..(n - k + 1) : rest[i] = words[k + i - 1]
    BY <1>1, <1>2, SubSeqProperties
<1>4. n - k + 1 \in Nat /\ n - k + 1 # 0
    BY <1>1
<1> HIDE DEF rest
<1>5. IsSequence(rest) /\ rest # <<>> /\ DOMAIN rest = 1..(n - k + 1)
    BY <1>3, <1>4, SequenceIs, EmptyIs, LenProperties
<1>6. \A i \in 1..(n - k + 1) : k + i - 1 \in k..n
    BY <1>1
<1>7. \A i \in k..n : i - k + 1 \in 1..(n - k + 1) /\ k + (i - k + 1) - 1 = i
    BY <1>1
<1>8. \A i \in k..n : rest[i - k + 1] = words[i]
    BY <1>3, <1>7
<1>9. ASSUME NEW e \in ToSet(rest) PROVE e \in {words[i] : i \in k..n}
    <2>1. PICK i \in 1..(n - k + 1) : e = rest[i]
        BY <1>5 DEF ToSet
    <2> QED BY <1>3, <1>6, <2>1
<1>10. ASSUME NEW i \in k..n PROVE words[i] \in ToSet(rest)
    <2>1. i - k + 1 \in DOMAIN rest /\ rest[i - k + 1] = words[i]
        BY <1>5, <1>7, <1>8
    <2> QED BY <2>1 DEF ToSet
<1>11. ToSet(rest) = {words[i] : i \in k..n}
    BY <1>9, <1>10
<1> QED BY <1>5, <1>11 DEF rest

\* A cut at or before the beginning of word k keeps everything from there on, and one
\* at its beginning nothing else.
LEMMA FromIs ==
    ASSUME NEW line, IsText(line), NEW k \in 1..Len(line.words), NEW s \in Nat, s <= line.at[k]
    PROVE  /\ From(line, s) # <<>>
           /\ ToSet(SubSeq(line.words, k, Len(line.words))) \subseteq ToSet(From(line, s))
           /\ s = line.at[k] => From(line, s) = SubSeq(line.words, k, Len(line.words))
<1> DEFINE n == Len(line.words)
           T == {i \in DOMAIN line.at : s <= line.at[i]}
           j == Least(T)
           p == IF s \in {line.at[j], Length(line)} THEN <<>> ELSE <<Part>>
           rest == SubSeq(line.words, j, n)
<1>1. IsSequence(line.words) /\ n \in Nat /\ line.at \in [1..(n + 1) -> Nat]
    BY LenProperties DEF IsText, IsSequence
<1>2. \A a, b \in 1..(n + 1) : a < b => line.at[a] < line.at[b]
    BY DEF IsText
<1>3. T \subseteq Nat /\ T \subseteq 1..(n + 1) /\ k \in T
    BY <1>1
<1>4. j \in T /\ j <= k
    <2> HIDE DEF T
    <2> QED BY <1>3, LeastIs
<1>5. j \in 1..n /\ k..n \subseteq j..n /\ s <= line.at[j]
    <2>1. j \in 1..(n + 1) /\ s <= line.at[j]
        BY <1>3, <1>4
    <2> HIDE DEF j
    <2> QED BY <1>1, <1>4, <2>1
<1>6. From(line, s) = p \o rest
    BY DEF From
<1>7. /\ IsSequence(rest) /\ rest # <<>>
      /\ ToSet(rest) = {line.words[i] : i \in j..n}
      /\ ToSet(SubSeq(line.words, k, n)) = {line.words[i] : i \in k..n}
    <2> HIDE DEF j
    <2> QED BY <1>1, <1>5, EndIs
<1>8. IsSequence(p)
    <2>1. <<Part>> \in Seq({Part})
        OBVIOUS
    <2>2. IsSequence(<<>>) /\ IsSequence(<<Part>>)
        BY <2>1, EmptyIs, SequenceIs
    <2> QED BY <2>2
<1>9. s = line.at[k] => j = k
    <2> HIDE DEF j
    <2>1. ASSUME s = line.at[k], j < k PROVE FALSE
        <3>1. line.at[j] < line.at[k] /\ line.at[j] \in Nat /\ line.at[k] \in Nat
            BY <1>1, <1>2, <1>5, <2>1
        <3> QED BY <1>5, <2>1, <3>1
    <2> QED BY <1>1, <1>4, <1>5, <2>1
<1>10. s = line.at[k] => p = <<>> /\ rest = SubSeq(line.words, k, n)
    BY <1>9
<1> HIDE DEF p, rest, j, T
<1>11. p \o rest # <<>> /\ ToSet(rest) \subseteq ToSet(p \o rest) /\ <<>> \o rest = rest
    <2> DEFINE S == ToSet(p) \cup ToSet(rest)
               u == p \o rest
    <2>1. p \in Seq(S) /\ rest \in Seq(S)
        BY <1>7, <1>8, SeqMonotonic DEF IsSequence
    <2>2. /\ u \in Seq(S) /\ Len(u) = Len(p) + Len(rest)
          /\ \A i \in 1..(Len(p) + Len(rest)) :
               u[i] = IF i <= Len(p) THEN p[i] ELSE rest[i - Len(p)]
        BY <2>1, ConcatProperties
    <2>3. <<>> \o rest = rest
        BY <2>1, ConcatEmptySeq
    <2>4. /\ Len(p) \in Nat /\ Len(rest) \in Nat /\ Len(rest) # 0
          /\ DOMAIN rest = 1..Len(rest)
        BY <1>7, <2>1, LenProperties, EmptySeq
    <2> HIDE DEF u, S
    <2>5. DOMAIN u = 1..(Len(p) + Len(rest)) /\ u # <<>>
        BY <2>2, <2>4, LenProperties, EmptyIs
    <2>6. ASSUME NEW i \in 1..Len(rest) PROVE rest[i] \in ToSet(u)
        <3>1. /\ i + Len(p) \in 1..(Len(p) + Len(rest)) /\ ~(i + Len(p) <= Len(p))
              /\ (i + Len(p)) - Len(p) = i
            BY <2>4
        <3>2. u[i + Len(p)] = rest[i]
            BY <2>2, <3>1
        <3> QED BY <2>5, <3>1, <3>2 DEF ToSet
    <2>7. ToSet(rest) \subseteq ToSet(u)
        BY <2>4, <2>6 DEF ToSet
    <2> QED BY <2>3, <2>5, <2>7 DEF u
<1>12. ToSet(SubSeq(line.words, k, n)) \subseteq ToSet(rest)
    BY <1>5, <1>7
<1> QED BY <1>6, <1>10, <1>11, <1>12

\* The first name that an object has, when it has only one of them.
LEMMA FirstIs ==
    ASSUME NEW fields, NEW names, DOMAIN names \subseteq Nat
    PROVE  /\ \A k \in DOMAIN names :
                names[k] \in DOMAIN fields
                /\ (\A j \in DOMAIN names : names[j] \in DOMAIN fields => j = k)
                => FirstOf(fields, names) = fields[names[k]]
           /\ (\A j \in DOMAIN names : names[j] \notin DOMAIN fields)
                => FirstOf(fields, names) = Nothing
<1> DEFINE there == {k \in DOMAIN names : names[k] \in DOMAIN fields}
<1>1. ASSUME NEW k \in DOMAIN names, names[k] \in DOMAIN fields,
             \A j \in DOMAIN names : names[j] \in DOMAIN fields => j = k
      PROVE  FirstOf(fields, names) = fields[names[k]]
    <2>1. there = {k}
        BY <1>1
    <2>2. there \subseteq Nat
        OBVIOUS
    <2> HIDE DEF there
    <2>3. Least(there) \in there
        BY <2>1, <2>2, LeastIs
    <2>4. Least(there) = k /\ there # {}
        BY <2>1, <2>3
    <2> QED BY <2>4 DEF FirstOf, there
<1>2. ASSUME \A j \in DOMAIN names : names[j] \notin DOMAIN fields
      PROVE  FirstOf(fields, names) = Nothing
    <2>1. there = {}
        BY <1>2
    <2> QED BY <2>1 DEF FirstOf
<1> QED BY <1>1, <1>2

\* The value that is found when only the k-th of the names may be there.
LEMMA OnlyName ==
    ASSUME NEW fields, NEW names, DOMAIN names \subseteq Nat, NEW k \in DOMAIN names,
           \A j \in DOMAIN names : j # k => names[j] \notin DOMAIN fields
    PROVE  FirstOf(fields, names) =
             IF names[k] \in DOMAIN fields THEN fields[names[k]] ELSE Nothing
<1>1. CASE names[k] \in DOMAIN fields
    BY <1>1, FirstIs
<1>2. CASE names[k] \notin DOMAIN fields
    BY <1>2, FirstIs
<1> QED BY <1>1, <1>2

\* The names under which parse_json_value looks for a value.
TimeNames == <<"timestamp", "ts", "time", "t">>
DateNames == <<"timestamp", "ts", "t">>
ServiceNames == <<"service", "app", "source", "s">>
MessageNames == <<"message", "msg", "log", "m">>

LEMMA NamesAre ==
    /\ DOMAIN TimeNames = 1..4 /\ DOMAIN ServiceNames = 1..4
    /\ DOMAIN LevelNames = 1..4 /\ DOMAIN MessageNames = 1..4 /\ DOMAIN DateNames = 1..3
    /\ \A j \in 1..4 : j = 1 \/ j = 2 \/ j = 3 \/ j = 4
    /\ \A j \in 1..3 : j = 1 \/ j = 2 \/ j = 3
BY DEF TimeNames, DateNames, ServiceNames, LevelNames, MessageNames

\* What is found in an object that has the long names only.
LEMMA LongFound ==
    ASSUME NEW f, DOMAIN f \subseteq {"timestamp", "service", "level", "message"}
    PROVE  LET at(n) == IF n \in DOMAIN f THEN f[n] ELSE Nothing IN
           /\ FirstOf(f, TimeNames) = at("timestamp") /\ FirstOf(f, DateNames) = at("timestamp")
           /\ FirstOf(f, ServiceNames) = at("service") /\ FirstOf(f, LevelNames) = at("level")
           /\ FirstOf(f, MessageNames) = at("message")
<1> DEFINE at(n) == IF n \in DOMAIN f THEN f[n] ELSE Nothing
<1>1. \A j \in 1..4 : j # 1 => /\ TimeNames[j] \notin DOMAIN f /\ ServiceNames[j] \notin DOMAIN f
                               /\ LevelNames[j] \notin DOMAIN f /\ MessageNames[j] \notin DOMAIN f
    BY NamesAre DEF TimeNames, ServiceNames, LevelNames, MessageNames
<1>2. \A j \in 1..3 : j # 1 => DateNames[j] \notin DOMAIN f
    BY NamesAre DEF DateNames
<1>3. /\ TimeNames[1] = "timestamp" /\ DateNames[1] = "timestamp" /\ ServiceNames[1] = "service"
      /\ LevelNames[1] = "level" /\ MessageNames[1] = "message"
    BY DEF TimeNames, DateNames, ServiceNames, LevelNames, MessageNames
<1>4. 1 \in 1..4 /\ 1 \in 1..3 /\ 1..4 \subseteq Nat /\ 1..3 \subseteq Nat
    OBVIOUS
<1>5. FirstOf(f, TimeNames) = at("timestamp")
    BY <1>1, <1>3, <1>4, NamesAre, OnlyName
<1>6. FirstOf(f, DateNames) = at("timestamp")
    BY <1>2, <1>3, <1>4, NamesAre, OnlyName
<1>7. FirstOf(f, ServiceNames) = at("service")
    BY <1>1, <1>3, <1>4, NamesAre, OnlyName
<1>8. FirstOf(f, LevelNames) = at("level")
    BY <1>1, <1>3, <1>4, NamesAre, OnlyName
<1>9. FirstOf(f, MessageNames) = at("message")
    BY <1>1, <1>3, <1>4, NamesAre, OnlyName
<1> QED BY <1>5, <1>6, <1>7, <1>8, <1>9

\* And in one that has the compact names only.
LEMMA CompactFound ==
    ASSUME NEW f, DOMAIN f \subseteq {"t", "s", "l", "m"}
    PROVE  LET at(n) == IF n \in DOMAIN f THEN f[n] ELSE Nothing IN
           /\ FirstOf(f, TimeNames) = at("t") /\ FirstOf(f, DateNames) = at("t")
           /\ FirstOf(f, ServiceNames) = at("s") /\ FirstOf(f, LevelNames) = at("l")
           /\ FirstOf(f, MessageNames) = at("m")
<1> DEFINE at(n) == IF n \in DOMAIN f THEN f[n] ELSE Nothing
<1>1. \A j \in 1..4 : j # 4 => /\ TimeNames[j] \notin DOMAIN f /\ ServiceNames[j] \notin DOMAIN f
                               /\ LevelNames[j] \notin DOMAIN f /\ MessageNames[j] \notin DOMAIN f
    BY NamesAre DEF TimeNames, ServiceNames, LevelNames, MessageNames
<1>2. \A j \in 1..3 : j # 3 => DateNames[j] \notin DOMAIN f
    BY NamesAre DEF DateNames
<1>3. /\ TimeNames[4] = "t" /\ DateNames[3] = "t" /\ ServiceNames[4] = "s"
      /\ LevelNames[4] = "l" /\ MessageNames[4] = "m"
    BY DEF TimeNames, DateNames, ServiceNames, LevelNames, MessageNames
<1>4. 4 \in 1..4 /\ 3 \in 1..3 /\ 1..4 \subseteq Nat /\ 1..3 \subseteq Nat
    OBVIOUS
<1>5. FirstOf(f, TimeNames) = at("t")
    BY <1>1, <1>3, <1>4, NamesAre, OnlyName
<1>6. FirstOf(f, DateNames) = at("t")
    BY <1>2, <1>3, <1>4, NamesAre, OnlyName
<1>7. FirstOf(f, ServiceNames) = at("s")
    BY <1>1, <1>3, <1>4, NamesAre, OnlyName
<1>8. FirstOf(f, LevelNames) = at("l")
    BY <1>1, <1>3, <1>4, NamesAre, OnlyName
<1>9. FirstOf(f, MessageNames) = at("m")
    BY <1>1, <1>3, <1>4, NamesAre, OnlyName
<1> QED BY <1>5, <1>6, <1>7, <1>8, <1>9

\* An object and its compact form are the same log line.
LEMMA SpellingIsFree ==
    ASSUME NEW f, DOMAIN f \subseteq {"timestamp", "service", "level", "message"}, NEW service
    PROVE  ParseJson(Compact(f), service) = ParseJson(f, service)
<1> DEFINE c == Compact(f)
<1>1. /\ DOMAIN c \subseteq {"t", "s", "l", "m"}
      /\ "t" \in DOMAIN c <=> "timestamp" \in DOMAIN f
      /\ "s" \in DOMAIN c <=> "service" \in DOMAIN f
      /\ "l" \in DOMAIN c <=> "level" \in DOMAIN f
      /\ "m" \in DOMAIN c <=> "message" \in DOMAIN f
      /\ "t" \in DOMAIN c => c["t"] = f["timestamp"]
      /\ "s" \in DOMAIN c => c["s"] = f["service"]
      /\ "l" \in DOMAIN c => c["l"] = f["level"]
      /\ "m" \in DOMAIN c => c["m"] = f["message"]
    BY DEF Compact
<1> HIDE DEF c
<1>2. /\ FirstOf(c, TimeNames) = FirstOf(f, TimeNames)
      /\ FirstOf(c, DateNames) = FirstOf(f, DateNames)
      /\ FirstOf(c, ServiceNames) = FirstOf(f, ServiceNames)
      /\ FirstOf(c, LevelNames) = FirstOf(f, LevelNames)
      /\ FirstOf(c, MessageNames) = FirstOf(f, MessageNames)
    BY <1>1, LongFound, CompactFound
<1>3. TimeOf(c) = TimeOf(f)
    BY <1>2 DEF TimeOf, TimeNames, DateNames
<1>4. StringOf(c, ServiceNames, service) = StringOf(f, ServiceNames, service)
    BY <1>2 DEF StringOf
<1>5. LevelOf(c) = LevelOf(f)
    BY <1>2 DEF LevelOf
<1>6. StringOf(c, MessageNames, <<"{...}">>) = StringOf(f, MessageNames, <<"{...}">>)
    BY <1>2 DEF StringOf
<1> QED BY <1>3, <1>4, <1>5, <1>6 DEF ParseJson, ServiceNames, MessageNames, c

\* A line of generate is understood as it was meant.
LEMMA GeneratedIsUnderstood ==
    ASSUME NEW i, NEW service, NEW base
    PROVE  Intended(i, service, base) \in ToSet(ParseLine(Generated(i, service, base), service))
<1> DEFINE log == Intended(i, service, base)
           g == Generated(i, service, base).fields
<1>1. /\ log = [ts |-> log.ts, service |-> log.service, message |-> log.message,
                level |-> log.level]
      /\ log.level \in {"E", "W", "I"}
    BY DEF Intended
<1> HIDE DEF log
<1>2. /\ DOMAIN g = {"t", "s", "l", "m"}
      /\ g["t"] = [num |-> log.ts] /\ g["s"] = [str |-> log.service]
      /\ g["l"] = [str |-> <<log.level>>] /\ g["m"] = [str |-> log.message]
      /\ Generated(i, service, base).kind = "json"
    BY DEF Generated, log
<1> HIDE DEF g
<1>3. /\ FirstOf(g, TimeNames) = g["t"] /\ FirstOf(g, ServiceNames) = g["s"]
      /\ FirstOf(g, LevelNames) = g["l"] /\ FirstOf(g, MessageNames) = g["m"]
    BY <1>2, CompactFound
<1>4. TimeOf(g) = log.ts
    BY <1>2, <1>3 DEF TimeOf, TimeNames
<1>5. \A d : StringOf(g, ServiceNames, d) = log.service
    BY <1>2, <1>3 DEF StringOf, IsStr
<1>6. \A d : StringOf(g, MessageNames, d) = log.message
    BY <1>2, <1>3 DEF StringOf, IsStr
<1>7. LevelOf(g) = log.level
    <2>1. LevelOf(g) = Normalized(<<log.level>>)
        BY <1>2, <1>3 DEF LevelOf, IsStr
    <2>2. Normalized(<<"E">>) = "E" /\ Normalized(<<"W">>) = "W" /\ Normalized(<<"I">>) = "I"
        BY DEF Normalized
    <2> QED BY <1>1, <2>1, <2>2
<1>8. ParseJson(g, service) = log
    BY <1>1, <1>4, <1>5, <1>6, <1>7 DEF ParseJson, ServiceNames, MessageNames
<1>9. ParseLine(Generated(i, service, base), service) = <<log>>
    BY <1>2, <1>8 DEF ParseLine, g
<1>10. log \in ToSet(<<log>>)
    BY DEF ToSet
<1> QED BY <1>9, <1>10 DEF log

\* A line of text whose upper case does not push a word on loses nothing behind its
\* level word.
LEMMA TextStaysText ==
    ASSUME NEW line, IsText(line), IsPlain(line)
    PROVE  LET rest == Behind(line.words) IN
           /\ line.up = line.at => ~Panics(line) /\ Stripped(line) = rest
           /\ (\A j \in DOMAIN line.at : line.up[j] <= line.at[j]) =>
                ToSet(rest) \subseteq ToSet(Stripped(line)) /\ Stripped(line) # <<>>
<1> DEFINE n == Len(line.words)
<1>1. /\ IsSequence(line.words) /\ n \in Nat /\ n > 0
      /\ line.at \in [1..(n + 1) -> Nat] /\ line.up \in [1..(n + 1) -> Nat]
      /\ \A i \in 1..n : line.at[i] \in line.bounds
    BY LenProperties DEF IsText, IsSequence
<1>2. CASE ~HasPrefix(line.words)
    <2>1. line.words # <<>>
        BY <1>1, EmptyIs
    <2> QED BY <1>2, <2>1 DEF Behind, Panics, Stripped
<1>3. CASE HasPrefix(line.words)
    <2> DEFINE k == PrefixWord(line.words) + 1
    <2>1. k \in 1..n /\ k \in DOMAIN line.at
        <3>1. PrefixWord(line.words) \in 1..(n - 1)
            BY <1>1, <1>3, PrefixIs
        <3> QED BY <1>1, <3>1
    <2>2. Cut(line) = line.up[k] /\ Cut(line) \in Nat
        BY <1>1, <2>1 DEF Cut
    <2>3. Stripped(line) = From(line, Cut(line)) /\ Behind(line.words) = SubSeq(line.words, k, n)
        BY <1>3 DEF Stripped, Behind
    <2> HIDE DEF k
    <2>4. ASSUME line.up = line.at
          PROVE  ~Panics(line) /\ Stripped(line) = Behind(line.words)
        <3>1. Cut(line) = line.at[k] /\ Cut(line) \in line.bounds /\ line.at[k] \in Nat
            BY <1>1, <2>1, <2>2, <2>4
        <3>2. From(line, Cut(line)) = SubSeq(line.words, k, n)
            BY <1>1, <2>1, <2>2, <3>1, FromIs
        <3> QED BY <2>3, <3>1, <3>2 DEF Panics
    <2>5. ASSUME \A j \in DOMAIN line.at : line.up[j] <= line.at[j]
          PROVE  ToSet(Behind(line.words)) \subseteq ToSet(Stripped(line)) /\ Stripped(line) # <<>>
        <3>1. Cut(line) <= line.at[k]
            BY <2>1, <2>2, <2>5
        <3> QED BY <2>1, <2>2, <2>3, <3>1, FromIs
    <2> QED BY <2>4, <2>5
<1> QED BY <1>2, <1>3

\* The parser keeps its promises, for any lines: text whose upper case is not longer
\* loses nothing behind its level word and never becomes an empty message, which
\* write_segment_v2 could not seal, the lines of cmd_generate arrive as meant, and the
\* compact names of a JSON line mean what the long ones do.
THEOREM LinesAreParsedAsMeant == Spec => []ParsedAsMeant
<1>1. ASSUME IInv PROVE ParsedAsMeant
    <2>1. SpellingsAgree
        BY SpellingIsFree DEF SpellingsAgree
    <2>2. GeneratedArrives
        <3> SUFFICES ASSUME NEW k \in 1..taken, NEW i \in 0..2,
                            script[k] = Generated(i, Service, Now)
                     PROVE  Intended(i, Service, Now) \in ToSet(ParseLine(script[k], Service))
            BY DEF GeneratedArrives
        <3> QED BY GeneratedIsUnderstood
    <2>3. TextIsKept
        <3> SUFFICES ASSUME NEW k \in 1..fed, script[k] \notin {Garbled, Broken},
                            IsPlain(script[k])
                     PROVE  LET line == script[k]
                                rest == Behind(line.words)
                            IN  /\ line.up = line.at => ~Panics(line) /\ Stripped(line) = rest
                                /\ (\A j \in DOMAIN line.at : line.up[j] <= line.at[j])
                                   /\ ~Panics(line) =>
                                     \A log \in ToSet(ParseLine(line, Service)) :
                                         /\ ToSet(rest) \subseteq ToSet(log.message)
                                         /\ log.message # <<>>
            BY DEF TextIsKept
        <3>1. script \in Scripts \cup {<<>>} /\ fed \in 0..Len(script)
            BY <1>1 DEF IInv, Orderly, TypeOK
        <3>2. IsSequence(script)
            BY <3>1, EmptyIs, PipelineAssumption DEF IsSequence
        <3>3. Len(script) \in Nat /\ DOMAIN script = 1..Len(script)
            BY <3>2, LenProperties DEF IsSequence
        <3>4. k \in DOMAIN script /\ Len(script) # 0
            BY <3>1, <3>3
        <3>5. script[k] \in ToSet(script) /\ script \in Scripts
            BY <3>1, <3>4, EmptyIs DEF ToSet
        <3>6. IsText(script[k])
            BY <3>5, PipelineAssumption DEF IsPlain
        <3> DEFINE line == script[k]
                   text == [ts |-> Now, service |-> Service, level |-> Inferred(line.words),
                            message |-> Stripped(line)]
        <3>7. ParseLine(line, Service) = <<text>>
            BY DEF ParseLine, IsPlain
        <3>8. text.message = Stripped(line)
            OBVIOUS
        <3> HIDE DEF text, line
        <3>9. \A log \in ToSet(ParseLine(line, Service)) : log.message = Stripped(line)
            <4>1. ToSet(<<text>>) = {text}
                BY DEF ToSet
            <4> QED BY <3>7, <3>8, <4>1
        <3>10. IsText(line) /\ IsPlain(line)
            BY <3>6 DEF line
        <3>11. LET rest == Behind(line.words) IN
               /\ line.up = line.at => ~Panics(line) /\ Stripped(line) = rest
               /\ (\A j \in DOMAIN line.at : line.up[j] <= line.at[j]) =>
                    ToSet(rest) \subseteq ToSet(Stripped(line)) /\ Stripped(line) # <<>>
            BY <3>10, TextStaysText
        <3> QED BY <3>9, <3>11 DEF line
    <2> QED BY <2>1, <2>2, <2>3 DEF ParsedAsMeant
<1> QED BY <1>1, PipelineInvariance, PTL
===============================================================================
