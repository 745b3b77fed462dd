---------------------- MODULE PipelineTranslatorProofs ----------------------
(***************************************************************************)
(* For any number of phrases and of chunks, and any capacities: nothing is *)
(* lost, repeated or left behind, and TranslateStream implements           *)
(* OrderedPhrases.                                                         *)
(***************************************************************************)
EXTENDS PipelineTranslator, SequenceTheorems, TLAPS

\* resultCh is closed only when no goroutine will send on it any more: a late
\* send would panic.
NoSendOnClosed ==
  fanOut = "closed" => \A s \in Seqs : job[s] \notin Running

\* The drainer waits for a result only when it does not hold the next one,
\* and has speech only of a phrase that had its turn.
TurnKept ==
  /\ drainer = "receive" => \A r \in pending : r.seq # nextExpected
  /\ drainer \in {"synthesize", "listen", "send"} => nextExpected > 0

\* How the drainer can have ended.
ExitKept ==
  drainer = "exit" /\ ~cancelled =>
    /\ fanOut = "closed"
    /\ nextExpected = Len(accepted)
    /\ resultCh = <<>>
    /\ pending = {}

\* The inductive invariant.
IInv ==
  /\ TypeOK
  /\ OnePlace
  /\ NoSendOnClosed
  /\ TurnKept
  /\ ExitKept

LEMMA InitIInv ==
  ASSUME Init
  PROVE  IInv
<1>1. Len(<<>>) = 0 /\ \A S : <<>> \in Seq(S)
  OBVIOUS
<1>2. TypeOK
  <2>1. /\ 0 \in 0 .. MaxPhrases
        /\ 0 \in 0 .. MaxChunks
        /\ 0 <= ResultCap /\ 0 <= TranscriptCap /\ 0 <= AudioCap
    BY BoundsAreNat, CapsArePositive
  <2>2. job \in [Seqs -> Running \cup {"none", "sent"}]
    BY DEF Init, Running
  <2>3. nextExpected \in 0 .. Len(accepted) /\ Len(accepted) <= heard
    BY <1>1 DEF Init
  <2> QED
    BY <1>1, <2>1, <2>2, <2>3 DEF Init, TypeOK
<1>3. OnePlace
  <2> SUFFICES ASSUME Init
               PROVE  /\ \A s \in Seqs : /\ job[s] = "none"
                                          /\ ~Queued(s)
                                          /\ ~Held(s)
                                          /\ s >= 0
                      /\ Len(accepted) = 0
                      /\ Len(resultCh) = 0
                      /\ nextExpected = 0
                      /\ pending = {}
    BY DEF OnePlace, Seqs
  <2> QED
    BY <1>1, BoundsAreNat DEF Init, Queued, Held, Seqs
<1>4. NoSendOnClosed /\ TurnKept /\ ExitKept
  BY DEF Init, NoSendOnClosed, TurnKept, ExitKept
<1> QED
  BY <1>2, <1>3, <1>4 DEF IInv

-----------------------------------------------------------------------------
(* Types.                                                                  *)

LEMMA SurroundingsType ==
  ASSUME IInv, Cancel \/ SttCloses \/ ShowTranscript \/ PlayChunk \/ SinkFails
  PROVE  TypeOK'
<1>1. CASE Cancel
  BY <1>1 DEF IInv, TypeOK, Cancel, drainVars, outputVars
<1>2. CASE SttCloses
  BY <1>2 DEF IInv, TypeOK, SttCloses, drainVars, outputVars
<1>3. CASE ShowTranscript
  <2>1. /\ Head(transcriptCh) \in 1 .. MaxPhrases
        /\ transcriptCh' \in Seq(1 .. MaxPhrases)
        /\ Len(transcriptCh') = Len(transcriptCh) - 1
        /\ Len(transcriptCh) \in Nat
    BY <1>3, HeadTailProperties, LenProperties DEF IInv, TypeOK, ShowTranscript
  <2>2. shown' \in Seq(1 .. MaxPhrases)
    BY <1>3, <2>1, AppendProperties DEF IInv, TypeOK, ShowTranscript
  <2>3. Len(transcriptCh') <= TranscriptCap
    BY <2>1, CapsArePositive DEF IInv, TypeOK
  <2> QED
    BY <1>3, <2>1, <2>2, <2>3 DEF IInv, TypeOK, ShowTranscript, drainVars, inputVars
<1>4. CASE PlayChunk
  <2>1. /\ Head(audioCh) \in 1 .. MaxPhrases
        /\ audioCh' \in Seq(1 .. MaxPhrases)
        /\ Len(audioCh') = Len(audioCh) - 1
        /\ Len(audioCh) \in Nat
    BY <1>4, HeadTailProperties, LenProperties DEF IInv, TypeOK, PlayChunk
  <2>2. played' \in Seq(1 .. MaxPhrases)
    BY <1>4, <2>1, AppendProperties DEF IInv, TypeOK, PlayChunk
  <2>3. Len(audioCh') <= AudioCap
    BY <2>1, CapsArePositive DEF IInv, TypeOK
  <2> QED
    BY <1>4, <2>1, <2>2, <2>3 DEF IInv, TypeOK, PlayChunk, drainVars, inputVars
<1>5. CASE SinkFails
  BY <1>5 DEF IInv, TypeOK, SinkFails, drainVars, outputVars
<1> QED
  BY <1>1, <1>2, <1>3, <1>4, <1>5

LEMMA FanOutType ==
  ASSUME IInv, FanOut
  PROVE  TypeOK'
<1>1. CASE DropPhrase
  BY <1>1, BoundsAreNat DEF IInv, TypeOK, DropPhrase, drainVars, outputVars
<1>2. CASE AcceptPhrase
  <2>1. heard' \in 1 .. MaxPhrases
    BY <1>2, BoundsAreNat DEF IInv, TypeOK, AcceptPhrase
  <2>2. /\ accepted' \in Seq(1 .. MaxPhrases)
        /\ Len(accepted') = Len(accepted) + 1
        /\ Len(accepted) \in Nat
    BY <1>2, <2>1, AppendProperties, LenProperties
    DEF IInv, TypeOK, AcceptPhrase
  <2>3. job' \in [Seqs -> Running \cup {"none", "sent"}]
    BY <1>2 DEF IInv, TypeOK, AcceptPhrase, Running
  <2>4. /\ Len(accepted') <= heard'
        /\ nextExpected \in 0 .. Len(accepted')
    BY <1>2, <2>2, BoundsAreNat DEF IInv, TypeOK, AcceptPhrase
  <2> QED
    BY <1>2, <2>1, <2>2, <2>3, <2>4
    DEF IInv, TypeOK, AcceptPhrase, drainVars, outputVars
<1>3. CASE FanOutStops
  BY <1>3 DEF IInv, TypeOK, FanOutStops, inputVars, drainVars, outputVars
<1>4. CASE FanOutCloses
  BY <1>4 DEF IInv, TypeOK, FanOutCloses, inputVars, drainVars, outputVars
<1> QED
  BY <1>1, <1>2, <1>3, <1>4 DEF FanOut

LEMMA WorkerType ==
  ASSUME IInv, NEW s \in Seqs, Translate(s) \/ SendResult(s)
  PROVE  TypeOK'
<1>1. CASE Translate(s)
  BY <1>1 DEF IInv, TypeOK, Translate, Running, inputVars, drainVars, outputVars
<1>2. CASE SendResult(s)
  <2>1. [seq |-> s, skipped |-> job[s] = "failed"] \in Results
    BY DEF Results
  <2>2. /\ resultCh' \in Seq(Results)
        /\ Len(resultCh') <= ResultCap
    BY <1>2, <2>1, AppendProperties, LenProperties, CapsArePositive
    DEF IInv, TypeOK, SendResult
  <2> QED
    BY <1>2, <2>2
    DEF IInv, TypeOK, SendResult, Running, inputVars, drainVars, outputVars
<1> QED
  BY <1>1, <1>2

\* The phrase whose turn it is was accepted.
LEMMA TurnIsAccepted ==
  ASSUME IInv, NEW r \in pending, r.seq = nextExpected
  PROVE  /\ nextExpected \in Seqs
         /\ nextExpected < Len(accepted)
         /\ nextExpected + 1 \in 1 .. MaxPhrases
<1>1. nextExpected \in Seqs
  BY DEF IInv, TypeOK, Results
<1>2. job[nextExpected] = "sent"
  BY <1>1 DEF IInv, OnePlace, Held
<1> QED
  BY <1>1, <1>2, BoundsAreNat DEF IInv, OnePlace, Seqs

LEMMA DrainType ==
  ASSUME IInv, Drain
  PROVE  TypeOK'
<1>1. CASE DrainResult
  <2>1. /\ Head(resultCh) \in Results
        /\ resultCh' \in Seq(Results)
        /\ Len(resultCh') <= ResultCap
    BY <1>1, HeadTailProperties, LenProperties, CapsArePositive
    DEF IInv, TypeOK, DrainResult
  <2> QED
    BY <1>1, <2>1 DEF IInv, TypeOK, DrainResult, inputVars, outputVars
<1>2. CASE DrainEnd
  BY <1>2 DEF IInv, TypeOK, DrainEnd, inputVars, outputVars
<1>3. CASE AwaitTurn
  BY <1>3 DEF IInv, TypeOK, AwaitTurn, inputVars, outputVars
<1>4. CASE TakeTurn
  <2>1. PICK r \in pending : r.seq = nextExpected
    BY <1>4 DEF TakeTurn
  <2>2. /\ nextExpected < Len(accepted)
        /\ nextExpected + 1 \in 1 .. MaxPhrases
    BY <2>1, TurnIsAccepted
  <2>3. nextExpected' \in 0 .. Len(accepted)
    BY <1>4, <2>2, LenProperties DEF IInv, TypeOK, TakeTurn
  <2>4. /\ transcriptCh' \in Seq(1 .. MaxPhrases)
        /\ Len(transcriptCh') <= TranscriptCap
    <3>1. \/ transcriptCh' = transcriptCh
          \/ /\ Len(transcriptCh) < TranscriptCap
             /\ transcriptCh' = Append(transcriptCh, nextExpected + 1)
      BY <1>4 DEF TakeTurn, OfferTranscript
    <3>2. /\ transcriptCh \in Seq(1 .. MaxPhrases)
          /\ Len(transcriptCh) \in Nat
          /\ Len(transcriptCh) <= TranscriptCap
      BY LenProperties DEF IInv, TypeOK
    <3>3. /\ Append(transcriptCh, nextExpected + 1) \in Seq(1 .. MaxPhrases)
          /\ Len(Append(transcriptCh, nextExpected + 1)) = Len(transcriptCh) + 1
      BY <3>2, <2>2, AppendProperties
    <3>4. TranscriptCap \in Nat
      BY CapsArePositive
    <3>5. CASE transcriptCh' = transcriptCh
      BY <3>2, <3>5
    <3>6. CASE /\ Len(transcriptCh) < TranscriptCap
               /\ transcriptCh' = Append(transcriptCh, nextExpected + 1)
      <4>1. Len(transcriptCh) + 1 <= TranscriptCap
        BY <3>2, <3>4, <3>6
      <4> QED
        BY <3>3, <3>6, <4>1
    <3> QED
      BY <3>1, <3>5, <3>6
  <2>5. pending' \subseteq Results
    BY <1>4 DEF IInv, TypeOK, TakeTurn
  <2>6. /\ drainer' \in {"look", "synthesize"}
        /\ chunks' \in 0 .. MaxChunks
    BY <1>4, BoundsAreNat DEF IInv, TypeOK, TakeTurn
  <2> QED
    BY <1>4, <2>3, <2>4, <2>5, <2>6 DEF IInv, TypeOK, TakeTurn, inputVars
<1>5. CASE Synthesize
  BY <1>5 DEF IInv, TypeOK, Synthesize, inputVars, outputVars
<1>6. CASE NextChunk
  BY <1>6, BoundsAreNat DEF IInv, TypeOK, NextChunk, inputVars, outputVars
<1>7. CASE EndOfSpeech
  BY <1>7 DEF IInv, TypeOK, EndOfSpeech, inputVars, outputVars
<1>8. CASE SendChunk
  <2>1. nextExpected \in 1 .. MaxPhrases
    BY <1>8, LenProperties, BoundsAreNat DEF IInv, TypeOK, TurnKept, SendChunk
  <2>2. /\ audioCh' \in Seq(1 .. MaxPhrases)
        /\ Len(audioCh') <= AudioCap
    BY <1>8, <2>1, AppendProperties, LenProperties, CapsArePositive
    DEF IInv, TypeOK, SendChunk
  <2> QED
    BY <1>8, <2>2 DEF IInv, TypeOK, SendChunk, inputVars
<1>9. CASE GiveUp
  BY <1>9 DEF IInv, TypeOK, GiveUp, inputVars, outputVars
<1> QED
  BY <1>1, <1>2, <1>3, <1>4, <1>5, <1>6, <1>7, <1>8, <1>9 DEF Drain

-----------------------------------------------------------------------------
(* A result is in one place.                                               *)

resultVars == <<accepted, job, resultCh, pending, nextExpected>>

LEMMA OnePlaceFrame ==
  ASSUME OnePlace, UNCHANGED resultVars
  PROVE  OnePlace'
  BY DEF OnePlace, resultVars, Queued, Held

LEMMA AcceptOnePlace ==
  ASSUME IInv, AcceptPhrase
  PROVE  OnePlace'
<1> DEFINE n == Len(accepted)
<1>1. n \in Seqs /\ Len(accepted') = n + 1
  <2>1. heard' \in 1 .. MaxPhrases
    BY BoundsAreNat DEF IInv, TypeOK, AcceptPhrase
  <2>2. n \in Nat /\ Len(accepted') = n + 1
    BY <2>1, AppendProperties, LenProperties DEF IInv, TypeOK, AcceptPhrase
  <2> QED
    BY <2>2, BoundsAreNat DEF IInv, TypeOK, AcceptPhrase, Seqs
<1>2. UNCHANGED <<resultCh, pending, nextExpected>>
  BY DEF AcceptPhrase, drainVars
<1>3. \A s \in Seqs : job'[s] = IF s = n THEN "calling" ELSE job[s]
  BY DEF IInv, TypeOK, AcceptPhrase
<1>4. job[n] = "none"
  BY <1>1 DEF IInv, OnePlace, Seqs, TypeOK
<1>5. ASSUME NEW s \in Seqs
      PROVE  /\ Queued(s)' <=> Queued(s)
             /\ Held(s)' <=> Held(s)
             /\ s < n + 1 <=> s < n \/ s = n
  BY <1>1, <1>2 DEF Queued, Held, Seqs
<1> HIDE DEF n
<1> QED
  BY <1>1, <1>2, <1>3, <1>4, <1>5 DEF IInv, OnePlace, n

LEMMA TranslateOnePlace ==
  ASSUME IInv, NEW s \in Seqs, Translate(s)
  PROVE  OnePlace'
<1>1. UNCHANGED <<accepted, resultCh, pending, nextExpected>>
  BY DEF Translate, drainVars, inputVars
<1>2. /\ job[s] = "calling"
      /\ job'[s] \in {"translated", "failed"}
      /\ \A t \in Seqs \ {s} : job'[t] = job[t]
  BY DEF IInv, TypeOK, Translate
<1>3. \A t \in Seqs : (Queued(t)' <=> Queued(t)) /\ (Held(t)' <=> Held(t))
  BY <1>1 DEF Queued, Held
<1> QED
  BY <1>1, <1>2, <1>3 DEF IInv, OnePlace

LEMMA SendOnePlace ==
  ASSUME IInv, NEW s \in Seqs, SendResult(s)
  PROVE  OnePlace'
<1> DEFINE r == [seq |-> s, skipped |-> job[s] = "failed"]
           n == Len(resultCh)
<1>1. UNCHANGED <<accepted, pending, nextExpected>>
  BY DEF SendResult, drainVars, inputVars
<1>2. /\ job[s] \in {"translated", "failed"}
      /\ job' = [job EXCEPT ![s] = "sent"]
      /\ resultCh' = Append(resultCh, r)
  BY DEF SendResult
<1>3. /\ job'[s] = "sent"
      /\ \A t \in Seqs \ {s} : job'[t] = job[t]
  BY <1>2 DEF IInv, TypeOK
<1>4. r \in Results /\ r.seq = s
  BY DEF Results
<1> HIDE DEF r
<1>5. /\ n \in Nat
      /\ Len(resultCh') = n + 1
      /\ resultCh'[n + 1] = r
      /\ \A i \in 1 .. n : resultCh'[i] = resultCh[i]
  BY <1>2, <1>4, AppendProperties, LenProperties DEF IInv, TypeOK
<1>6. ~Queued(s) /\ ~Held(s) /\ ~(s < nextExpected)
  BY <1>2 DEF IInv, OnePlace
<1>7. \A i \in 1 .. n + 1 : i \in 1 .. n \/ i = n + 1
  BY <1>5
<1> HIDE DEF n
<1>8. ASSUME NEW t \in Seqs
      PROVE  Queued(t)' <=> Queued(t) \/ t = s
  <2>1. CASE t = s
    <3>1. n + 1 \in 1 .. n + 1
      BY <1>5
    <3> QED
      BY <1>4, <1>5, <2>1, <3>1 DEF Queued
  <2>2. CASE t # s
    <3>1. 1 .. n \subseteq 1 .. n + 1
      BY <1>5
    <3> QED
      BY <1>4, <1>5, <1>7, <2>2, <3>1 DEF Queued, n
  <2> QED
    BY <2>1, <2>2
<1>9. \A t \in Seqs : Held(t)' <=> Held(t)
  BY <1>1 DEF Held
<1>10. ASSUME NEW i \in 1 .. n + 1, NEW j \in 1 .. n + 1,
              resultCh'[i].seq = resultCh'[j].seq
       PROVE  i = j
  <2>1. CASE i \in 1 .. n /\ j \in 1 .. n
    BY <1>5, <1>10, <2>1 DEF IInv, OnePlace, n
  <2>2. CASE i \in 1 .. n /\ j = n + 1
    BY <1>4, <1>5, <1>6, <1>10, <2>2 DEF Queued, n
  <2>3. CASE i = n + 1 /\ j \in 1 .. n
    BY <1>4, <1>5, <1>6, <1>10, <2>3 DEF Queued, n
  <2> QED
    BY <1>7, <2>1, <2>2, <2>3
<1> QED
  BY <1>1, <1>2, <1>3, <1>5, <1>6, <1>8, <1>9, <1>10 DEF IInv, OnePlace

LEMMA DrainOnePlace ==
  ASSUME IInv, DrainResult
  PROVE  OnePlace'
<1> DEFINE r == Head(resultCh)
           n == Len(resultCh)
<1>1. UNCHANGED <<accepted, job, nextExpected>>
  BY DEF DrainResult, inputVars
<1>2. /\ pending' = pending \cup {r}
      /\ resultCh' = Tail(resultCh)
      /\ resultCh # <<>>
  BY DEF DrainResult
<1>3. /\ n \in Nat /\ n > 0
      /\ r = resultCh[1]
      /\ r \in Results
      /\ Len(resultCh') = n - 1
      /\ \A i \in 1 .. n - 1 : resultCh'[i] = resultCh[i + 1]
  BY <1>2, HeadTailProperties, LenProperties, EmptySeq DEF IInv, TypeOK
<1>4. r.seq \in Seqs /\ Queued(r.seq)
  BY <1>3 DEF Results, Queued
<1> HIDE DEF r
<1>5. ~Held(r.seq) /\ ~(r.seq < nextExpected)
  BY <1>4 DEF IInv, OnePlace
<1>6. \A i, j \in 1 .. n : resultCh[i].seq = resultCh[j].seq => i = j
  BY DEF IInv, OnePlace
<1> HIDE DEF n
<1>7. ASSUME NEW t \in Seqs
      PROVE  Queued(t)' <=> Queued(t) /\ t # r.seq
  <2>1. ASSUME Queued(t)' PROVE Queued(t) /\ t # r.seq
    <3>1. PICK i \in 1 .. n - 1 : resultCh'[i].seq = t
      BY <1>3, <2>1 DEF Queued
    <3>2. i + 1 \in 1 .. n /\ 1 \in 1 .. n /\ i + 1 # 1
      BY <1>3
    <3>3. resultCh[i + 1].seq = t
      BY <1>3, <3>1
    <3> QED
      BY <1>3, <1>6, <3>2, <3>3 DEF Queued, n
  <2>2. ASSUME Queued(t), t # r.seq PROVE Queued(t)'
    <3>1. PICK i \in 1 .. n : resultCh[i].seq = t
      BY <2>2 DEF Queued, n
    <3>2. i # 1
      BY <1>3, <2>2, <3>1
    <3>3. i - 1 \in 1 .. n - 1 /\ (i - 1) + 1 = i
      BY <1>3, <3>2
    <3> QED
      BY <1>3, <3>1, <3>3 DEF Queued
  <2> QED
    BY <2>1, <2>2
<1>8. \A t \in Seqs : Held(t)' <=> Held(t) \/ t = r.seq
  BY <1>2 DEF Held
<1>9. ASSUME NEW i \in 1 .. n - 1, NEW j \in 1 .. n - 1,
             resultCh'[i].seq = resultCh'[j].seq
      PROVE  i = j
  <2>1. i + 1 \in 1 .. n /\ j + 1 \in 1 .. n
    BY <1>3
  <2>2. i + 1 = j + 1
    BY <1>3, <1>6, <1>9, <2>1
  <2> QED
    BY <2>2
<1>10. \A q, u \in pending' : q.seq = u.seq => q = u
  <2>1. \A q, u \in pending : q.seq = u.seq => q = u
    BY DEF IInv, OnePlace
  <2>2. \A q \in pending : q.seq # r.seq
    BY <1>5 DEF Held
  <2> QED
    BY <1>2, <2>1, <2>2
<1>11. /\ \A s \in Seqs :
            /\ job[s] # "none" <=> s < Len(accepted)
            /\ job[s] = "sent" <=> Queued(s)' \/ Held(s)' \/ s < nextExpected
            /\ ~(Queued(s)' /\ Held(s)')
            /\ s < nextExpected => ~Queued(s)' /\ ~Held(s)'
  BY <1>4, <1>5, <1>7, <1>8 DEF IInv, OnePlace
<1> QED
  BY <1>1, <1>3, <1>9, <1>10, <1>11 DEF OnePlace

LEMMA TurnOnePlace ==
  ASSUME IInv, TakeTurn
  PROVE  OnePlace'
<1>1. PICK r \in pending : r.seq = nextExpected /\ pending' = pending \ {r}
  BY DEF TakeTurn
<1>2. /\ UNCHANGED <<accepted, job, resultCh>>
      /\ nextExpected' = nextExpected + 1
  BY DEF TakeTurn, inputVars
<1>3. \A q, u \in pending : q.seq = u.seq => q = u
  BY DEF IInv, OnePlace
<1>4. nextExpected \in Nat /\ nextExpected \in Seqs
  BY <1>1, TurnIsAccepted DEF Seqs
<1>5. ~Queued(nextExpected) /\ Held(nextExpected)
  BY <1>1, <1>4 DEF IInv, OnePlace, Held
<1>6. \A t \in Seqs : Queued(t)' <=> Queued(t)
  BY <1>2 DEF Queued
<1>7. \A t \in Seqs : Held(t)' <=> Held(t) /\ t # nextExpected
  BY <1>1, <1>3 DEF Held
<1>8. \A t \in Seqs : t < nextExpected' <=> t < nextExpected \/ t = nextExpected
  BY <1>2, <1>4 DEF Seqs
<1>9. \A s \in Seqs :
        /\ job[s] # "none" <=> s < Len(accepted)
        /\ job[s] = "sent" <=> Queued(s)' \/ Held(s)' \/ s < nextExpected'
        /\ ~(Queued(s)' /\ Held(s)')
        /\ s < nextExpected' => ~Queued(s)' /\ ~Held(s)'
  BY <1>5, <1>6, <1>7, <1>8 DEF IInv, OnePlace
<1>10. /\ \A i, j \in 1 .. Len(resultCh') :
            resultCh'[i].seq = resultCh'[j].seq => i = j
       /\ \A q, u \in pending' : q.seq = u.seq => q = u
  BY <1>1, <1>2, <1>3 DEF IInv, OnePlace
<1> QED
  BY <1>2, <1>9, <1>10 DEF OnePlace

-----------------------------------------------------------------------------
(* The rest of the invariant, and the theorems.                            *)

\* An action that is none of the drainer's, and keeps its conditions.
LEMMA KeepsRest ==
  ASSUME IInv,
         UNCHANGED <<drainer, pending, nextExpected>>,
         cancelled => cancelled',
         fanOut = "closed" =>
           /\ UNCHANGED <<fanOut, accepted, resultCh>>
           /\ \A s \in Seqs : job'[s] \notin Running,
         fanOut' = "closed" => fanOut = "closed"
  PROVE  NoSendOnClosed' /\ TurnKept' /\ ExitKept'
<1>1. NoSendOnClosed'
  BY DEF NoSendOnClosed
<1>2. TurnKept'
  BY DEF IInv, TurnKept
<1>3. ExitKept'
  BY DEF IInv, ExitKept, TypeOK
<1> QED
  BY <1>1, <1>2, <1>3

\* When nothing runs and nothing is queued, and the next result is not held,
\* every phrase had its turn.
LEMMA AllHadTurns ==
  ASSUME IInv, fanOut = "closed", resultCh = <<>>, drainer = "receive"
  PROVE  nextExpected = Len(accepted) /\ pending = {}
<1>1. \A s \in Seqs : ~Queued(s)
  BY LenProperties DEF Queued
<1>2. \A s \in Seqs : job[s] \in {"none", "sent"}
  BY DEF IInv, NoSendOnClosed, TypeOK
<1>3. nextExpected \in Nat /\ nextExpected <= Len(accepted)
  /\ Len(accepted) \in Nat /\ Len(accepted) <= MaxPhrases
  BY LenProperties, BoundsAreNat DEF IInv, TypeOK
<1>4. nextExpected = Len(accepted)
  <2> SUFFICES ASSUME nextExpected < Len(accepted) PROVE FALSE
    BY <1>3
  <2>1. nextExpected \in Seqs
    BY <1>3, BoundsAreNat DEF Seqs
  <2>2. job[nextExpected] = "sent"
    BY <2>1, <1>2 DEF IInv, OnePlace
  <2>3. Held(nextExpected)
    BY <2>1, <2>2, <1>1, <1>3 DEF IInv, OnePlace
  <2> QED
    BY <2>3 DEF Held, IInv, TurnKept
<1>5. ASSUME NEW r \in pending PROVE FALSE
  <2>1. r.seq \in Seqs /\ Held(r.seq)
    BY DEF IInv, TypeOK, Results, Held
  <2>2. job[r.seq] = "sent" /\ ~(r.seq < nextExpected)
    BY <2>1 DEF IInv, OnePlace
  <2>3. r.seq < Len(accepted)
    BY <2>1, <2>2 DEF IInv, OnePlace
  <2> QED
    BY <1>4, <2>2, <2>3
<1> QED
  BY <1>4, <1>5

LEMMA DrainRest ==
  ASSUME IInv, Drain
  PROVE  NoSendOnClosed' /\ TurnKept' /\ ExitKept'
<1>1. UNCHANGED <<fanOut, job, cancelled, accepted>>
  BY DEF Drain, DrainResult, DrainEnd, AwaitTurn, TakeTurn, Synthesize,
         NextChunk, EndOfSpeech, SendChunk, GiveUp, inputVars
<1>2. NoSendOnClosed'
  BY <1>1 DEF IInv, NoSendOnClosed
<1>3. TurnKept'
  <2>1. CASE TakeTurn
    <3>1. nextExpected' > 0 /\ drainer' # "receive"
      BY <2>1, LenProperties DEF TakeTurn, IInv, TypeOK
    <3> QED
      BY <3>1 DEF TurnKept
  <2>2. CASE DrainResult \/ DrainEnd \/ AwaitTurn \/ Synthesize \/ NextChunk
             \/ EndOfSpeech \/ SendChunk \/ GiveUp
    BY <2>2 DEF IInv, TurnKept, DrainResult, DrainEnd, AwaitTurn, Synthesize,
                NextChunk, EndOfSpeech, SendChunk, GiveUp
  <2> QED
    BY <2>1, <2>2 DEF Drain
<1>4. ExitKept'
  <2>1. CASE DrainEnd
    BY <2>1, AllHadTurns DEF DrainEnd, ExitKept, inputVars
  <2>2. CASE GiveUp
    BY <2>2, <1>1 DEF GiveUp, ExitKept
  <2>3. CASE DrainResult \/ AwaitTurn \/ TakeTurn \/ Synthesize \/ NextChunk
             \/ EndOfSpeech \/ SendChunk
    BY <2>3 DEF ExitKept, DrainResult, AwaitTurn, TakeTurn, Synthesize,
                NextChunk, EndOfSpeech, SendChunk
  <2> QED
    BY <2>1, <2>2, <2>3 DEF Drain
<1> QED
  BY <1>2, <1>3, <1>4

LEMMA NextIInv ==
  ASSUME IInv, [Next]_vars
  PROVE  IInv'
<1>1. CASE Cancel \/ SttCloses \/ ShowTranscript \/ PlayChunk \/ SinkFails
  <2>1. UNCHANGED <<resultVars, fanOut, drainer>> /\ (cancelled => cancelled')
    BY <1>1 DEF Cancel, SttCloses, ShowTranscript, PlayChunk, SinkFails,
                resultVars, inputVars, drainVars
  <2>2. OnePlace'
    BY <2>1, OnePlaceFrame DEF IInv
  <2>3. NoSendOnClosed' /\ TurnKept' /\ ExitKept'
    BY <2>1, KeepsRest DEF resultVars, IInv, NoSendOnClosed
  <2> QED
    BY <1>1, <2>2, <2>3, SurroundingsType DEF IInv
<1>2. CASE FanOut
  <2>1. UNCHANGED <<drainer, pending, nextExpected, cancelled>>
    BY <1>2 DEF FanOut, DropPhrase, AcceptPhrase, FanOutStops, FanOutCloses,
                drainVars, inputVars
  <2>2. OnePlace'
    <3>1. CASE AcceptPhrase
      BY <3>1, AcceptOnePlace
    <3>2. CASE DropPhrase \/ FanOutStops \/ FanOutCloses
      <4>1. UNCHANGED resultVars
        BY <3>2 DEF DropPhrase, FanOutStops, FanOutCloses, resultVars,
                    drainVars, inputVars
      <4> QED
        BY <4>1, OnePlaceFrame DEF IInv
    <3> QED
      BY <1>2, <3>1, <3>2 DEF FanOut
  <2>3. NoSendOnClosed' /\ TurnKept' /\ ExitKept'
    <3>1. CASE FanOutCloses
      <4>1. fanOut = "wait" /\ UNCHANGED job
            /\ \A s \in Seqs : job[s] \notin Running
        BY <3>1 DEF FanOutCloses
      <4>2. NoSendOnClosed'
        BY <4>1 DEF NoSendOnClosed
      <4>3. TurnKept'
        BY <2>1 DEF IInv, TurnKept
      <4>4. ExitKept'
        BY <2>1, <4>1 DEF IInv, ExitKept
      <4> QED
        BY <4>2, <4>3, <4>4
    <3>2. CASE DropPhrase \/ AcceptPhrase \/ FanOutStops
      <4>1. fanOut # "closed" /\ fanOut' # "closed"
        BY <3>2 DEF DropPhrase, AcceptPhrase, FanOutStops
      <4> QED
        BY <2>1, <4>1, KeepsRest
    <3> QED
      BY <1>2, <3>1, <3>2 DEF FanOut
  <2> QED
    BY <1>2, <2>2, <2>3, FanOutType DEF IInv
<1>3. ASSUME NEW s \in Seqs, Translate(s) \/ SendResult(s) PROVE IInv'
  <2>1. OnePlace'
    BY <1>3, TranslateOnePlace, SendOnePlace
  <2>2. UNCHANGED <<drainer, pending, nextExpected, cancelled, fanOut>>
    BY <1>3 DEF Translate, SendResult, drainVars, inputVars
  <2>3. fanOut # "closed"
    BY <1>3 DEF IInv, NoSendOnClosed, Running, Translate, SendResult
  <2>4. NoSendOnClosed' /\ TurnKept' /\ ExitKept'
    BY <2>2, <2>3, KeepsRest
  <2> QED
    BY <1>3, <2>1, <2>4, WorkerType DEF IInv
<1>4. CASE Drain
  <2>1. OnePlace'
    <3>1. CASE DrainResult
      BY <3>1, DrainOnePlace
    <3>2. CASE TakeTurn
      BY <3>2, TurnOnePlace
    <3>3. CASE DrainEnd \/ AwaitTurn \/ Synthesize \/ NextChunk \/ EndOfSpeech
               \/ SendChunk \/ GiveUp
      <4>1. UNCHANGED resultVars
        BY <3>3 DEF DrainEnd, AwaitTurn, Synthesize, NextChunk, EndOfSpeech,
                    SendChunk, GiveUp, resultVars, inputVars
      <4> QED
        BY <4>1, OnePlaceFrame DEF IInv
    <3> QED
      BY <1>4, <3>1, <3>2, <3>3 DEF Drain
  <2> QED
    BY <1>4, <2>1, DrainType, DrainRest DEF IInv
<1>5. CASE UNCHANGED vars
  BY <1>5 DEF vars, inputVars, outputVars, drainVars, IInv, TypeOK, OnePlace,
              NoSendOnClosed, TurnKept, ExitKept, Queued, Held
<1> QED
  BY <1>1, <1>2, <1>3, <1>4, <1>5 DEF Next

LEMMA Inductive == Spec => []IInv
<1>1. Init => IInv
  BY InitIInv
<1>2. IInv /\ [Next]_vars => IInv'
  BY NextIInv
<1> QED
  BY <1>1, <1>2, PTL DEF Spec

\* The types, the capacities of the channels and the numbering of phrases.
THEOREM TypeCorrect == Spec => []TypeOK
<1>1. IInv => TypeOK
  BY DEF IInv
<1> QED
  BY <1>1, Inductive, PTL

\* No result of a translation is lost or comes twice (lines 105-139).
THEOREM ResultsInOnePlace == Spec => []OnePlace
<1>1. IInv => OnePlace
  BY DEF IInv
<1> QED
  BY <1>1, Inductive, PTL

\* A drainer that was not cancelled has given every phrase its turn, and leaves
\* no goroutine behind that has still to send.
THEOREM NoneLeftBehind == Spec => []NothingLeftBehind
<1>1. IInv => NothingLeftBehind
  BY DEF IInv, ExitKept, NoSendOnClosed, NothingLeftBehind
<1> QED
  BY <1>1, Inductive, PTL

\* No goroutine sends on the closed resultCh (lines 86, 91, 113, 117).
THEOREM NoLateSend == Spec => []NoSendOnClosed
<1>1. IInv => NoSendOnClosed
  BY DEF IInv
<1> QED
  BY <1>1, Inductive, PTL

-----------------------------------------------------------------------------
(* Refinement.                                                             *)

\* Taking the first element of a channel leaves what came through it and
\* what is in it, one after the other, as they are.
LEMMA MoveHead ==
  ASSUME NEW S, NEW s \in Seq(S), NEW t \in Seq(S), t # <<>>
  PROVE  Append(s, Head(t)) \o Tail(t) = s \o t
<1> DEFINE u == Append(s, Head(t))
<1>1. /\ Head(t) \in S /\ Tail(t) \in Seq(S)
      /\ Len(Tail(t)) = Len(t) - 1
      /\ \A i \in 1 .. Len(Tail(t)) : Tail(t)[i] = t[i + 1]
      /\ Head(t) = t[1]
      /\ Len(t) \in Nat \ {0}
      /\ Len(s) \in Nat
  BY HeadTailProperties, LenProperties, EmptySeq
<1>2. /\ u \in Seq(S)
      /\ Len(u) = Len(s) + 1
      /\ \A i \in 1 .. Len(s) : u[i] = s[i]
      /\ u[Len(s) + 1] = t[1]
  BY <1>1, AppendProperties
<1> HIDE DEF u
<1>3. /\ u \o Tail(t) \in Seq(S)
      /\ Len(u \o Tail(t)) = Len(u) + Len(Tail(t))
      /\ \A i \in 1 .. Len(u) + Len(Tail(t)) :
           (u \o Tail(t))[i] = IF i <= Len(u) THEN u[i] ELSE Tail(t)[i - Len(u)]
  BY <1>1, <1>2, ConcatProperties
<1>4. /\ s \o t \in Seq(S)
      /\ Len(s \o t) = Len(s) + Len(t)
      /\ \A i \in 1 .. Len(s) + Len(t) :
           (s \o t)[i] = IF i <= Len(s) THEN s[i] ELSE t[i - Len(s)]
  BY ConcatProperties
<1>5. Len(u \o Tail(t)) = Len(s \o t)
  BY <1>1, <1>2, <1>3, <1>4
<1>6. ASSUME NEW i \in 1 .. Len(u \o Tail(t))
      PROVE  (u \o Tail(t))[i] = (s \o t)[i]
  <2>1. CASE i <= Len(s)
    BY <1>1, <1>2, <1>3, <1>4, <2>1
  <2>2. CASE i = Len(s) + 1
    BY <1>1, <1>2, <1>3, <1>4, <2>2
  <2>3. CASE i > Len(s) + 1
    <3>1. i - Len(u) \in 1 .. Len(Tail(t))
      BY <1>1, <1>2, <1>3, <2>3
    <3>2. Tail(t)[i - Len(u)] = t[i - Len(s)]
      BY <1>1, <1>2, <3>1
    <3> QED
      BY <1>1, <1>2, <1>3, <1>4, <2>3, <3>2
  <2> QED
    BY <1>1, <1>2, <1>3, <2>1, <2>2, <2>3
<1>7. u \o Tail(t) = s \o t
  BY <1>3, <1>4, <1>5, <1>6, SeqEqual
<1> QED
  BY <1>7 DEF u

\* Putting an element into a channel.
LEMMA ConcatAppend ==
  ASSUME NEW S, NEW s \in Seq(S), NEW t \in Seq(S), NEW e \in S
  PROVE  s \o Append(t, e) = Append(s \o t, e)
<1>1. Append(t, e) = t \o <<e>> /\ <<e>> \in Seq(S)
  BY AppendIsConcat
<1>2. Append(s \o t, e) = (s \o t) \o <<e>>
  BY ConcatProperties, AppendIsConcat
<1> QED
  BY <1>1, <1>2, ConcatAssociative

LEMMA SurroundingsRefine ==
  ASSUME IInv, Cancel \/ SttCloses \/ ShowTranscript \/ PlayChunk \/ SinkFails
  PROVE  [Ordered!Next]_Ordered!ovars
<1>1. CASE Cancel
  BY <1>1 DEF Cancel, Ordered!Next, Ordered!Cancel, drainVars, outputVars
<1>2. CASE SttCloses
  BY <1>2 DEF SttCloses, Ordered!ovars, drainVars, outputVars
<1>3. CASE ShowTranscript
  <2>1. shown' \o transcriptCh' = shown \o transcriptCh
    BY <1>3, MoveHead DEF ShowTranscript, IInv, TypeOK
  <2> QED
    BY <1>3, <2>1 DEF ShowTranscript, Ordered!ovars, drainVars, inputVars
<1>4. CASE PlayChunk
  <2>1. played' \o audioCh' = played \o audioCh
    BY <1>4, MoveHead DEF PlayChunk, IInv, TypeOK
  <2> QED
    BY <1>4, <2>1 DEF PlayChunk, Ordered!ovars, drainVars, inputVars
<1>5. CASE SinkFails
  BY <1>5 DEF SinkFails, Ordered!ovars, drainVars, outputVars
<1> QED
  BY <1>1, <1>2, <1>3, <1>4, <1>5

LEMMA FanOutRefines ==
  ASSUME IInv, FanOut
  PROVE  [Ordered!Next]_Ordered!ovars
<1>1. CASE AcceptPhrase
  <2>1. heard' \in 1 .. MaxPhrases
    BY <1>1, BoundsAreNat DEF IInv, TypeOK, AcceptPhrase
  <2>2. drainer = "exit" => cancelled
    BY <1>1 DEF AcceptPhrase, IInv, ExitKept, TypeOK
  <2>3. Ordered!Accept
    BY <1>1, <2>1, <2>2 DEF AcceptPhrase, Ordered!Accept, drainVars, outputVars
  <2> QED
    BY <2>3 DEF Ordered!Next
<1>2. CASE DropPhrase \/ FanOutStops \/ FanOutCloses
  BY <1>2 DEF DropPhrase, FanOutStops, FanOutCloses, Ordered!ovars, inputVars,
              drainVars, outputVars
<1> QED
  BY <1>1, <1>2 DEF FanOut

LEMMA DrainRefines ==
  ASSUME IInv, Drain
  PROVE  [Ordered!Next]_Ordered!ovars
<1>1. CASE DrainResult \/ AwaitTurn \/ Synthesize \/ NextChunk \/ EndOfSpeech
  <2>1. (drainer = "exit") = FALSE /\ (drainer' = "exit") = FALSE
    BY <1>1 DEF DrainResult, AwaitTurn, Synthesize, NextChunk, EndOfSpeech
  <2> QED
    BY <1>1, <2>1 DEF DrainResult, AwaitTurn, Synthesize, NextChunk,
                      EndOfSpeech, Ordered!ovars, inputVars, outputVars
<1>2. CASE DrainEnd
  <2>1. nextExpected = Len(accepted)
    BY <1>2, AllHadTurns DEF DrainEnd
  <2> QED
    BY <1>2, <2>1 DEF DrainEnd, Ordered!Next, Ordered!End, inputVars, outputVars
<1>3. CASE GiveUp
  BY <1>3 DEF GiveUp, Ordered!Next, Ordered!End, inputVars, outputVars
<1>4. CASE TakeTurn
  <2>1. PICK r \in pending : r.seq = nextExpected
    BY <1>4 DEF TakeTurn
  <2>2. /\ nextExpected < Len(accepted)
        /\ nextExpected + 1 \in 1 .. MaxPhrases
    BY <2>1, TurnIsAccepted
  <2>3. /\ (drainer = "exit") = FALSE /\ (drainer' = "exit") = FALSE
        /\ nextExpected' = nextExpected + 1
        /\ UNCHANGED <<accepted, cancelled, audioCh, shown, played>>
    BY <1>4 DEF TakeTurn, inputVars
  <2>4. \/ transcriptCh' = transcriptCh
        \/ transcriptCh' = Append(transcriptCh, nextExpected + 1)
    BY <1>4 DEF TakeTurn, OfferTranscript
  <2>5. shown \o Append(transcriptCh, nextExpected + 1)
          = Append(shown \o transcriptCh, nextExpected + 1)
    BY <2>2, ConcatAppend DEF IInv, TypeOK
  <2>6. Ordered!TakeTurn
    BY <2>2, <2>3, <2>4, <2>5 DEF Ordered!TakeTurn
  <2> QED
    BY <2>6 DEF Ordered!Next
<1>5. CASE SendChunk
  <2>1. nextExpected > 0 /\ nextExpected \in 1 .. MaxPhrases
    BY <1>5, LenProperties, BoundsAreNat DEF IInv, TypeOK, TurnKept, SendChunk
  <2>2. played \o Append(audioCh, nextExpected)
          = Append(played \o audioCh, nextExpected)
    BY <2>1, ConcatAppend DEF IInv, TypeOK
  <2>3. (drainer = "exit") = FALSE /\ (drainer' = "exit") = FALSE
    BY <1>5 DEF SendChunk
  <2>4. Ordered!Speak
    BY <1>5, <2>1, <2>2, <2>3 DEF SendChunk, Ordered!Speak, inputVars
  <2> QED
    BY <2>4 DEF Ordered!Next
<1> QED
  BY <1>1, <1>2, <1>3, <1>4, <1>5 DEF Drain

LEMMA StepRefines ==
  ASSUME IInv, [Next]_vars
  PROVE  [Ordered!Next]_Ordered!ovars
<1>1. ASSUME NEW s \in Seqs, Translate(s) \/ SendResult(s)
      PROVE  UNCHANGED Ordered!ovars
  BY <1>1 DEF Translate, SendResult, Ordered!ovars, inputVars, drainVars,
              outputVars
<1>2. CASE UNCHANGED vars
  BY <1>2 DEF vars, Ordered!ovars, inputVars, drainVars, outputVars
<1> QED
  BY <1>1, <1>2, SurroundingsRefine, FanOutRefines, DrainRefines DEF Next

LEMMA InitRefines ==
  ASSUME Init
  PROVE  Ordered!Init
<1>1. <<>> \o <<>> = <<>>
  OBVIOUS
<1> QED
  BY <1>1 DEF Init, Ordered!Init

\* TranslateStream implements OrderedPhrases: whatever is translated first,
\* the listener reads and hears the phrases in the order they were spoken.
THEOREM Implements == Spec => Refinement
<1>1. Init => Ordered!Init
  BY InitRefines
<1>2. IInv /\ [Next]_vars => [Ordered!Next]_Ordered!ovars
  BY StepRefines
<1> QED
  BY <1>1, <1>2, Inductive, PTL DEF Spec, Refinement, Ordered!Spec
=============================================================================
