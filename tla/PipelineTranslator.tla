------------------------- MODULE PipelineTranslator -------------------------
(***************************************************************************)
(* internal/adapters/translator/pipeline_translator.go: TranslateStream.   *)
(* The fan-out goroutine numbers the phrases that Whisper hears and starts *)
(* a goroutine for each, which asks for a translation and puts the answer  *)
(* into resultCh; the ordered drainer puts the answers back in order and   *)
(* has them synthesised one after another.                                 *)
(*                                                                         *)
(* Texts and PCM data are abstracted to the index of their phrase.  The    *)
(* consumers are those of runHalf: the transcript forwarder, and the       *)
(* encoder that feeds SendAudio.                                           *)
(***************************************************************************)
EXTENDS Naturals, Sequences

CONSTANTS
  MaxPhrases,    \* bound: phrases that Whisper hears
  MaxChunks,     \* bound: chunks of speech in a synthesised phrase
  ResultCap,     \* capacity of resultCh (16 in the code)
  TranscriptCap, \* capacity of transcriptCh (4)
  AudioCap       \* capacity of audioCh (8)

ASSUME BoundsAreNat == MaxPhrases \in Nat /\ MaxChunks \in Nat

ASSUME CapsArePositive ==
  /\ ResultCap \in Nat \ {0}
  /\ TranscriptCap \in Nat \ {0}
  /\ AudioCap \in Nat \ {0}

VARIABLES
  cancelled,    \* ctx is done
  sttOpen,      \* sttCh is open
  heard,        \* how many phrases were taken from sttCh
  accepted,     \* the ones that passed the filters: that of seq s is at s + 1
  fanOut,       \* where the fan-out goroutine is
  job,          \* where the translating goroutine of each seq is
  resultCh,     \* results on their way to the drainer
  drainer,      \* where the ordered drainer is
  pending,      \* its results that came too early
  nextExpected, \* the seq it waits for
  chunks,       \* the chunks of speech taken from the synthesiser
  transcriptCh, \* translations on their way to the forwarder
  audioCh,      \* speech on its way to the encoder
  shown,        \* what the forwarder has taken
  played,       \* what the encoder has taken
  sinkFails     \* SendAudio has returned an error: runHalf has ended

inputVars == <<cancelled, sttOpen, heard, accepted, sinkFails>>
outputVars == <<transcriptCh, audioCh, shown, played>>
drainVars == <<drainer, pending, nextExpected, chunks>>
vars == <<inputVars, fanOut, job, resultCh, drainVars, outputVars>>

\* Sequence numbers, and results of a translation.
Seqs == 0 .. MaxPhrases - 1
Results == [seq : Seqs, skipped : BOOLEAN]

\* fanOut = "closed": close(resultCh) was called.
Running == {"calling", "translated", "failed"}

Init ==
  /\ cancelled = FALSE
  /\ sttOpen = TRUE
  /\ heard = 0
  /\ accepted = <<>>
  /\ fanOut = "select"
  /\ job = [s \in Seqs |-> "none"]
  /\ resultCh = <<>>
  /\ drainer = "receive"
  /\ pending = {}
  /\ nextExpected = 0
  /\ chunks = 0
  /\ transcriptCh = <<>>
  /\ audioCh = <<>>
  /\ shown = <<>>
  /\ played = <<>>
  /\ sinkFails = FALSE

-----------------------------------------------------------------------------
(* The surroundings.                                                       *)

\* The pipeline is cancelled: a participant left, or the room was deleted.
Cancel ==
  /\ ~cancelled
  /\ cancelled' = TRUE
  /\ UNCHANGED <<sttOpen, heard, accepted, sinkFails, fanOut, job, resultCh,
                 drainVars, outputVars>>

\* The receiver of Transcribe ends and closes sttCh.
SttCloses ==
  /\ sttOpen
  /\ sttOpen' = FALSE
  /\ UNCHANGED <<cancelled, heard, accepted, sinkFails, fanOut, job, resultCh,
                 drainVars, outputVars>>

\* The forwarder of runHalf takes a translation.
ShowTranscript ==
  /\ transcriptCh # <<>>
  /\ shown' = Append(shown, Head(transcriptCh))
  /\ transcriptCh' = Tail(transcriptCh)
  /\ UNCHANGED <<inputVars, fanOut, job, resultCh, drainVars, audioCh, played>>

\* The encoder takes a chunk of speech.
PlayChunk ==
  /\ audioCh # <<>>
  /\ played' = Append(played, Head(audioCh))
  /\ audioCh' = Tail(audioCh)
  /\ UNCHANGED <<inputVars, fanOut, job, resultCh, drainVars, transcriptCh,
                 shown>>

\* SendAudio fails.  Nobody takes from the encoder any more; it takes from
\* audioCh until its own channel is full, so PlayChunk is only not forced.
SinkFails ==
  /\ ~sinkFails
  /\ sinkFails' = TRUE
  /\ UNCHANGED <<cancelled, sttOpen, heard, accepted, fanOut, job, resultCh,
                 drainVars, outputVars>>

-----------------------------------------------------------------------------
(* The fan-out goroutine.                                                  *)

\* A phrase is empty, an echo of the prompt, or in another language.
DropPhrase ==
  /\ fanOut = "select"
  /\ sttOpen
  /\ heard < MaxPhrases
  /\ heard' = heard + 1
  /\ UNCHANGED <<cancelled, sttOpen, accepted, sinkFails, fanOut, job,
                 resultCh, drainVars, outputVars>>

\* MUTANT of AcceptPhrase: the sequence number counts the phrases heard, so
\* that a dropped phrase leaves a gap.
NumberHeardPhrases ==
  /\ fanOut = "select"
  /\ sttOpen
  /\ heard < MaxPhrases
  /\ heard' = heard + 1
  /\ accepted' = Append(accepted, heard')
  /\ job' = [job EXCEPT ![heard] = "calling"]
  /\ UNCHANGED <<cancelled, sttOpen, sinkFails, fanOut, resultCh, drainVars,
                 outputVars>>

\* A phrase gets a sequence number and a goroutine.
AcceptPhrase ==
  /\ fanOut = "select"
  /\ sttOpen
  /\ heard < MaxPhrases
  /\ heard' = heard + 1
  /\ accepted' = Append(accepted, heard')
  /\ job' = [job EXCEPT ![Len(accepted)] = "calling"]
  /\ UNCHANGED <<cancelled, sttOpen, sinkFails, fanOut, resultCh, drainVars,
                 outputVars>>

\* No more phrases: on to translateWG.Wait.
FanOutStops ==
  /\ fanOut = "select"
  /\ cancelled \/ ~sttOpen
  /\ fanOut' = "wait"
  /\ UNCHANGED <<inputVars, job, resultCh, drainVars, outputVars>>

FanOutCloses ==
  /\ fanOut = "wait"
  /\ \A s \in Seqs : job[s] \notin Running
  /\ fanOut' = "closed"
  /\ UNCHANGED <<inputVars, job, resultCh, drainVars, outputVars>>

-----------------------------------------------------------------------------
(* The goroutine that translates phrase s.                                 *)

\* Translate returns, with a text or with an error.
Translate(s) ==
  /\ job[s] = "calling"
  /\ \E answer \in {"translated", "failed"} :
       job' = [job EXCEPT ![s] = answer]
  /\ UNCHANGED <<inputVars, fanOut, resultCh, drainVars, outputVars>>

\* MUTANT of SendResult: a failed translation sends nothing.
SendOnlyTranslations(s) ==
  /\ job[s] \in {"translated", "failed"}
  /\ IF job[s] = "failed"
       THEN UNCHANGED resultCh
       ELSE /\ Len(resultCh) < ResultCap
            /\ resultCh' = Append(resultCh, [seq |-> s, skipped |-> FALSE])
  /\ job' = [job EXCEPT ![s] = "sent"]
  /\ UNCHANGED <<inputVars, fanOut, drainVars, outputVars>>

\* It sends the result, waiting for room, and is done.
SendResult(s) ==
  /\ job[s] \in {"translated", "failed"}
  /\ Len(resultCh) < ResultCap
  /\ resultCh' = Append(resultCh,
                        [seq |-> s, skipped |-> job[s] = "failed"])
  /\ job' = [job EXCEPT ![s] = "sent"]
  /\ UNCHANGED <<inputVars, fanOut, drainVars, outputVars>>

-----------------------------------------------------------------------------
(* The ordered drainer.                                                    *)

DrainResult ==
  /\ drainer = "receive"
  /\ resultCh # <<>>
  /\ pending' = pending \cup {Head(resultCh)}
  /\ resultCh' = Tail(resultCh)
  /\ drainer' = "look"
  /\ UNCHANGED <<inputVars, fanOut, job, nextExpected, chunks, outputVars>>

\* resultCh is closed and empty.
DrainEnd ==
  /\ drainer = "receive"
  /\ resultCh = <<>>
  /\ fanOut = "closed"
  /\ drainer' = "exit"
  /\ UNCHANGED <<inputVars, fanOut, job, resultCh, pending, nextExpected,
                 chunks, outputVars>>

\* The expected result is not there yet.
AwaitTurn ==
  /\ drainer = "look"
  /\ \A r \in pending : r.seq # nextExpected
  /\ drainer' = "receive"
  /\ UNCHANGED <<inputVars, fanOut, job, resultCh, pending, nextExpected,
                 chunks, outputVars>>

\* "select { case transcriptCh <- text: default: }"
OfferTranscript(text) ==
  transcriptCh' = IF Len(transcriptCh) < TranscriptCap
                    THEN Append(transcriptCh, text)
                    ELSE transcriptCh

\* MUTANT of TakeTurn: results go out in the order in which they come.
TakeAnyTurn ==
  /\ drainer = "look"
  /\ \E r \in pending :
       /\ pending' = pending \ {r}
       /\ \/ /\ r.skipped
             /\ UNCHANGED <<drainer, transcriptCh, chunks>>
          \/ /\ ~r.skipped
             /\ OfferTranscript(r.seq + 1)
             /\ drainer' = "synthesize"
             /\ chunks' = 0
  /\ nextExpected' = nextExpected + 1
  /\ UNCHANGED <<inputVars, fanOut, job, resultCh, audioCh, shown, played>>

\* The expected result is there: it is skipped, or goes out as text and then
\* to the synthesiser.
TakeTurn ==
  /\ drainer = "look"
  /\ \E r \in pending :
       /\ r.seq = nextExpected
       /\ pending' = pending \ {r}
       /\ \/ /\ r.skipped
             /\ UNCHANGED <<drainer, transcriptCh, chunks>>
          \/ /\ ~r.skipped
             /\ OfferTranscript(nextExpected + 1)
             /\ drainer' = "synthesize"
             /\ chunks' = 0
  /\ nextExpected' = nextExpected + 1
  /\ UNCHANGED <<inputVars, fanOut, job, resultCh, audioCh, shown, played>>

\* Synthesize returns an error, or the channel of its speech.
Synthesize ==
  /\ drainer = "synthesize"
  /\ drainer' \in {"look", "listen"}
  /\ UNCHANGED <<inputVars, fanOut, job, resultCh, pending, nextExpected,
                 chunks, outputVars>>

\* A chunk of speech comes from the synthesiser.
NextChunk ==
  /\ drainer = "listen"
  /\ chunks < MaxChunks
  /\ chunks' = chunks + 1
  /\ drainer' = "send"
  /\ UNCHANGED <<inputVars, fanOut, job, resultCh, pending, nextExpected,
                 outputVars>>

\* The synthesiser has closed its channel: at the end, on a read error, or
\* because ctx is done.
EndOfSpeech ==
  /\ drainer = "listen"
  /\ drainer' = "look"
  /\ UNCHANGED <<inputVars, fanOut, job, resultCh, pending, nextExpected,
                 chunks, outputVars>>

\* "select { case audioCh <- pcm: case <-ctx.Done(): return }"
SendChunk ==
  /\ drainer = "send"
  /\ Len(audioCh) < AudioCap
  /\ audioCh' = Append(audioCh, nextExpected)
  /\ drainer' = "listen"
  /\ UNCHANGED <<inputVars, fanOut, job, resultCh, pending, nextExpected,
                 chunks, transcriptCh, shown, played>>

\* MUTANT of GiveUp: the send on audioCh does not look at ctx.
NeverGiveUp ==
  /\ FALSE
  /\ UNCHANGED vars

GiveUp ==
  /\ drainer = "send"
  /\ cancelled
  /\ drainer' = "exit"
  /\ UNCHANGED <<inputVars, fanOut, job, resultCh, pending, nextExpected,
                 chunks, outputVars>>

-----------------------------------------------------------------------------
FanOut == DropPhrase \/ AcceptPhrase \/ FanOutStops \/ FanOutCloses

Drain ==
  \/ DrainResult \/ DrainEnd \/ AwaitTurn \/ TakeTurn
  \/ Synthesize \/ NextChunk \/ EndOfSpeech \/ SendChunk \/ GiveUp

Next ==
  \/ Cancel \/ SttCloses \/ ShowTranscript \/ PlayChunk \/ SinkFails
  \/ FanOut
  \/ \E s \in Seqs : Translate(s) \/ SendResult(s)
  \/ Drain

Spec == Init /\ [][Next]_vars

\* The scheduler runs every goroutine.  The two services answer only when
\* they like: their clients have no timeout, but give up when ctx is done.
\* The encoder takes audio as long as SendAudio takes frames and ctx is not
\* done.
Fairness ==
  /\ WF_vars(FanOutStops \/ FanOutCloses)
  /\ \A s \in Seqs : WF_vars(SendResult(s)) /\ WF_vars(cancelled /\ Translate(s))
  /\ WF_vars(DrainResult \/ DrainEnd \/ AwaitTurn \/ TakeTurn \/ SendChunk
               \/ GiveUp)
  /\ WF_vars(cancelled /\ (Synthesize \/ EndOfSpeech))
  /\ WF_vars(ShowTranscript)
  /\ WF_vars(~sinkFails /\ ~cancelled /\ PlayChunk)

FairSpec == Spec /\ Fairness

-----------------------------------------------------------------------------
(* Properties.                                                             *)

\* Type invariant: what every channel, counter and goroutine may hold, with
\* the capacities of the channels and the numbering of lines 105-106.
TypeOK ==
  /\ cancelled \in BOOLEAN
  /\ sttOpen \in BOOLEAN
  /\ sinkFails \in BOOLEAN
  /\ heard \in 0 .. MaxPhrases
  /\ accepted \in Seq(1 .. MaxPhrases)
  /\ Len(accepted) <= heard
  /\ fanOut \in {"select", "wait", "closed"}
  /\ job \in [Seqs -> Running \cup {"none", "sent"}]
  /\ resultCh \in Seq(Results)
  /\ Len(resultCh) <= ResultCap
  /\ drainer \in {"receive", "look", "synthesize", "listen", "send", "exit"}
  /\ pending \subseteq Results
  /\ nextExpected \in 0 .. Len(accepted)
  /\ chunks \in 0 .. MaxChunks
  /\ transcriptCh \in Seq(1 .. MaxPhrases)
  /\ Len(transcriptCh) <= TranscriptCap
  /\ audioCh \in Seq(1 .. MaxPhrases)
  /\ Len(audioCh) <= AudioCap
  /\ shown \in Seq(1 .. MaxPhrases)
  /\ played \in Seq(1 .. MaxPhrases)

Queued(s) == \E i \in 1 .. Len(resultCh) : resultCh[i].seq = s
Held(s) == \E r \in pending : r.seq = s

\* The result of a phrase is in one place at a time: with its goroutine, in
\* resultCh, in the map of the drainer, or past.  A result that is lost, or
\* comes twice, would stop the drainer for good or repeat a phrase.
OnePlace ==
  /\ \A s \in Seqs :
       /\ job[s] # "none" <=> s < Len(accepted)
       /\ job[s] = "sent" <=> Queued(s) \/ Held(s) \/ s < nextExpected
       /\ ~(Queued(s) /\ Held(s))
       /\ s < nextExpected => ~Queued(s) /\ ~Held(s)
  /\ \A i, j \in 1 .. Len(resultCh) : resultCh[i].seq = resultCh[j].seq => i = j
  /\ \A r, q \in pending : r.seq = q.seq => r = q

\* A drainer that was not cancelled ends only when every accepted phrase had
\* its turn: whatever the order of the answers, whichever translations
\* failed, nothing is left behind in the map or in resultCh, and no
\* goroutine that would wait for the drainer.  Only a cancellation leaves
\* goroutines behind at resultCh (line 160).
NothingLeftBehind ==
  drainer = "exit" /\ ~cancelled =>
    /\ nextExpected = Len(accepted)
    /\ resultCh = <<>>
    /\ pending = {}
    /\ fanOut = "closed"
    /\ \A s \in Seqs : job[s] \notin Running

Ordered == INSTANCE OrderedPhrases WITH
  Phrase <- 1 .. MaxPhrases,
  turn <- nextExpected,
  texts <- shown \o transcriptCh,
  audio <- played \o audioCh,
  ended <- drainer = "exit"

\* TranslateStream implements OrderedPhrases: the listener reads and hears
\* phrases in the order they were spoken.
Refinement == Ordered!Spec

\* Some answer of a service is outstanding.
ServicePending ==
  \/ \E s \in Seqs : job[s] = "calling"
  \/ drainer \in {"synthesize", "listen"}

\* The channels of the result are closed in the end: after a cancellation, even
\* when SendAudio has failed and nobody takes the audio; and after sttCh was
\* closed, if the services answer and SendAudio goes on: no goroutine waits for
\* another.
StreamEnds ==
  <>cancelled \/ <>[](~sttOpen /\ ~sinkFails /\ ~ServicePending)
    => <>(drainer = "exit")

=============================================================================
