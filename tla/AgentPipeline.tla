----------------------------- MODULE AgentPipeline -----------------------------
(***************************************************************************)
(* From a source to the storage engine: the collector thread of            *)
(* src/agent/collector.rs, the unbounded channel, and the thread that owns *)
(* the collector.  That is a loop that goes on until the channel is        *)
(* disconnected, or a caller that stops the collector whenever it likes    *)
(* and then drains the channel, or drops its end.  cmd_agent (src/main.rs) *)
(* is the loop with a file as its source; the other sources are what the   *)
(* callers of the library, such as the tests, start.                       *)
(*                                                                         *)
(* Of the file only the lines matter that are appended once the collector  *)
(* is at its end; its pieces, its rotation and its truncation are          *)
(* TailCollector.  What append does with a line is StorageEngine; an error *)
(* of it is logged and the loop goes on.                                   *)
(***************************************************************************)
EXTENDS LineParser, FiniteSets

CONSTANTS
    Scripts,   \* what standard input or the file may deliver: sequences of raw
               \* lines, Garbled (not UTF-8) and Broken (reading fails for good)
    Garbled, Broken,
    Service,   \* CollectorConfig.service_name
    Rate,      \* mock lines per tick of the clock
    Duration   \* duration_sec of the mock, in ticks

ASSUME PipelineAssumption ==
    /\ {Rate, Duration} \subseteq Nat
    /\ \A s \in Scripts : s \in Seq(ToSet(s))
    /\ \A s \in Scripts : \A line \in ToSet(s) \ {Garbled, Broken} :
           line.kind = "text" => IsText(line)

VARIABLES
    source,     \* "file", "stdin" or "mock"
    owner,      \* "loop" or "caller"
    script,     \* the lines that arrive in this run
    fed,        \* how many of them have arrived
    ended,      \* standard input has been closed
    clock,      \* ticks since collect_mock began, stops at Duration
    pc,         \* the collector: "poll" and "stat" of a file, "read", "round" and "send"
                \* of the mock, "done" when it returned and "dead" when it panicked
    seen,       \* lines that the last stat of the file found
    taken,      \* raw lines it has taken and not thrown away
    goal,       \* expected_total of the running round
    total,      \* total_sent, counted line by line
    stop,       \* the stop flag
    channel, rx,  \* the queue, and whether its receiving end exists
    opc,        \* the owner: "loop", "stop", "drain", "done"
    stored,     \* what was handed to append, in order
    refused     \* history: a line was thrown away because of the flag

input == <<source, owner, script>>
outside == <<fed, ended, clock>>
vars == <<source, owner, script, fed, ended, clock, pc, seen, taken, goal, total, stop,
          channel, rx, opc, stored, refused>>

\* collect_file, collect_stdin and collect_mock begin.
Begin == [file |-> "poll", stdin |-> "read", mock |-> "round"]

\* The channel, the thread and its owner.
Init ==
    /\ source \in DOMAIN Begin /\ owner \in {"loop", "caller"}
    /\ script \in (IF source = "mock" THEN {<<>>} ELSE Scripts)
    /\ fed = 0 /\ ended = FALSE /\ clock = 0
    /\ pc = Begin[source] /\ seen = 0
    /\ taken = 0 /\ goal = 0 /\ total = 0 /\ stop = FALSE
    /\ channel = <<>> /\ rx = TRUE
    /\ opc = "loop" /\ stored = <<>> /\ refused = FALSE

-----------------------------------------------------------------------------
(* The world outside.                                                      *)

Feed ==
    /\ fed < Len(script) /\ ~ended
    /\ fed' = fed + 1
    /\ UNCHANGED <<input, ended, clock, pc, seen, taken, goal, total, stop, channel, rx,
                   opc, stored, refused>>

\* A file is never closed.
CloseInput ==
    /\ source = "stdin" /\ ~ended
    /\ ended' = TRUE
    /\ UNCHANGED <<input, fed, clock, pc, seen, taken, goal, total, stop, channel, rx,
                   opc, stored, refused>>

Tick ==
    /\ source = "mock" /\ clock < Duration
    /\ clock' = clock + 1
    /\ UNCHANGED <<input, fed, ended, pc, seen, taken, goal, total, stop, channel, rx,
                   opc, stored, refused>>

-----------------------------------------------------------------------------
(* collect_file: the flag is looked at between two passes only.            *)

LookAtFlag ==
    /\ pc = "poll"
    /\ pc' = IF stop THEN "done" ELSE "stat"
    /\ UNCHANGED <<input, outside, seen, taken, goal, total, stop, channel, rx, opc,
                   stored, refused>>

\* A pass begins when the file has grown since the last stat.
Stat ==
    /\ pc = "stat"
    /\ pc' = IF fed > seen THEN "read" ELSE "poll"
    /\ seen' = fed
    /\ UNCHANGED <<input, outside, taken, goal, total, stop, channel, rx, opc, stored,
                   refused>>

Line == script[taken + 1]

\* A pass ends at the end of the file.
EndPass ==
    /\ source = "file" /\ pc = "read" /\ taken = fed
    /\ pc' = "poll"
    /\ UNCHANGED <<input, outside, seen, taken, goal, total, stop, channel, rx, opc,
                   stored, refused>>

\* Or at an error, behind a line that is not UTF-8.
FailPass ==
    /\ source = "file" /\ pc = "read" /\ taken < fed /\ Line \in {Garbled, Broken}
    /\ taken' = IF Line = Garbled THEN taken + 1 ELSE taken
    /\ pc' = "poll"
    /\ UNCHANGED <<input, outside, seen, goal, total, stop, channel, rx, opc, stored,
                   refused>>

-----------------------------------------------------------------------------
(* collect_stdin: the flag is looked at when a line, or an error, is there. *)

Arrived == pc = "read" /\ taken < fed

\* Faulty variant: the flag is never looked at.
FlagIgnored == FALSE

FlagSeen == source = "stdin" /\ stop

\* The line is in hand already, and is thrown away.
SeeFlag ==
    /\ Arrived /\ FlagSeen
    /\ refused' = (Line \notin {Garbled, Broken})
    /\ pc' = "done"
    /\ UNCHANGED <<input, outside, seen, taken, goal, total, stop, channel, rx, opc,
                   stored>>

\* Bytes that are not UTF-8: the line is logged and gone.  When reading itself
\* fails, the loop tries again at once and nothing changes.
SkipLine ==
    /\ Arrived /\ ~FlagSeen /\ source = "stdin" /\ Line = Garbled
    /\ taken' = taken + 1
    /\ UNCHANGED <<input, outside, pc, seen, goal, total, stop, channel, rx, opc, stored,
                   refused>>

EndOfInput ==
    /\ source = "stdin" /\ pc = "read" /\ taken = fed /\ ended
    /\ pc' = "done"
    /\ UNCHANGED <<input, outside, seen, taken, goal, total, stop, channel, rx, opc,
                   stored, refused>>

-----------------------------------------------------------------------------
(* A line of either.                                                       *)

\* Faulty variant: the first line is still in the buffer.
ParsedFirst == ParseLine(script[1], Service)

\* What is sent for a line: none or one log line.
ParsedLine == ParseLine(Line, Service)

\* A line is parsed and sent; a failed send ends the thread.
TakeLine ==
    /\ Arrived /\ ~FlagSeen /\ Line \notin {Garbled, Broken} /\ ~Panics(Line)
    /\ taken' = taken + 1
    /\ channel' = IF rx THEN channel \o ParsedLine ELSE channel
    /\ pc' = IF rx \/ ParsedLine = <<>> THEN pc ELSE "done"
    /\ UNCHANGED <<input, outside, seen, goal, total, stop, rx, opc, stored, refused>>

\* The parser panics: the thread is gone, and its end of the channel with it.
Die ==
    /\ Arrived /\ ~FlagSeen /\ Line \notin {Garbled, Broken} /\ Panics(Line)
    /\ pc' = "dead"
    /\ UNCHANGED <<input, outside, seen, taken, goal, total, stop, channel, rx, opc,
                   stored, refused>>

-----------------------------------------------------------------------------
(* collect_mock                                                            *)

\* Line n of the mock.
MockLine(n) == [ts |-> Now, service |-> Service,
                level |-> <<"I", "W", "E">>[(n % 3) + 1], message |-> <<n>>]

\* expected_total
Due == clock * Rate

\* Faulty variant: the duration is not looked at.
OnlyStopped == stop

MockOver == stop \/ clock >= Duration

MockEnds ==
    /\ pc = "round" /\ MockOver
    /\ pc' = "done"
    /\ UNCHANGED <<input, outside, seen, taken, goal, total, stop, channel, rx, opc,
                   stored, refused>>

\* How much is due is computed once; a round with nothing to send only sleeps.
MockRound ==
    /\ pc = "round" /\ ~MockOver
    /\ Due > total
    /\ goal' = Due
    /\ pc' = "send"
    /\ UNCHANGED <<input, outside, seen, taken, total, stop, channel, rx, opc, stored,
                   refused>>

\* The flag is not looked at inside a round.
MockSend ==
    /\ pc = "send"
    /\ channel' = IF rx THEN Append(channel, MockLine(total)) ELSE channel
    /\ total' = IF rx THEN total + 1 ELSE total
    /\ pc' = IF ~rx THEN "done" ELSE IF total' = goal THEN "round" ELSE pc
    /\ UNCHANGED <<input, outside, seen, taken, goal, stop, rx, opc, stored, refused>>

-----------------------------------------------------------------------------
(* The owner.                                                              *)

\* recv_timeout returns a line; append may fail, and the line is not retried.
Receive ==
    /\ opc \in {"loop", "drain"} /\ rx /\ channel # <<>>
    /\ stored' = Append(stored, Head(channel))
    /\ channel' = Tail(channel)
    /\ UNCHANGED <<input, outside, pc, seen, taken, goal, total, stop, rx, opc, refused>>

Gone == pc \in {"done", "dead"}

\* Faulty variant: the loop ends when the thread has ended.
ThreadEnded == Gone

\* The sender is gone and the queue is empty.
Disconnected == Gone /\ channel = <<>>

\* The loop ends only then, a caller stops the collector whenever it likes.
CallStop ==
    /\ opc = "loop" /\ (Disconnected \/ owner = "caller")
    /\ stop' = TRUE
    /\ opc' = "stop"
    /\ UNCHANGED <<input, outside, pc, seen, taken, goal, total, channel, rx, stored,
                   refused>>

\* stop joins the thread, and does not mind how it ended.
Joined ==
    /\ opc = "stop" /\ Gone
    /\ opc' = IF owner = "loop" \/ ~rx THEN "done" ELSE "drain"
    /\ UNCHANGED <<input, outside, pc, seen, taken, goal, total, stop, channel, rx,
                   stored, refused>>

\* A caller takes what is left in the channel.
Drained ==
    /\ opc = "drain" /\ Disconnected
    /\ opc' = "done"
    /\ UNCHANGED <<input, outside, pc, seen, taken, goal, total, stop, channel, rx,
                   stored, refused>>

\* A caller that has lost interest.
DropReceiver ==
    /\ owner = "caller" /\ opc = "loop" /\ rx
    /\ rx' = FALSE /\ channel' = <<>>
    /\ UNCHANGED <<input, outside, pc, seen, taken, goal, total, stop, opc, stored,
                   refused>>

-----------------------------------------------------------------------------
CollectFile == LookAtFlag \/ Stat \/ EndPass \/ FailPass
CollectStdin == SeeFlag \/ SkipLine \/ EndOfInput
CollectMock == MockEnds \/ MockRound \/ MockSend

Collect == CollectFile \/ CollectStdin \/ TakeLine \/ Die \/ CollectMock

Own == Receive \/ (Disconnected /\ CallStop) \/ Joined \/ Drained

Next ==
    \/ Feed \/ CloseInput \/ Tick
    \/ Collect
    \/ Receive \/ CallStop \/ Joined \/ Drained \/ DropReceiver

\* Both threads are scheduled, and time passes.
Spec == Init /\ [][Next]_vars /\ WF_vars(Collect) /\ WF_vars(Own) /\ WF_vars(Tick)

-----------------------------------------------------------------------------
(* Properties.                                                             *)

\* What the n-th raw line becomes: none or one log line.
LogOf(n) == IF script[n] \in {Garbled, Broken} THEN <<>> ELSE ParseLine(script[n], Service)

\* Those of the first n raw lines that become a log line.
Logged(n) == {k \in 1..n : LogOf(k) # <<>>}

\* logs is what the collector took from its source, each line once and in order: a raw
\* line's log line is behind those of the raw lines before it.
AllTaken(logs) ==
    IF source = "mock" THEN logs = [k \in 1..total |-> MockLine(k - 1)]
    ELSE /\ Len(logs) = Cardinality(Logged(taken))
         /\ \A k \in Logged(taken) : LogOf(k) = <<logs[Cardinality(Logged(k))]>>

\* Type correctness of the control state, and the mock never ahead of its clock.
TypeOK ==
    /\ source \in {"file", "stdin", "mock"} /\ owner \in {"loop", "caller"}
    /\ script \in Scripts \cup {<<>>} /\ fed \in 0..Len(script)
    /\ taken \in 0..fed /\ seen \in 0..fed /\ ended \in BOOLEAN /\ clock \in 0..Duration
    /\ pc \in {"poll", "stat", "read", "round", "send", "done", "dead"}
    /\ opc \in {"loop", "stop", "drain", "done"}
    /\ goal \in 0..(clock * Rate) /\ total \in 0..goal
    /\ stop \in BOOLEAN /\ rx \in BOOLEAN /\ refused \in BOOLEAN
    /\ \A log \in ToSet(channel) : log.level \in {"D", "I", "W", "E"}

\* As long as somebody receives, what reaches append and what is in the queue is
\* exactly what the collector took from its source, in order: nothing is lost,
\* doubled or overtaken between the threads.
InOrder == rx => AllTaken(stored \o channel)

\* The two threads in every state.
Orderly == TypeOK /\ InOrder

\* The parser panicked at the line in hand.
Killed == /\ pc = "dead" /\ taken < fed
          /\ Line \notin {Garbled, Broken} /\ Panics(Line)

\* Whoever has drained the channel has handed everything that the collector took to
\* append, whatever made the collector end.  The loop, and so cmd_agent, ends by itself
\* only at a line on which the parser panics, after the duration of a mock, or with
\* everything that came on standard input; and only a caller's stop throws a line
\* away, the one of standard input that the thread held when it saw the flag.
EndsDrained ==
    opc = "done" /\ rx =>
        /\ AllTaken(stored)
        /\ owner = "loop" =>
             \/ Killed
             \/ source = "mock" /\ clock = Duration
             \/ source = "stdin" /\ ended /\ taken = fed
        /\ refused => source = "stdin" /\ owner = "caller"

\* The words behind the level word, all of them when there is none.
Behind(words) ==
    IF HasPrefix(words) THEN SubSeq(words, PrefixWord(words) + 1, Len(words)) ELSE words

\* A line of text whose upper case has every word in the same place becomes exactly
\* what is behind the level word; one whose upper case has no word further on loses
\* none of that, and never becomes the empty message, which the storage engine cannot
\* seal.  Both can only happen to a line whose upper case is longer.
TextIsKept ==
    \A k \in 1..fed : script[k] \notin {Garbled, Broken} /\ IsPlain(script[k]) =>
        LET line == script[k]
            rest == Behind(line.words)
        IN  /\ line.up = line.at => ~Panics(line) /\ Stripped(line) = rest
            /\ (\A j \in DOMAIN line.at : line.up[j] <= line.at[j]) /\ ~Panics(line) =>
                 \A log \in ToSet(ParseLine(line, Service)) :
                     ToSet(rest) \subseteq ToSet(log.message) /\ log.message # <<>>

\* The lines of generate come out of the agent as they were meant.
GeneratedArrives ==
    \A k \in 1..taken : \A i \in 0..2 :
        script[k] = Generated(i, Service, Now) =>
            Intended(i, Service, Now) \in ToSet(ParseLine(script[k], Service))

\* The object with its long names replaced by the compact ones.
Compact(fields) ==
    LET long == [t |-> "timestamp", s |-> "service", l |-> "level", m |-> "message"]
    IN  [n \in {c \in DOMAIN long : long[c] \in DOMAIN fields} |-> fields[long[n]]]

\* Both spellings of a JSON line give the same log line.
SpellingsAgree ==
    \A k \in 1..taken :
        script[k] \notin {Garbled, Broken} /\ script[k].kind = "json" =>
            LET f == script[k].fields IN
            DOMAIN f \subseteq {"timestamp", "service", "level", "message"} =>
                ParseJson(Compact(f), Service) = ParseJson(f, Service)

\* The parser's promises: what text becomes, that generate is understood, and that
\* the names of a JSON line do not matter.
ParsedAsMeant == TextIsKept /\ GeneratedArrives /\ SpellingsAgree

\* Reading standard input fails for good from here on.
Stuck == source = "stdin" /\ taken < fed /\ Line = Broken

\* The loop ends when its source does, be it a mock, an input that was closed and can
\* be read, or a thread that panicked, cmd_agent's only end.
AgentFinishes ==
    owner = "loop" /\ (source = "mock" \/ ended \/ pc = "dead") ~> opc = "done" \/ Stuck

\* Collector::stop returns, unless the thread waits for a line of standard input.
\* (The file grows by no more than the script: see StopEnds of TailCollector.)
StopReturns ==
    opc = "stop" ~> opc # "stop" \/ (source = "stdin" /\ pc = "read" /\ taken = fed)
-----------------------------------------------------------------------------
(* The inductive invariant behind Orderly and EndsDrained.                 *)

\* Queue and store are sequences.
QueueInv == channel \in Seq(ToSet(channel)) /\ stored \in Seq(ToSet(stored))

\* Which loop the collector is in, and that a round of the mock is not over yet.
LoopInv ==
    /\ source = "file" => pc \in {"poll", "stat", "read", "done", "dead"}
    /\ source = "stdin" => pc \in {"read", "done", "dead"}
    /\ source = "mock" => pc \in {"round", "send", "done"} /\ script = <<>>
    /\ pc = "send" => total < goal

\* The loop stops a collector only after that has ended by itself, and nobody is
\* done before the queue is empty and the thread gone.
OwnerInv ==
    /\ stop <=> opc # "loop"
    /\ owner = "loop" => rx /\ (stop => Disconnected)
    /\ pc = "dead" => Killed
    /\ owner = "loop" /\ pc = "done" =>
         \/ source = "mock" /\ clock = Duration
         \/ source = "stdin" /\ ended /\ taken = fed
    /\ opc = "done" /\ rx => Disconnected
    /\ refused => source = "stdin" /\ owner = "caller"

\* The conjunction is inductive.
IInv == Orderly /\ QueueInv /\ LoopInv /\ OwnerInv
===============================================================================
