----------------------------- MODULE Completion -----------------------------
(***************************************************************************)
(* One completion of the gateway's legacy path, once it has an account and *)
(* a workspace (streamCompletion and bufferedCompletion of server.go, and  *)
(* the three adapters):                                                    *)
(*                                                                         *)
(*   CLI or API --stdout--> adapter --flow--> handler --> client           *)
(*                                                                         *)
(* The adapter sends its events without looking at the context; a handler  *)
(* that streams stops hearing them when its client leaves, and then waits  *)
(* for the adapter to return.                                              *)
(***************************************************************************)
EXTENDS Integers, Sequences, FiniteSets, SequencesExt

CONSTANTS
  Script,     \* what is written, if nothing goes wrong: sequences of lines
  StdoutCap,  \* lines that can be written and not yet read
  FlowCap     \* capacity of the channel of events

Block == {0, 1}
Kind == {"text", "start", "args", "stop", "result", "error", "huge"}

ASSUME CompletionAssumption ==
  /\ Script \subseteq Seq([is : Kind, block : Block, text : STRING])
  /\ StdoutCap \in Nat \ {0} /\ FlowCap \in Nat \ {0}

NoTool == -1
NoEvent == [is |-> "none", tool |-> NoTool, text |-> ""]
Event(is, tool, text) == [is |-> is, tool |-> tool, text |-> text]

VARIABLES
  adapter,    \* "claude", "gemini" (command line programs) or "anthropic" (the API)
  streams,    \* the client asked for a stream
  source,     \* the program or the response: "none", "writing", "ended", "failed" or "cut"
  unwritten,  \* what it has still to write
  heldOpen,   \* it is over, but one it started itself keeps its output open, and is silent
  stdout,     \* lines written and not read
  said,       \* history: the lines that were read
  block,      \* currentBlocks: [Block -> the index of the tool, or NoTool]
  tools,      \* nextOpenAIIdx
  step,       \* how far the adapter is
  sending,    \* the event it is about to send
  runErr,     \* it returns an error
  flow,       \* the channel of events
  left,       \* the client has gone, and with it the context
  reader,     \* the handler: "hearing", "joining" or "ended"
  told,       \* the events it has passed on or put together
  unheard     \* history: there was no room for the error of Wait

completion == <<adapter, streams, source, unwritten, heldOpen, stdout, said, block, tools, step,
                sending, runErr, flow, left, reader, told, unheard>>
program == <<source, unwritten, heldOpen>>
client == <<left, reader, told>>

IsCLI == adapter \in {"claude", "gemini"}
Returned == step = "returned" /\ sending = NoEvent

-----------------------------------------------------------------------------
(* The program, or the API.                                                *)

ProgramOnly == UNCHANGED <<adapter, streams, said, block, tools, step, sending, runErr, flow, unheard, client>>

WriteLine ==
  /\ source = "writing" /\ unwritten # <<>> /\ Len(stdout) < StdoutCap
  /\ stdout' = Append(stdout, Head(unwritten))
  /\ unwritten' = Tail(unwritten)
  /\ UNCHANGED <<source, heldOpen>> /\ ProgramOnly

EndWriting ==
  /\ source = "writing"
  /\ \/ unwritten = <<>> /\ source' = "ended"
     \/ source' = "failed"
  /\ heldOpen' \in {FALSE, IsCLI}
  /\ UNCHANGED <<unwritten, stdout>> /\ ProgramOnly

\* Mutant of Cut: a program has all the time it likes.
CutOnLeave ==
  /\ source = "writing" /\ left
  /\ source' = "cut" /\ heldOpen' \in {FALSE, IsCLI}
  /\ stdout' \in {stdout} \cup (IF IsCLI THEN {} ELSE {<<>>})
  /\ UNCHANGED unwritten /\ ProgramOnly

\* The context is done, or the time a program is given; there is none for the API.
\* Killing a program leaves alone those it started.  What an interrupted response had
\* brought may be lost.
Cut ==
  /\ source = "writing" /\ (left \/ IsCLI)
  /\ source' = "cut" /\ heldOpen' \in {FALSE, IsCLI}
  /\ stdout' \in {stdout} \cup (IF IsCLI THEN {} ELSE {<<>>})
  /\ UNCHANGED unwritten /\ ProgramOnly

LetGo ==
  /\ heldOpen
  /\ heldOpen' = FALSE
  /\ UNCHANGED <<source, unwritten, stdout>> /\ ProgramOnly

-----------------------------------------------------------------------------
(* The adapter: Run and its parser.                                        *)

AdapterOnly == UNCHANGED <<adapter, streams, client>>

\* No prompt, no key, no program; or the API answers with a status of 400 or more.
Begin ==
  /\ step = "begin"
  /\ \/ source' = "writing" /\ step' = "parsing" /\ UNCHANGED runErr
     \/ step' = "returned" /\ runErr' = TRUE /\ UNCHANGED source
  /\ UNCHANGED <<unwritten, heldOpen, stdout, said, block, tools, sending, flow, unheard>>
  /\ AdapterOnly

SendEvent ==
  /\ sending # NoEvent /\ Len(flow) < FlowCap
  /\ flow' = Append(flow, sending)
  /\ sending' = NoEvent
  /\ UNCHANGED <<program, stdout, said, block, tools, step, runErr, unheard>> /\ AdapterOnly

GoOn(event) == sending' = event /\ UNCHANGED <<step, runErr>>
Finish(event, next) == sending' = event /\ step' = next /\ UNCHANGED runErr
Fail(next) == runErr' = TRUE /\ step' = next /\ UNCHANGED sending

StartToolAs(b, index) ==
  /\ GoOn(Event("start", index, ""))
  /\ block' = [block EXCEPT ![b] = index] /\ tools' = tools + 1

\* Mutant of StartTool: a tool is known by the number of its block.
StartToolByBlock(b) == StartToolAs(b, b)

\* Blocks are numbered anew in each message, tools are not.
StartTool(b) == StartToolAs(b, tools)

\* What belongs to no started tool is left out.
InTool(line) ==
  /\ GoOn(IF block[line.block] = NoTool THEN NoEvent ELSE Event(line.is, block[line.block], line.text))
  /\ block' = IF line.is = "stop" THEN [block EXCEPT ![line.block] = NoTool] ELSE block
  /\ UNCHANGED tools

\* parseClaudeStream.
ParseClaude(line) ==
  CASE line.is = "start" -> StartTool(line.block)
    [] line.is \in {"args", "stop"} -> InTool(line)
    [] OTHER ->
         /\ CASE line.is = "text" -> GoOn(Event("text", NoTool, line.text))
              [] line.is = "result" -> Finish(Event("done", NoTool, "end_turn"), "waiting")
              [] line.is = "huge" -> Fail("waiting")
              [] OTHER -> GoOn(NoEvent)
         /\ UNCHANGED <<block, tools>>

\* streamGeminiStdout: every line is text.
ParseGemini(line) == GoOn(Event("text", NoTool, line.text)) /\ UNCHANGED <<block, tools>>

ParseAnthropic(line) ==
  /\ CASE line.is \in {"text", "error"} -> GoOn(Event(line.is, NoTool, line.text))
       [] line.is = "result" -> Finish(Event("done", NoTool, "end_turn"), "returned")
       [] line.is = "huge" -> Fail("returned")
       [] OTHER -> GoOn(NoEvent)
  /\ UNCHANGED <<block, tools>>

ReadLine ==
  /\ step = "parsing" /\ sending = NoEvent /\ stdout # <<>>
  /\ stdout' = Tail(stdout)
  /\ said' = Append(said, Head(stdout))
  /\ CASE adapter = "claude" -> ParseClaude(Head(stdout))
       [] adapter = "gemini" -> ParseGemini(Head(stdout))
       [] adapter = "anthropic" -> ParseAnthropic(Head(stdout))
  /\ UNCHANGED <<program, flow, unheard>> /\ AdapterOnly

\* The end of the output.  A program's looks the same however it came about.
ReadEnd ==
  /\ step = "parsing" /\ sending = NoEvent /\ stdout = <<>>
  /\ source # "writing" /\ ~heldOpen
  /\ CASE adapter = "claude" -> Finish(Event("done", NoTool, "stream_closed"), "waiting")
       [] adapter = "gemini" -> Finish(NoEvent, "waiting")
       [] adapter = "anthropic" /\ source = "ended" -> Finish(Event("done", NoTool, ""), "returned")
       [] OTHER -> Fail("returned")
  /\ UNCHANGED <<program, stdout, said, block, tools, flow, unheard>> /\ AdapterOnly

\* cmd.Wait, which waits for the program alone.  How the program ended is told if there is room, and not returned.
Reap ==
  /\ step = "waiting" /\ sending = NoEvent /\ source # "writing"
  /\ step' = "returned"
  /\ LET failed == source \in {"failed", "cut"} /\ ~runErr
         room == Len(flow) < FlowCap
     IN /\ flow' = IF failed /\ room THEN Append(flow, Event("error", NoTool, "")) ELSE flow
        /\ unheard' = (failed /\ ~room)
  /\ sending' = IF adapter = "gemini" THEN Event("done", NoTool, "end_turn") ELSE NoEvent
  /\ UNCHANGED <<program, stdout, said, block, tools, runErr>> /\ AdapterOnly

-----------------------------------------------------------------------------
(* The handler and its client.                                             *)

HandlerOnly ==
  UNCHANGED <<adapter, streams, program, stdout, said, block, tools, step, sending, runErr, unheard>>

Hear ==
  /\ reader = "hearing" /\ flow # <<>>
  /\ told' = Append(told, Head(flow))
  /\ flow' = Tail(flow)
  /\ UNCHANGED <<left, reader>> /\ HandlerOnly

\* The channel is closed and empty; a stream also ends when its client has gone.
StopHearing ==
  /\ reader = "hearing"
  /\ (streams /\ left) \/ (Returned /\ flow = <<>>)
  /\ reader' = "joining"
  /\ UNCHANGED <<flow, left, told>> /\ HandlerOnly

\* The account hears of runErr only, the client of the end; what the request held is free.
Join ==
  /\ reader = "joining" /\ Returned
  /\ reader' = "ended"
  /\ UNCHANGED <<flow, left, told>> /\ HandlerOnly

ClientLeaves ==
  /\ ~left /\ reader # "ended"
  /\ left' = TRUE
  /\ UNCHANGED <<flow, reader, told>> /\ HandlerOnly

AdapterStep == Begin \/ SendEvent \/ ReadLine \/ ReadEnd \/ Reap
HandlerStep == Hear \/ StopHearing \/ Join
CompletionStep ==
  WriteLine \/ EndWriting \/ Cut \/ LetGo \/ AdapterStep \/ HandlerStep \/ ClientLeaves

CompletionInit ==
  /\ adapter \in {"claude", "gemini", "anthropic"} /\ streams \in BOOLEAN
  /\ source = "none" /\ unwritten \in Script /\ heldOpen = FALSE
  /\ stdout = <<>> /\ said = <<>>
  /\ block = [b \in Block |-> NoTool] /\ tools = 0
  /\ step = "begin" /\ sending = NoEvent /\ runErr = FALSE /\ flow = <<>>
  /\ left = FALSE /\ reader = "hearing" /\ told = <<>> /\ unheard = FALSE

-----------------------------------------------------------------------------
(* What the client puts together from what it is told, by the index of the *)
(* tool, and what was said, block by block.                                *)

\* The texts of s at some of its places, in their order.
Rank(places, i) == Cardinality({j \in places : j <= i})
TextsAt(s, places) ==
  [n \in 1..Cardinality(places) |-> s[Min({i \in places : Rank(places, i) = n})].text]

Contents(s, is) == TextsAt(s, {i \in DOMAIN s : s[i].is \in is})

\* The places of the events of a kind that belong to a tool.
OfTool(s, is, tool) == {i \in DOMAIN s : s[i].is = is /\ s[i].tool = tool}
ToldTools ==
  [tool \in {told[i].tool : i \in {k \in DOMAIN told : told[k].is = "start"}} |->
     <<Cardinality(OfTool(told, "start", tool)), TextsAt(told, OfTool(told, "args", tool))>>]

\* The tool started by line k: the arguments that follow in its block until it stops.
Ends(j, b) == said[j].is \in {"start", "stop"} /\ said[j].block = b
IsOpen(k, j) == \A i \in k + 1..j : ~Ends(i, said[k].block)
SaidTool(k) ==
  TextsAt(said, {j \in k + 1..Len(said) : said[j].is = "args" /\ said[j].block = said[k].block /\ IsOpen(k, j)})

Starts == {k \in DOMAIN said : adapter = "claude" /\ said[k].is = "start"}
SaidTools ==
  [tool \in 0..Cardinality(Starts) - 1 |->
     <<1, SaidTool(Min({k \in Starts : Rank(Starts, k) = tool + 1}))>>]

SaidText == Contents(said, IF adapter = "gemini" THEN Kind ELSE {"text"})

CompletionTypeOK ==
  /\ source \in {"none", "writing", "ended", "failed", "cut"}
  /\ Len(stdout) <= StdoutCap /\ Len(flow) <= FlowCap
  /\ block \in [Block -> 0..tools \cup {NoTool}] /\ tools <= Len(said)
  /\ step \in {"begin", "parsing", "waiting", "returned"}
  /\ reader \in {"hearing", "joining", "ended"}
  /\ {streams, runErr, left, unheard, heldOpen} \subseteq BOOLEAN

=============================================================================
