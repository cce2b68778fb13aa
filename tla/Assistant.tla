------------------------------- MODULE Assistant -------------------------------
(***************************************************************************)
(* The assistant (back/src/modules/rag, front/src/rag, RagChatbot.tsx).     *)
(* One process of the back end embeds the documentation on first use and    *)
(* keeps it in memory; a question is embedded, looked up, and the model's   *)
(* answer is streamed to the browser, one JSON event per line.              *)
(* What the text says is left out: the i-th delta of an answer is i, the    *)
(* connection carries lines, and the browser reads it in arbitrary pieces.  *)
(* A connection that breaks is seen by the browser, whose read() rejects.   *)
(***************************************************************************)
EXTENDS Naturals, Sequences, FiniteSets

CONSTANTS
    Questions,   \* questions asked, each in a conversation of its own
    MaxDeltas,   \* bound: deltas of one answer
    MaxBuilds    \* bound: times the documentation is embedded

ASSUME DeltasAssumption == MaxDeltas \in Nat
ASSUME BuildsAssumption == MaxBuilds \in Nat

VARIABLES
    configured,  \* the server has an API key
    ready,       \* the memoized promise of the store: the build it stands for
    build,       \* the embeddings of the documentation, in the order they started
    server,      \* per question: where streamAnswer is
    wire,        \* per question: what was written and not read yet
    open,        \* per question: the connection is "open", "ended" or "cut"
    client,      \* per question: the browser's loop
    said,        \* history, per question: deltas the model gave
    asked        \* history, per question: builds that were over when it was asked

chatVars == <<configured, ready, build, server, wire, open, client, said, asked>>

NoBuild == 0

\* A character on the connection: an event's JSON text, or the end of its line.
Newline == [type |-> "newline"]
Event == [type : {"token"}, delta : 1..MaxDeltas] \cup [type : {"done", "error"}]
Char == Event \cup {Newline}

\* failedBy: the build whose failure ended the question.
Server == [at : {"idle", "embed", "store", "waiting", "chat", "stream", "over"},
           on : 0..MaxBuilds, failedBy : 0..MaxBuilds]

Client == [shown    : {"nothing", "asking", "streaming", "answered", "noAnswer", "told"},
           text     : Seq(1..MaxDeltas),
           buffer   : Seq(Char)]

ChatTypeOK ==
    /\ configured \in BOOLEAN
    /\ build \in Seq({"running", "built", "failed", "lost"})
    /\ ready \in 0..MaxBuilds
    /\ server \in [Questions -> Server]
    /\ wire \in [Questions -> Seq(Char)]
    /\ open \in [Questions -> {"none", "open", "ended", "cut"}]
    /\ client \in [Questions -> Client]
    /\ said \in [Questions -> 0..MaxDeltas]
    /\ asked \in [Questions -> 0..MaxBuilds]

ChatInit ==
    /\ configured \in BOOLEAN
    /\ build = << >>
    /\ ready = NoBuild
    /\ server = [q \in Questions |-> [at |-> "idle", on |-> NoBuild, failedBy |-> NoBuild]]
    /\ wire = [q \in Questions |-> << >>]
    /\ open = [q \in Questions |-> "none"]
    /\ client = [q \in Questions |-> [shown |-> "nothing", text |-> << >>, buffer |-> << >>]]
    /\ said = [q \in Questions |-> 0]
    /\ asked = [q \in Questions |-> 0]

-----------------------------------------------------------------------------
(* The server. *)

Line(event) == <<event, Newline>>

Error == [type |-> "error"]

Token(i) == [type |-> "token", delta |-> i]

ServerAt(q, pc) == server[q].at = pc

\* The loop of RagController.chat writes an event ...
Write(q, event) == wire' = [wire EXCEPT ![q] = @ \o Line(event)]

\* ... and its catch and finally blocks end the answer of a question that fails.
ErrorTo(qs) ==
    /\ wire' = [q \in Questions |-> IF q \in qs THEN wire[q] \o Line(Error)
                                    ELSE wire[q]]
    /\ open' = [q \in Questions |-> IF q \in qs /\ open[q] = "open" THEN "ended" ELSE open[q]]

\* The validated body: an empty question is not sent by the browser, and one that is
\* too long is refused (the browser reads a status that is not ok).
ChatRequest == {"valid", "tooLong"}

AskQuestion(q, body) ==
    /\ client[q].shown = "nothing"
    /\ client' = [client EXCEPT ![q].shown = IF body = "valid" THEN "asking" ELSE "told"]
    /\ IF body = "valid"
       THEN /\ server' = [server EXCEPT ![q].at = "embed"]
            /\ open' = [open EXCEPT ![q] = "open"]
       ELSE UNCHANGED <<server, open>>
    /\ asked' = [asked EXCEPT ![q] = Cardinality({b \in DOMAIN build : build[b] # "running"})]
    /\ UNCHANGED <<configured, ready, build, wire, said>>

\* Mistral embeds the question.  Without a key every call fails.
EmbedQuestion(q) ==
    /\ ServerAt(q, "embed")
    /\ configured
    /\ server' = [server EXCEPT ![q].at = "store"]
    /\ UNCHANGED <<configured, ready, build, wire, open, client, said, asked>>

\* Any call to Mistral may fail, before the answer or in the middle of it.
CallFails(q) ==
    /\ server[q].at \in {"embed", "chat", "stream"}
    /\ server' = [server EXCEPT ![q].at = "over"]
    /\ ErrorTo({q})
    /\ UNCHANGED <<configured, ready, build, client, said, asked>>

\* Awaiting a promise: it is pending, kept or broken.
Await(q, b) ==
    LET outcome == CASE build[b] = "running" -> "waiting"
                     [] build[b] = "built" -> "chat"
                     [] OTHER -> "over"
    IN
    /\ server' = [server EXCEPT ![q] = [at |-> outcome, on |-> b,
                                       failedBy |-> IF outcome = "over" THEN b ELSE NoBuild]]
    /\ IF outcome = "over" THEN ErrorTo({q}) ELSE UNCHANGED <<wire, open>>
    /\ UNCHANGED <<ready, build>>

StartBuild(q) ==
    LET b == Len(build) + 1 IN
    /\ b <= MaxBuilds
    /\ build' = Append(build, "running")
    /\ ready' = b
    /\ server' = [server EXCEPT ![q].at = "waiting", ![q].on = b]
    /\ UNCHANGED <<wire, open>>

\* VectorStore.getStore: the first caller starts the build, the others share it.
GetStore(q) == IF ready = NoBuild THEN StartBuild(q) ELSE Await(q, ready)

Search(q) ==
    /\ ServerAt(q, "store")
    /\ GetStore(q)
    /\ UNCHANGED <<configured, client, said, asked>>

Waiting(b) == {q \in Questions : ServerAt(q, "waiting") /\ server[q].on = b}

\* build(): the chunks are read, embedded in one call and normalised.
BuildDone(b) ==
    /\ build[b] = "running"
    /\ build' = [build EXCEPT ![b] = "built"]
    /\ server' = [q \in Questions |-> IF q \in Waiting(b) THEN [server[q] EXCEPT !.at = "chat"]
                                      ELSE server[q]]
    /\ UNCHANGED <<configured, ready, wire, open, client, said, asked>>

BuildFails(b) ==
    /\ build[b] = "running"
    /\ build' = [build EXCEPT ![b] = "failed"]
    /\ ready' = NoBuild
    /\ server' = [q \in Questions |->
                    IF q \in Waiting(b)
                    THEN [server[q] EXCEPT !.at = "over", !.failedBy = b]
                    ELSE server[q]]
    /\ ErrorTo(Waiting(b))
    /\ UNCHANGED <<configured, client, said, asked>>

\* MistralClient.streamChat begins: the deltas follow, the empty ones are dropped.
BeginStream(q) ==
    /\ ServerAt(q, "chat")
    /\ server' = [server EXCEPT ![q].at = "stream"]
    /\ UNCHANGED <<configured, ready, build, wire, open, client, said, asked>>

Delta(q) ==
    /\ ServerAt(q, "stream")
    /\ said[q] < MaxDeltas
    /\ said' = [said EXCEPT ![q] = @ + 1]
    /\ Write(q, Token(said[q] + 1))
    /\ UNCHANGED <<configured, ready, build, server, open, client, asked>>

\* streamAnswer's last event carries the sources.
Done(q) ==
    /\ ServerAt(q, "stream")
    /\ server' = [server EXCEPT ![q].at = "over"]
    /\ Write(q, [type |-> "done"])
    /\ open' = [open EXCEPT ![q] = IF @ = "open" THEN "ended" ELSE @]
    /\ UNCHANGED <<configured, ready, build, client, said, asked>>

\* The process stops and another takes its place: the store and the answers under way
\* are lost, with what their connections still held.
Restart ==
    LET busy == {q \in Questions : server[q].at \notin {"idle", "over"}} IN
    /\ busy # {} \/ ready # NoBuild
    /\ ready' = NoBuild
    /\ build' = [b \in DOMAIN build |-> IF build[b] = "running" THEN "lost" ELSE build[b]]
    /\ server' = [q \in Questions |-> IF q \in busy THEN [server[q] EXCEPT !.at = "over"]
                                      ELSE server[q]]
    /\ open' = [q \in Questions |-> IF q \in busy /\ open[q] = "open" THEN "cut" ELSE open[q]]
    /\ UNCHANGED <<configured, wire, client, said, asked>>

-----------------------------------------------------------------------------
(* The browser. *)

Reading(q) == client[q].shown \in {"asking", "streaming"}

\* The loop of RagChatbot: what one event does to the message shown.
OnEvent(c, event) ==
    CASE event.type = "token" -> [c EXCEPT !.shown = "streaming", !.text = Append(@, event.delta)]
      [] event.type = "error" -> [c EXCEPT !.shown = "told"]
      [] OTHER -> c

HasLine(buffer) == \E i \in DOMAIN buffer : buffer[i] = Newline

LineEnd(buffer) ==
    CHOOSE i \in DOMAIN buffer : /\ buffer[i] = Newline
                                 /\ \A j \in 1..(i - 1) : buffer[j] # Newline

\* flushLine: an empty line is no event.
FlushLine(c, line) == IF line = << >> THEN c ELSE OnEvent(c, Head(line))

\* Mutant: what follows the line is forgotten.
NoRest(buffer) == << >>
Rest(buffer) == SubSeq(buffer, LineEnd(buffer) + 1, Len(buffer))

\* reader.read() gives the next piece of the answer, whatever its length: half a line,
\* or several.  It is called again when the buffer holds no complete line.
Read(q, length) ==
    /\ Reading(q)
    /\ ~HasLine(client[q].buffer)
    /\ length <= Len(wire[q])
    /\ wire' = [wire EXCEPT ![q] = SubSeq(@, length + 1, Len(@))]
    /\ client' = [client EXCEPT ![q].buffer = @ \o SubSeq(wire[q], 1, length)]
    /\ UNCHANGED <<configured, ready, build, server, open, said, asked>>

\* The next complete line leaves the buffer, and the loop waits for the page to show it.
TakeLine(q) ==
    LET c == client[q] IN
    /\ Reading(q)
    /\ HasLine(c.buffer)
    /\ client' = [client EXCEPT ![q] =
                    FlushLine([c EXCEPT !.buffer = Rest(c.buffer)],
                              SubSeq(c.buffer, 1, LineEnd(c.buffer) - 1))]
    /\ UNCHANGED <<configured, ready, build, server, wire, open, said, asked>>

\* The end of the answer: what is left in the buffer is a line too.
EndOfStream(q) ==
    LET c == FlushLine([client[q] EXCEPT !.buffer = << >>], client[q].buffer) IN
    /\ Reading(q)
    /\ ~HasLine(client[q].buffer)
    /\ open[q] = "ended"
    /\ wire[q] = << >>
    /\ client' = [client EXCEPT ![q] =
                    [c EXCEPT !.shown = CASE c.shown = "told" -> "told"
                                          [] c.shown = "streaming" -> "answered"
                                          [] OTHER -> "noAnswer"]]
    /\ UNCHANGED <<configured, ready, build, server, wire, open, said, asked>>

\* read() rejects: the catch block tells the user.
ReadFails(q) ==
    /\ Reading(q)
    /\ ~HasLine(client[q].buffer)
    /\ open[q] = "cut"
    /\ client' = [client EXCEPT ![q].shown = "told"]
    /\ UNCHANGED <<configured, ready, build, server, wire, open, said, asked>>

\* The connection breaks; streamAnswer is not told and goes on.
Disconnect(q) ==
    /\ open[q] \in {"open", "ended"}
    /\ Reading(q)
    /\ open' = [open EXCEPT ![q] = "cut"]
    /\ UNCHANGED <<configured, ready, build, server, wire, client, said, asked>>

ChatNext ==
    \/ \E q \in Questions :
         \/ \E body \in ChatRequest : AskQuestion(q, body)
         \/ EmbedQuestion(q) \/ CallFails(q) \/ Search(q)
         \/ BeginStream(q) \/ Delta(q) \/ Done(q)
         \/ \E length \in 1..(2 * MaxDeltas + 2) : Read(q, length)
         \/ TakeLine(q) \/ EndOfStream(q) \/ ReadFails(q) \/ Disconnect(q)
    \/ \E b \in DOMAIN build : BuildDone(b) \/ BuildFails(b)
    \/ Restart

ChatSpec == ChatInit /\ [][ChatNext]_chatVars

-----------------------------------------------------------------------------
(* Safety. *)

\* What the chat closes as an answer is all that the model said, in order, whatever
\* the pieces it arrived in, the failures and the restarts (chat-client.ts).
AnswerIsWhole ==
    \A q \in Questions :
        /\ client[q].shown = "answered" => client[q].text = [i \in 1..said[q] |-> i]
        /\ client[q].shown = "noAnswer" => said[q] = 0
        /\ client[q].shown \in {"answered", "noAnswer"} => server[q].failedBy = NoBuild

\* The documentation is embedded by one call at a time, however many questions wait
\* for it (VectorStore.getStore).
OneBuild == Cardinality({b \in DOMAIN build : build[b] = "running"}) <= 1

\* "A failed init is not cached, so the next request retries": no question ends on the
\* failure of a build that was over before it was asked (vector-store.ts).
FailureIsFresh ==
    \A q \in Questions : server[q].failedBy # NoBuild => server[q].failedBy > asked[q]

\* One build at a time, none whose failure outlives it, and nothing but whole answers.
AnswersSound == AnswerIsWhole /\ OneBuild /\ FailureIsFresh
=============================================================================
