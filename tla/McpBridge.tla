----------------------------- MODULE McpBridge -----------------------------
(***************************************************************************)
(* The MCP bridge (mcp_bridge.rs): a client that starts agent-brain as a   *)
(* child process and exchanges JSON-RPC lines with it over two pipes.      *)
(*                                                                         *)
(* The bridge is used by one thread, so one request is in flight; but a    *)
(* request that times out stays with the child, and its late answer, or    *)
(* what is left of a line that the timeout cut in half, is in the pipe     *)
(* when the next request is made.  The child is external: it reads,        *)
(* answers in any order or never, sends lines of its own, and may die.     *)
(***************************************************************************)
EXTENDS Sequences, Naturals

CONSTANTS
  MaxCalls,   \* bound on the requests made
  MaxNoise,   \* bound on the lines the child sends of its own accord
  PipeCap     \* messages that the pipe to the child holds before a write blocks

ASSUME BoundsAreNat == MaxCalls \in Nat /\ MaxNoise \in Nat /\ PipeCap \in Nat

VARIABLES
  alive,     \* the child process runs
  inbox,     \* messages to the child that it has not read
  todo,      \* requests that the child has read and may answer
  outbox,    \* lines from the child that the bridge has not read
  cut,       \* the next line's head has been read and thrown away by a timeout
  pc,        \* where the bridge is; "none" while there is no bridge
  nextId,    \* next_id
  target,    \* the id of the request in flight, 0 for the handshake
  calls,     \* requests made so far: the number of the one in flight
  ret,       \* how the last request ended, until the caller has looked at it
  served,    \* the request whose answer the last request returned
  noise,     \* lines the child sent of its own accord
  broken,    \* of these the ones that are no JSON, and the lines cut in half
  badLines   \* requests that failed for a line that is no JSON

child == <<alive, inbox, todo, outbox, cut>>
counters == <<noise, broken, badLines>>
bridgeVars == <<child, pc, nextId, target, calls, ret, served, counters>>

Ids == 0..MaxCalls
Request == [id : Ids, n : 0..MaxCalls]
Message == [kind : {"request", "pong", "notification"}, id : Ids, n : 0..MaxCalls]
Line == [kind : {"result", "error", "misshapen", "ping", "notification", "blank", "junk"},
         id : Ids, n : 0..MaxCalls]

Text(kind) == [kind |-> kind, id |-> 0, n |-> 0]

BridgeInit ==
  /\ alive = FALSE
  /\ inbox = <<>> /\ outbox = <<>> /\ todo = {}
  /\ cut = FALSE
  /\ pc = "none"
  /\ nextId = 1 /\ target = 0 /\ calls = 0
  /\ ret = "none" /\ served = 0
  /\ noise = 0 /\ broken = 0 /\ badLines = 0

(***************************************************************************)
(* The child process (external).                                           *)
(***************************************************************************)
ChildReads ==
  /\ alive /\ inbox # <<>>
  /\ inbox' = Tail(inbox)
  /\ todo' = IF Head(inbox).kind = "request"
             THEN todo \cup {[id |-> Head(inbox).id, n |-> Head(inbox).n]}
             ELSE todo
  /\ UNCHANGED <<alive, outbox, cut, pc, nextId, target, calls, ret, served, counters>>

\* A line arrives; of a line whose head was thrown away only an unbalanced rest is left,
\* or its newline.
Arrives(line) ==
  /\ outbox' \in {Append(outbox, l) : l \in IF cut THEN {Text("junk"), Text("blank")}
                                                   ELSE {line}}
  /\ cut' = FALSE

ChildAnswers ==
  /\ alive
  /\ \E q \in todo, kind \in {"result", "error", "misshapen"} :
       /\ Arrives([kind |-> kind, id |-> q.id, n |-> q.n])
       /\ todo' = todo \ {q}
  /\ UNCHANGED <<alive, inbox, pc, nextId, target, calls, ret, served, counters>>

\* Requests of the child's own, with ids of its own, notifications and stray output.
ChildSends ==
  /\ alive /\ noise < MaxNoise
  /\ noise' = noise + 1
  /\ \/ \E i \in 0..calls : /\ Arrives([kind |-> "ping", id |-> i, n |-> 0])
                            /\ UNCHANGED broken
     \/ Arrives(Text("notification")) /\ UNCHANGED broken
     \/ Arrives(Text("junk")) /\ broken' = broken + 1
  /\ UNCHANGED <<alive, inbox, todo, pc, nextId, target, calls, ret, served, badLines>>

\* It may die within a line.
ChildDies ==
  /\ alive
  /\ alive' = FALSE
  /\ todo' = {}
  /\ \/ UNCHANGED <<outbox, broken>>
     \/ /\ todo # {} /\ ~cut
        /\ outbox' = Append(outbox, Text("junk"))
        /\ broken' = broken + 1
  /\ UNCHANGED <<inbox, cut, pc, nextId, target, calls, ret, served, noise, badLines>>

(***************************************************************************)
(* The bridge.                                                             *)
(***************************************************************************)
\* Dropping the bridge kills the child and closes the pipes.
Dropped ==
  /\ pc' = "none"
  /\ alive' = FALSE /\ inbox' = <<>> /\ outbox' = <<>> /\ todo' = {} /\ cut' = FALSE

\* The caller has looked at the result.
ResultTaken == ret' = "none" /\ served' = 0

\* write_line: the message is in the writer's buffer, or partly in the pipe.
Written(message) == inbox' = Append(inbox, message)

\* connect_to: the child is spawned and the handshake's request written.
Connect ==
  /\ pc = "none"
  /\ calls < MaxCalls
  /\ alive' = TRUE
  /\ calls' = calls + 1
  /\ Written([kind |-> "request", id |-> 0, n |-> calls + 1])
  /\ nextId' = 1
  /\ target' = 0
  /\ pc' = "flush"
  /\ UNCHANGED <<todo, outbox, cut, ret, served, counters>>

\* Mutant: every request has the same id.
CallToolUnnumbered ==
  /\ pc = "idle"
  /\ calls < MaxCalls
  /\ calls' = calls + 1
  /\ target' = nextId
  /\ Written([kind |-> "request", id |-> nextId, n |-> calls + 1])
  /\ pc' = "flush"
  /\ UNCHANGED <<alive, todo, outbox, cut, nextId, ret, served, counters>>

\* call_tool, up to its write; the write is not under the timeout.
CallTool ==
  /\ pc = "idle"
  /\ calls < MaxCalls
  /\ calls' = calls + 1
  /\ nextId' = nextId + 1
  /\ target' = nextId
  /\ Written([kind |-> "request", id |-> nextId, n |-> calls + 1])
  /\ pc' = "flush"
  /\ UNCHANGED <<alive, todo, outbox, cut, ret, served, counters>>

\* The call returns and leaves these lines, and the head of another thrown away or not.
\* A handshake that succeeds is acknowledged with a notification, and one that fails
\* takes the bridge with it.
Return(how, lines, torn) ==
  /\ ret' = how
  /\ \/ /\ target # 0
        /\ pc' = "idle"
        /\ outbox' = lines /\ cut' = torn
        /\ UNCHANGED <<alive, inbox, todo>>
     \/ /\ target = 0 /\ how \in {"ok", "misread"}
        /\ pc' = "ack"
        /\ outbox' = lines /\ cut' = torn
        /\ Written([kind |-> "notification", id |-> 0, n |-> 0])
        /\ UNCHANGED <<alive, todo>>
     \/ /\ target = 0 /\ how \notin {"ok", "misread"}
        /\ Dropped

Flushed ==
  /\ pc \in {"flush", "pong", "ack"}
  /\ alive /\ Len(inbox) <= PipeCap
  /\ pc' = IF pc = "ack" THEN "idle" ELSE "read"
  /\ UNCHANGED <<child, nextId, target, calls, ret, served, counters>>

\* The child has closed its end of the pipe.
WriteFails ==
  /\ pc \in {"flush", "pong", "ack"}
  /\ ~alive
  /\ ret' = "io"
  /\ IF target = 0 THEN Dropped ELSE pc' = "idle" /\ UNCHANGED child
  /\ UNCHANGED <<nextId, target, calls, served, counters>>

Reading == pc = "read" /\ outbox # <<>>

\* Blank lines, notifications, and answers to requests that have timed out.
SkipLine ==
  /\ Reading
  /\ LET l == Head(outbox) IN
       \/ l.kind \in {"blank", "notification"}
       \/ l.kind \in {"result", "error", "misshapen"} /\ l.id # target
  /\ outbox' = Tail(outbox)
  /\ UNCHANGED <<alive, inbox, todo, cut, pc, nextId, target, calls, ret, served, counters>>

\* Mutant: the line stays in the buffer.
BadLineStays ==
  /\ Reading
  /\ Head(outbox).kind = "junk"
  /\ badLines' = badLines + 1
  /\ Return("bad line", outbox, cut)
  /\ UNCHANGED <<nextId, target, calls, served, noise, broken>>

\* A line that is no JSON ends the call, whatever request it would have answered.
BadLine ==
  /\ Reading
  /\ Head(outbox).kind = "junk"
  /\ badLines' = badLines + 1
  /\ Return("bad line", Tail(outbox), cut)
  /\ UNCHANGED <<nextId, target, calls, served, noise, broken>>

\* The answer to the request in flight; call_tool and its wrappers take its content apart.
TakeAnswer ==
  /\ Reading
  /\ Head(outbox).id = target
  /\ \/ Head(outbox).kind = "error" /\ Return("tool error", Tail(outbox), cut) /\ UNCHANGED served
     \/ Head(outbox).kind = "misshapen" /\ Return("misread", Tail(outbox), cut) /\ UNCHANGED served
     \/ Head(outbox).kind = "result" /\ Return("ok", Tail(outbox), cut) /\ served' = Head(outbox).n
  /\ UNCHANGED <<nextId, target, calls, counters>>

\* The id is looked at before the method: a request of the child that has the id of the
\* request in flight passes for its answer, with the result Null.
MistakeRequest ==
  /\ Reading
  /\ Head(outbox).kind = "ping" /\ Head(outbox).id = target
  /\ Return("misread", Tail(outbox), cut)
  /\ UNCHANGED <<nextId, target, calls, served, counters>>

HandleServerRequest ==
  /\ Reading
  /\ Head(outbox).kind = "ping" /\ Head(outbox).id # target
  /\ outbox' = Tail(outbox)
  /\ Written([kind |-> "pong", id |-> Head(outbox).id, n |-> 0])
  /\ pc' = "pong"
  /\ UNCHANGED <<alive, todo, cut, nextId, target, calls, ret, served, counters>>

ReadEof ==
  /\ pc = "read" /\ outbox = <<>> /\ ~alive
  /\ Return("not connected", outbox, cut)
  /\ UNCHANGED <<nextId, target, calls, served, counters>>

\* Mutant: only tool calls have a timeout, the handshake has none.
TimeoutOfTools ==
  /\ pc \in {"read", "pong"} /\ target # 0
  /\ Return("timeout", outbox, cut)
  /\ UNCHANGED <<nextId, target, calls, served, counters>>

\* The timeout drops read_until_response, and with it what it has read of a line that
\* has not arrived in full.
Timeout ==
  /\ pc \in {"read", "pong"}
  /\ \/ Return("timeout", outbox, cut) /\ UNCHANGED broken
     \/ /\ pc = "read" /\ outbox = <<>> /\ target # 0 /\ alive /\ ~cut
        /\ Return("timeout", outbox, TRUE)
        /\ broken' = broken + 1
  /\ UNCHANGED <<nextId, target, calls, served, noise, badLines>>

----------------------------------------------------------------------------

ReadLine == SkipLine \/ BadLine \/ TakeAnswer \/ MistakeRequest \/ HandleServerRequest

BridgeStep == Flushed \/ WriteFails \/ ReadLine \/ ReadEof \/ Timeout
ChildStep == ChildReads \/ ChildAnswers \/ ChildSends \/ ChildDies

\* The runtime drives the bridge's futures and its timer.
BridgeFairness ==
  /\ WF_bridgeVars(Flushed) /\ WF_bridgeVars(WriteFails)
  /\ WF_bridgeVars(ReadLine) /\ WF_bridgeVars(ReadEof) /\ WF_bridgeVars(Timeout)

----------------------------------------------------------------------------

BridgeTypeOK ==
  /\ alive \in BOOLEAN /\ cut \in BOOLEAN
  /\ inbox \in Seq(Message)
  /\ outbox \in Seq(Line)
  /\ todo \subseteq Request
  /\ pc \in {"none", "idle", "flush", "read", "pong", "ack"}
  /\ nextId \in Nat /\ target \in Ids /\ calls \in 0..MaxCalls
  /\ ret \in {"none", "ok", "misread", "tool error", "bad line", "not connected", "io", "timeout"}
  /\ served \in 0..MaxCalls
  /\ noise \in Nat /\ broken \in Nat /\ badLines \in Nat

\* A request that returns a result returns the answer to itself, and not the late answer
\* to a request that timed out before it (call_tool, read_until_response).
AnswersOwnRequest == pc = "idle" /\ ret = "ok" => served = calls

\* One broken line fails one request: a line that is no JSON, or that a timeout has cut
\* in half, does not fail the requests after the one that meets it.
BadLineCostsOne == badLines <= broken

\* A request returns, if the child goes on reading its input; for the write before the
\* timeout nothing else guarantees it.
CallReturns ==
  WF_bridgeVars(ChildReads) =>
    (pc \in {"flush", "read", "pong", "ack"} ~> pc \in {"idle", "none"})
=============================================================================
