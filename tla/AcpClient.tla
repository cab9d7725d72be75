------------------------------ MODULE AcpClient ------------------------------
(***************************************************************************)
(* One provider process as the Gateway holds it (src/src/acp-client.js),   *)
(* as far as one session goes: a record, and what each operation makes of  *)
(* it.  SessionTurn keeps one such record per process it ever started.     *)
(*                                                                         *)
(*   alive    the process runs and its channel is open                     *)
(*   handler  onSessionUpdate registered one for the session               *)
(*   queued   prompts in the channel's NORMAL lane, not written yet        *)
(*   stop     a session/cancel in its HIGH lane, which goes first          *)
(*   sent     prompts the process has and has not answered                 *)
(*   told     ghost: of those, the ones a session/cancel has reached       *)
(*   held     the worker's requests that wait for Main's answer            *)
(*                                                                         *)
(* The queued and the sent prompts are the session/prompt entries of       *)
(* client.pending.                                                         *)
(***************************************************************************)
EXTENDS Integers

CONSTANTS
  Permissions,   \* requests of session/request_permission
  Operations,    \* writes and terminals that wait for Main (pendingOperations)
  Questions,     \* requests of elicitation/create
  Turns          \* prompts, and the turns they start

Requests == Permissions \cup Operations \cup Questions

Clients ==
  [alive : BOOLEAN, handler : BOOLEAN, queued : SUBSET Turns, stop : BOOLEAN,
   sent : SUBSET Turns, told : SUBSET Turns, held : SUBSET Requests]

\* constructor, and stop() and #fail once they are done: nothing is pending and
\* nobody is served.
Ended ==
  [alive |-> FALSE, handler |-> FALSE, queued |-> {}, stop |-> FALSE,
   sent |-> {}, told |-> {}, held |-> {}]

\* start()
Started == [Ended EXCEPT !.alive = TRUE]

\* Its prompts without an answer, which stop() and #fail reject.
Unanswered(client) == client.queued \cup client.sent

\* onSessionUpdate
Serve(client) == [client EXCEPT !.handler = TRUE]

\* sessionPrompt: request() queues the frame, then keeps the entry.
Prompt(client, n) == [client EXCEPT !.queued = @ \cup {n}]

\* The queued prompt left where it is: the cancel overtakes it.
CancelSession_NoRetract(client) == [client EXCEPT !.held = {}, !.stop = TRUE]

\* cancelSession: what waits for Main is answered, a prompt that is still queued
\* is taken back (#retractQueuedPrompt), and the worker is told unless nothing
\* of the session was out with it (#promptSent).
CancelSession(client) ==
  [client EXCEPT !.held = {}, !.queued = {},
                 !.stop = @ \/ client.queued = {} \/ client.sent # {}]

\* The prompts cancelSession settles itself, as cancelled.
Retracted(client) == client.queued

\* clearSession: answered, and no longer served.
ClearSession(client) == [client EXCEPT !.held = {}, !.handler = FALSE]

\* respondPermission and respondElicitation: the request leaves the map.
Respond(client, r) == [client EXCEPT !.held = @ \ {r}]

\* #requirePendingInputCapacity, then the entry (#handleAgentRequest,
\* #runProtectedOperation).
CanHold(client) == client.alive /\ client.handler
Hold(client, r) == [client EXCEPT !.held = @ \cup {r}]

\* pendingSessionInput
WaitsForPermission(client) == client.held \cap (Permissions \cup Operations) # {}
WaitsForInput(client) == client.held \cap Questions # {}

\* The channel's pump: the HIGH lane first.  A cancel that finds no turn is lost.
CanFlush(client) == client.alive /\ (client.stop \/ client.queued # {})
Flush(client) ==
  IF client.stop
  THEN [client EXCEPT !.stop = FALSE, !.told = client.sent]
  ELSE [client EXCEPT !.queued = {}, !.sent = @ \cup client.queued]

\* The answer to prompt n (#dispatch).
Answered(client, n) == [client EXCEPT !.sent = @ \ {n}, !.told = @ \ {n}]
=============================================================================
