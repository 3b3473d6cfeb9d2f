------------------------------ MODULE Reconnect ------------------------------
(***************************************************************************)
(* reconnect.rs, the handshake of ipc.rs and ipc_auth.rs, and the          *)
(* request/reply half of ipc.rs: one ReconnectingIpcClient, whose callers  *)
(* take turns (the `ipc` mutex), and a daemon that crashes, comes back     *)
(* with another token or another protocol, answers too long a line, or     *)
(* dies in the middle of one.                                              *)
(*                                                                         *)
(* Time is counted in retry intervals.  Tokens are numbers; a proof is     *)
(* right when both sides have the same one.  External: the daemon, which   *)
(* writes its token before it listens, and refuses no other client.        *)
(***************************************************************************)
EXTENDS Integers, Sequences

CONSTANTS
    Budget,      \* the retry budget, in intervals
    MaxCalls,    \* bound: calls made
    MaxCrashes   \* bound: how often the daemon goes away

ASSUME ReconnectAssumption ==
    Budget \in Nat /\ MaxCalls \in Nat /\ MaxCrashes \in Nat

Absent == 0      \* read_token: no file, or it cannot be read
Invalid == -1    \* read_token: not a token

VARIABLES
    daemon,        \* "up" or "down"
    protocol,      \* the protocol it speaks, 1 or 2
    key,           \* the token it expects
    token,         \* the token file
    work,          \* the daemon's side of the request: "none", "received", "executed"
    inner,         \* the client's connection, or the one it is opening: "none",
                   \* "live", or "dead" (peer gone)
    proof,         \* the token this connection's handshake uses
    inbox,         \* reply lines in the socket
    auth_failure,  \* a refused handshake was recorded
    pc,            \* where the call is
    verb,          \* "retry" (retry_io_loop!) or "once" (no_retry_on_io!)
    call,          \* number of the call
    elapsed,       \* intervals slept in this ensure_connected
    result,        \* what the last call returned
    crashes,       \* how often the daemon went away
    misfit,        \* the token file was, at some time, not the daemon's
    execs, answered, attempts, waited, losses
                   \* of the current call: executions by the daemon, the call its
                   \* reply answers, connects, sleeps, connections lost

authVars == <<protocol, key, token, misfit>>
daemonVars == <<daemon, work, crashes, protocol, key, token, misfit>>
callVars == <<verb, call>>
counts == <<execs, answered, attempts, waited, losses>>
vars == <<daemon, protocol, key, token, work, inner, proof, inbox, auth_failure, pc, verb,
          call, elapsed, result, crashes, misfit, execs, answered, attempts, waited, losses>>

(* What the daemon expects of the token file.                              *)
Fits(tok, v, k) == IF v = 1 THEN tok = Absent ELSE tok = k

Init ==
    /\ daemon = "up"
    /\ protocol \in {1, 2}
    /\ key = 1
    /\ token = IF protocol = 1 THEN Absent ELSE key
    /\ misfit = FALSE
    /\ work = "none"
    /\ inner = "live"            \* connect_inner opens the first connection
    /\ proof = token
    /\ inbox = << >>
    /\ auth_failure = FALSE
    /\ pc = "idle"
    /\ verb = "once"
    /\ call = 0
    /\ elapsed = 0
    /\ result = "none"
    /\ crashes = 0
    /\ execs = 0 /\ answered = 0 /\ attempts = 0 /\ waited = 0 /\ losses = 0

(* The call returns r to its caller.                                       *)
Return(r) == pc' = "idle" /\ result' = r

------------------------------------------------------------------------------
Begin(v) ==
    /\ pc = "idle" /\ call < MaxCalls
    /\ pc' = "ensure"
    /\ verb' = v
    /\ call' = call + 1
    /\ result' = "none"
    /\ execs' = 0 /\ answered' = 0 /\ attempts' = 0 /\ waited' = 0 /\ losses' = 0
    /\ UNCHANGED <<daemonVars, inner, proof, inbox, auth_failure, elapsed>>

(* ensure_connected: a recorded refusal fails fast, a connection is used.  *)
EnsureConnected ==
    /\ pc = "ensure"
    /\ \/ auth_failure /\ Return("auth") /\ UNCHANGED elapsed
       \/ ~auth_failure /\ inner # "none" /\ pc' = "send" /\ UNCHANGED <<result, elapsed>>
       \/ ~auth_failure /\ inner = "none" /\ pc' = "connect" /\ elapsed' = 0 /\ UNCHANGED result
    /\ UNCHANGED <<daemonVars, inner, proof, inbox, auth_failure, callVars, counts>>

(* One attempt, connect_auth.  First the socket, ...                       *)
Connect ==
    /\ pc = "connect" /\ daemon = "up"
    /\ inner' = "live"
    /\ inbox' = << >>
    /\ pc' = "token"
    /\ attempts' = attempts + 1
    /\ UNCHANGED <<daemonVars, proof, auth_failure, callVars, elapsed, result, execs, answered, waited, losses>>

\* Mutant: the budget is never checked.
AttemptFailsForever == inner' = "none" /\ pc' = "sleep" /\ UNCHANGED result

(* The budget is compared after the failed attempt.                        *)
AttemptFails ==
    /\ inner' = "none"
    /\ IF elapsed >= Budget THEN Return("io") ELSE pc' = "sleep" /\ UNCHANGED result

\* Mutant: a refused handshake is not recorded.
RefusedForgets == inner' = "none" /\ Return("auth") /\ UNCHANGED auth_failure

(* auth_failed and auth_unavailable: terminal for this client.             *)
Refused == inner' = "none" /\ Return("auth") /\ auth_failure' = TRUE

ConnectFails ==
    /\ pc = "connect" /\ daemon = "down"
    /\ AttemptFails
    /\ attempts' = attempts + 1
    /\ UNCHANGED <<daemonVars, proof, inbox, auth_failure, callVars, elapsed, execs, answered, waited, losses>>

\* Mutant: the token is the one read for the first connection.
ReadTokenCached ==
    /\ pc = "token"
    /\ pc' = IF proof = Absent THEN "status" ELSE "hello"
    /\ UNCHANGED <<daemonVars, proof, inner, inbox, auth_failure, result, callVars, elapsed, counts>>

(* ... then the token file, read afresh, ...                               *)
ReadToken ==
    /\ pc = "token"
    /\ \/ token = Invalid /\ Refused /\ UNCHANGED proof
       \/ /\ token # Invalid
          /\ proof' = token
          /\ pc' = IF token = Absent THEN "status" ELSE "hello"
          /\ UNCHANGED <<inner, auth_failure, result>>
    /\ UNCHANGED <<daemonVars, inbox, callVars, elapsed, counts>>

\* Mutant: without a token any daemon is used.
AskStatusAccepts ==
    /\ pc = "status"
    /\ IF inner = "live" THEN pc' = "send" /\ UNCHANGED <<inner, result>> ELSE AttemptFails
    /\ UNCHANGED <<daemonVars, proof, inbox, auth_failure, callVars, elapsed, counts>>

(* ... and without a token daemon.status: only protocol 1 will do, and an  *)
(* attempt without a reply, or with a garbled one, fails; ...              *)
AskStatus ==
    /\ pc = "status"
    /\ \/ inner = "live" /\ protocol = 1 /\ pc' = "send" /\ UNCHANGED <<inner, auth_failure, result>>
       \/ inner = "live" /\ protocol # 1 /\ Refused
       \/ AttemptFails /\ UNCHANGED auth_failure
    /\ UNCHANGED <<daemonVars, proof, inbox, callVars, elapsed, counts>>

(* ... with one, hello: protocol 1 does not know the verb; a reply without *)
(* a nonce, or none, fails the attempt; ...                                *)
Hello ==
    /\ pc = "hello"
    /\ \/ inner = "live" /\ protocol = 2 /\ pc' = "proof" /\ UNCHANGED <<inner, auth_failure, result>>
       \/ inner = "live" /\ protocol # 2 /\ Refused
       \/ AttemptFails /\ UNCHANGED auth_failure
    /\ UNCHANGED <<daemonVars, proof, inbox, callVars, elapsed, counts>>

(* Both proofs are MACs over the profile and the two nonces: they verify   *)
(* when they were made with one token.                                     *)
Verifies(mine, theirs) == mine = theirs

(* ... and hello.proof: another token is rejected, or the daemon's proof   *)
(* does not verify.                                                        *)
Proof ==
    /\ pc = "proof"
    /\ \/ inner = "live" /\ Verifies(proof, key) /\ pc' = "send" /\ UNCHANGED <<inner, auth_failure, result>>
       \/ inner = "live" /\ ~Verifies(proof, key) /\ Refused
       \/ AttemptFails /\ UNCHANGED auth_failure
    /\ UNCHANGED <<daemonVars, proof, inbox, callVars, elapsed, counts>>

Sleep ==
    /\ pc = "sleep"
    /\ pc' = "connect"
    /\ elapsed' = elapsed + 1
    /\ waited' = waited + 1
    /\ UNCHANGED <<daemonVars, inner, proof, inbox, auth_failure, callVars, result, execs, answered, attempts, losses>>

------------------------------------------------------------------------------
(* round_trip.  A request over the 64 KiB cap is not sent.                 *)
RequestTooLong ==
    /\ pc = "send"
    /\ Return("malformed")
    /\ UNCHANGED <<daemonVars, inner, proof, inbox, auth_failure, callVars, elapsed, counts>>

Send ==
    /\ pc = "send"
    /\ pc' = "wait"
    /\ work' = IF inner = "live" THEN "received" ELSE work
    /\ UNCHANGED <<daemon, crashes, authVars, inner, proof, inbox, auth_failure, callVars, elapsed, result, counts>>

(* A whole line of at most the limit: the reply, or the daemon's error.    *)
ReceiveLine ==
    /\ pc = "wait" /\ inbox # << >> /\ Head(inbox).line = "whole"
    /\ inbox' = Tail(inbox)
    /\ answered' = Head(inbox).call
    /\ \/ Return("ok") \/ Return("server")
    /\ UNCHANGED <<daemonVars, inner, proof, auth_failure, callVars, elapsed, execs, attempts, waited, losses>>

\* Mutant: the rest of a line over the limit stays in the socket.
ReceiveTooLongRest ==
    /\ pc = "wait" /\ inbox # << >> /\ Head(inbox).line = "long"
    /\ inbox' = <<[Head(inbox) EXCEPT !.line = "whole"]>> \o Tail(inbox)
    /\ Return("malformed")
    /\ UNCHANGED <<daemonVars, inner, proof, auth_failure, callVars, elapsed, counts>>

\* Mutant: after a line over the limit the reader waits for another one.
ReceiveTooLongSkips ==
    /\ pc = "wait" /\ inbox # << >> /\ Head(inbox).line = "long"
    /\ inbox' = Tail(inbox)
    /\ UNCHANGED <<daemonVars, inner, proof, auth_failure, pc, result, callVars, elapsed, counts>>

(* A line over the limit is read to its end and dropped; a line cut short  *)
(* by EOF does not parse.  Both are Malformed, which drops no connection.  *)
ReceiveTooLong ==
    /\ pc = "wait" /\ inbox # << >> /\ Head(inbox).line = "long"
    /\ inbox' = Tail(inbox)
    /\ Return("malformed")
    /\ UNCHANGED <<daemonVars, inner, proof, auth_failure, callVars, elapsed, counts>>

ReceiveTorn ==
    /\ pc = "wait" /\ inbox # << >> /\ Head(inbox).line = "torn"
    /\ inbox' = Tail(inbox)
    /\ Return("malformed")
    /\ UNCHANGED <<daemonVars, inner, proof, auth_failure, callVars, elapsed, counts>>

\* Mutant: a verb that may have been executed is sent again.
ConnectionLostRetriesAll ==
    /\ pc = "wait" /\ inbox = << >> /\ inner = "dead"
    /\ inner' = "none"
    /\ losses' = losses + 1
    /\ pc' = "ensure" /\ UNCHANGED result
    /\ UNCHANGED <<daemonVars, proof, inbox, auth_failure, callVars, elapsed, execs, answered, attempts, waited>>

(* EOF or a write error: IpcError::Io.  The connection is dropped; only an *)
(* idempotent verb is tried again, with a new budget.                      *)
ConnectionLost ==
    /\ pc = "wait" /\ inbox = << >> /\ inner = "dead"
    /\ inner' = "none"
    /\ losses' = losses + 1
    /\ IF verb = "retry" THEN pc' = "ensure" /\ UNCHANGED result ELSE Return("io")
    /\ UNCHANGED <<daemonVars, proof, inbox, auth_failure, callVars, elapsed, execs, answered, attempts, waited>>

ClientStep ==
    \/ EnsureConnected \/ Connect \/ ConnectFails
    \/ ReadToken \/ AskStatus \/ Hello \/ Proof \/ Sleep
    \/ RequestTooLong \/ Send
    \/ ReceiveLine \/ ReceiveTooLong \/ ReceiveTorn \/ ConnectionLost

------------------------------------------------------------------------------
(* The daemon.                                                             *)
Execute ==
    /\ work = "received"
    /\ work' = "executed"
    /\ execs' = execs + 1
    /\ UNCHANGED <<daemon, crashes, authVars, inner, proof, inbox, auth_failure, pc, callVars, elapsed, result,
                   answered, attempts, waited, losses>>

Line(l) == [call |-> call, line |-> l]

Reply ==
    /\ work = "executed"
    /\ work' = "none"
    /\ \E l \in {"whole", "long"} : inbox' = Append(inbox, Line(l))
    /\ UNCHANGED <<daemon, crashes, authVars, inner, proof, auth_failure, pc, callVars, elapsed, result, counts>>

(* It goes away at any point, also half way through a reply; what it wrote *)
(* before stays readable.                                                  *)
Crash ==
    /\ daemon # "down" /\ crashes < MaxCrashes
    /\ daemon' = "down"
    /\ crashes' = crashes + 1
    /\ work' = "none"
    /\ inner' = IF inner = "live" THEN "dead" ELSE inner
    /\ \/ UNCHANGED inbox
       \/ work = "executed" /\ inbox' = Append(inbox, Line("torn"))
    /\ UNCHANGED <<authVars, proof, auth_failure, pc, callVars, elapsed, result, counts>>

(* It comes back with its token, or with a new one, which it writes before *)
(* it listens, or as an older daemon, which does not touch the file.       *)
Restart ==
    /\ daemon = "down"
    /\ daemon' = "up"
    /\ \/ protocol' = 1 /\ UNCHANGED <<key, token>>
       \/ protocol' = 2 /\ UNCHANGED <<key, token>>
       \/ protocol' = 2 /\ key' = key + 1 /\ token' = key'
    /\ misfit' = (misfit \/ ~Fits(token', protocol', key'))
    /\ UNCHANGED <<work, crashes, inner, proof, inbox, auth_failure, pc, callVars, elapsed, result, counts>>

(* Somebody removes or damages the token file, once.                       *)
TokenSpoilt ==
    /\ ~misfit /\ token \notin {Absent, Invalid}
    /\ token' \in {Absent, Invalid}
    /\ misfit' = TRUE
    /\ UNCHANGED <<daemon, protocol, key, work, crashes, inner, proof, inbox, auth_failure, pc,
                   callVars, elapsed, result, counts>>

Next ==
    \/ \E v \in {"retry", "once"} : Begin(v)
    \/ ClientStep
    \/ Execute \/ Reply \/ Crash \/ Restart \/ TokenSpoilt

Spec == Init /\ [][Next]_vars

(* A call in progress is run on, and a daemon that is up answers: there is *)
(* no timeout on a reply.  A daemon that is down need not come back.       *)
FairSpec == Spec /\ WF_vars(ClientStep) /\ WF_vars(Execute \/ Reply)

------------------------------------------------------------------------------
\* Types.
TypeOK ==
    /\ daemon \in {"up", "down"} /\ protocol \in {1, 2}
    /\ key \in Nat /\ token \in Nat \cup {Invalid} /\ proof \in Nat
    /\ misfit \in BOOLEAN
    /\ work \in {"none", "received", "executed"}
    /\ inner \in {"none", "live", "dead"}
    /\ inbox \in Seq([call : Nat, line : {"whole", "long", "torn"}])
    /\ auth_failure \in BOOLEAN
    /\ pc \in {"idle", "ensure", "connect", "token", "status", "hello", "proof", "sleep",
              "send", "wait"}
    /\ verb \in {"retry", "once"}
    /\ call \in Nat /\ elapsed \in 0..Budget
    /\ result \in {"none", "ok", "server", "malformed", "io", "auth"}
    /\ crashes \in Nat
    /\ execs \in Nat /\ answered \in Nat /\ attempts \in Nat /\ waited \in Nat /\ losses \in Nat

(* A mutating verb (open_write, create, rename, ...) is executed at most   *)
(* once per call, however the connection breaks.                           *)
AtMostOnce == verb = "once" => execs <= 1

(* A reply a call takes answers that very call, and the daemon did execute *)
(* it: a dropped or overlong reply never shifts the conversation.          *)
RepliesMatch ==
    result \in {"ok", "server"} => answered = call /\ execs >= 1

(* A refused handshake is terminal: once a call failed for it, every later *)
(* call fails in the same way, also when the daemon is restarted and would *)
(* take the token again.                                                   *)
RefusalIsFinal == [](result = "auth" => [](result \in {"none", "auth"}))

(* Restarts of the daemon, with a new token or as a newer one, never lock  *)
(* the client out: a refusal is recorded only when the token file was not  *)
(* the daemon's, and never because an old token met a new daemon.          *)
NoFalseRefusal == auth_failure => misfit

(* A connection in use is one the daemon at its other end would accept: a  *)
(* protocol 2 daemon gets no verb from a client that has not proved its    *)
(* token.                                                                  *)
ProvenInUse ==
    pc \in {"send", "wait"} /\ inner = "live" => Fits(proof, protocol, key)

(* A connect loop is bounded by the budget: losing the connection n times  *)
(* costs a call at most n + 1 loops, and a mutating verb exactly one.      *)
LoopsBounded ==
    /\ attempts <= (Budget + 1) * (losses + 1)
    /\ verb = "once" => attempts <= Budget + 1 /\ waited <= Budget

(* A call of a mutating verb returns, whatever the daemon does: its one    *)
(* connect loop ends.  A call of a retried verb returns if the daemon goes *)
(* away only finitely often: retry_io_loop! has neither a bound nor a      *)
(* sleep of its own, so a request at which every daemon it reaches dies is *)
(* sent for ever.  MaxCrashes stands for that assumption here.             *)
CallsReturn ==
    /\ pc # "idle" /\ verb = "once" ~> pc = "idle"
    /\ <>[][~Crash]_vars => (pc # "idle" ~> pc = "idle")
==============================================================================
