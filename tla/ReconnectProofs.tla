--------------------------- MODULE ReconnectProofs ---------------------------
(***************************************************************************)
(* Theorems about Reconnect, for every retry budget and any number of      *)
(* calls and crashes of the daemon.  The inductive invariant follows the   *)
(* four things that the actors share: the conversation on the socket, the  *)
(* executions of a verb, the attempts made, and the token.                 *)
(***************************************************************************)
EXTENDS Reconnect, TLAPS

(* The replies a call may find in its socket: nothing, or one line of its  *)
(* own.                                                                    *)
Inboxes == {<< >>} \cup {<<Line(l)>> : l \in {"whole", "long", "torn"}}

(* The conversation is in step: the daemon is at work only for a call that *)
(* waits and has no reply yet, and a reply is read by its own call.        *)
InConversation ==
    /\ inbox \in Inboxes
    /\ inbox # << >> => pc = "wait" /\ work = "none" /\ execs >= 1
    /\ work # "none" => pc = "wait" /\ inner = "live"
    /\ work = "executed" => execs >= 1
    /\ inner = "live" => daemon = "up"
    /\ pc \in {"connect", "sleep"} => inner = "none"
    /\ pc # "idle" => result = "none"
    /\ RepliesMatch

(* What a mutating verb has been executed, at every point of the call.     *)
ExecutedOnce ==
    verb = "once" =>
        /\ execs <= 1
        /\ pc \notin {"wait", "idle"} => execs = 0
        /\ work = "received" => execs = 0

(* All attempts of n connect loops.                                        *)
InLoops(n) == (Budget + 1) * n

(* The attempts of the loops before, and those of the one under way.       *)
Attempts ==
    /\ pc = "sleep" => elapsed < Budget
    /\ pc = "ensure" => attempts <= InLoops(losses)
    /\ pc = "connect" => attempts <= InLoops(losses) + elapsed
    /\ pc \in {"token", "status", "hello", "proof", "sleep"} =>
          attempts <= InLoops(losses) + elapsed + 1
    /\ attempts <= InLoops(losses + 1)

(* A mutating verb has one loop.                                           *)
AttemptsOnce ==
    verb = "once" =>
        /\ pc # "idle" => losses = 0
        /\ pc = "ensure" => waited = 0
        /\ pc \in {"connect", "token", "status", "hello", "proof", "sleep"} => waited <= elapsed
        /\ attempts <= Budget + 1
        /\ waited <= Budget

(* The token a connection uses is the one its daemon wrote.  A connection  *)
(* that is live has seen no restart.                                       *)
TokenInStep ==
    /\ key >= 1
    /\ ~misfit => Fits(token, protocol, key)
    /\ inner = "live" /\ ~misfit /\ pc \in {"status", "hello", "proof"} => proof = token
    /\ pc = "status" => proof = Absent
    /\ pc = "hello" => proof # Absent
    /\ pc = "proof" /\ inner = "live" => protocol = 2
    /\ inner = "live" /\ pc \in {"idle", "ensure", "send", "wait"} => Fits(proof, protocol, key)

(* A recorded refusal leaves no call beyond ensure_connected.              *)
RefusalKept ==
    /\ result = "auth" => auth_failure
    /\ auth_failure => misfit /\ pc \in {"idle", "ensure"} /\ result \in {"none", "auth"}

IInv ==
    /\ TypeOK /\ InConversation /\ ExecutedOnce
    /\ Attempts /\ AttemptsOnce /\ TokenInStep /\ RefusalKept

------------------------------------------------------------------------------
LEMMA LoopsAdd ==
    ASSUME NEW n \in Nat
    PROVE  InLoops(n) \in Nat /\ InLoops(n + 1) = InLoops(n) + Budget + 1
BY ReconnectAssumption DEF InLoops

LEMMA FirstLoops == InLoops(0) = 0 /\ InLoops(1) = Budget + 1
BY ReconnectAssumption DEF InLoops

(* Types: a sleep is only taken with budget left.                          *)
LEMMA TypeStep ==
    ASSUME IInv, Next PROVE TypeOK'
<1> USE DEF IInv, daemonVars, authVars, callVars, counts
<1>1. ASSUME NEW v \in {"retry", "once"}, Begin(v) PROVE TypeOK'
  BY ReconnectAssumption, <1>1 DEF Begin, TypeOK
<1>2. CASE EnsureConnected
  BY ReconnectAssumption, <1>2 DEF EnsureConnected, Return, TypeOK
<1>3. CASE Connect
  BY ReconnectAssumption, <1>3 DEF Connect, TypeOK
<1>4. CASE ConnectFails
  BY ReconnectAssumption, <1>4 DEF ConnectFails, AttemptFails, Return, TypeOK
<1>5. CASE ReadToken
  BY ReconnectAssumption, <1>5, ZenonT(30) DEF ReadToken, Refused, Return, Absent, Invalid, TypeOK
<1>6. CASE AskStatus
  <2>1. /\ inner' \in {"none", "live", "dead"} /\ auth_failure' \in BOOLEAN
        /\ pc' \in {"idle", "sleep", "send", "proof"}
        /\ result' \in {"none", "ok", "server", "malformed", "io", "auth"}
    BY <1>6 DEF AskStatus, Refused, Return, AttemptFails, TypeOK
  <2> QED BY <1>6, <2>1 DEF AskStatus, TypeOK
<1>7. CASE Hello
  <2>1. /\ inner' \in {"none", "live", "dead"} /\ auth_failure' \in BOOLEAN
        /\ pc' \in {"idle", "sleep", "send", "proof"}
        /\ result' \in {"none", "ok", "server", "malformed", "io", "auth"}
    BY <1>7 DEF Hello, Refused, Return, AttemptFails, TypeOK
  <2> QED BY <1>7, <2>1 DEF Hello, TypeOK
<1>8. CASE Proof
  <2>1. /\ inner' \in {"none", "live", "dead"} /\ auth_failure' \in BOOLEAN
        /\ pc' \in {"idle", "sleep", "send", "proof"}
        /\ result' \in {"none", "ok", "server", "malformed", "io", "auth"}
    BY <1>8 DEF Proof, Refused, Return, AttemptFails, TypeOK
  <2> QED BY <1>8, <2>1 DEF Proof, TypeOK
<1>9. CASE Sleep
  BY ReconnectAssumption, <1>9 DEF Sleep, Attempts, TypeOK
<1>10. CASE RequestTooLong
  BY ReconnectAssumption, <1>10 DEF RequestTooLong, Return, TypeOK
<1>11. CASE Send
  BY ReconnectAssumption, <1>11 DEF Send, TypeOK
<1>12. CASE ReceiveLine
  <2>1. inbox' = << >> /\ answered' \in Nat
    BY <1>12, SMTT(30) DEF ReceiveLine, InConversation, Inboxes, Line, TypeOK
  <2> QED BY <1>12, <2>1 DEF ReceiveLine, Return, TypeOK
<1>13. CASE ReceiveTooLong
  BY ReconnectAssumption, <1>13 DEF ReceiveTooLong, Return, TypeOK
<1>14. CASE ReceiveTorn
  BY ReconnectAssumption, <1>14 DEF ReceiveTorn, Return, TypeOK
<1>15. CASE ConnectionLost
  BY ReconnectAssumption, <1>15 DEF ConnectionLost, Return, TypeOK
<1>16. CASE Execute
  BY ReconnectAssumption, <1>16 DEF Execute, TypeOK
<1>17. CASE Reply
  BY ReconnectAssumption, <1>17 DEF Reply, Line, TypeOK
<1>18. CASE Crash
  <2>1. work = "executed" => inbox = << >>
    BY DEF InConversation
  <2>2. Append(<< >>, Line("torn")) \in Seq([call : Nat, line : {"whole", "long", "torn"}])
    BY DEF Line, TypeOK
  <2>3. inbox' \in Seq([call : Nat, line : {"whole", "long", "torn"}])
    BY <1>18, <2>1, <2>2 DEF Crash, TypeOK
  <2> QED BY <1>18, <2>3 DEF Crash, TypeOK
<1>19. CASE Restart
  BY ReconnectAssumption, <1>19 DEF Restart, TypeOK
<1>20. CASE TokenSpoilt
  BY ReconnectAssumption, <1>20 DEF TokenSpoilt, Absent, Invalid, TypeOK
<1> QED BY <1>1, <1>2, <1>3, <1>4, <1>5, <1>6, <1>7, <1>8, <1>9, <1>10, <1>11, <1>12,
           <1>13, <1>14, <1>15, <1>16, <1>17, <1>18, <1>19, <1>20 DEF Next,
           ClientStep

(* The conversation stays in step: a reply is added only for the call that *)
(* waits for it, and nothing is sent while one is unread.                  *)
LEMMA ConversationStep ==
    ASSUME IInv, Next PROVE InConversation'
<1> USE DEF IInv, daemonVars, authVars, callVars, counts
<1>1. ASSUME NEW v \in {"retry", "once"}, Begin(v) PROVE InConversation'
  BY <1>1 DEF Begin, InConversation, Inboxes, Line, RepliesMatch, TypeOK
<1>2. CASE EnsureConnected
  BY <1>2 DEF EnsureConnected, Return, InConversation, Inboxes, Line, RepliesMatch, TypeOK
<1>3. CASE Connect
  BY <1>3 DEF Connect, InConversation, Inboxes, Line, RepliesMatch, TypeOK
<1>4. CASE ConnectFails
  BY <1>4 DEF ConnectFails, AttemptFails, Return, InConversation, Inboxes, Line,
     RepliesMatch, TypeOK
<1>5. CASE ReadToken
  BY <1>5 DEF ReadToken, Refused, Return, InConversation, Inboxes, Line, RepliesMatch, TypeOK
<1>6. CASE AskStatus
  BY <1>6 DEF AskStatus, Refused, Return, AttemptFails, InConversation, Inboxes, Line,
     RepliesMatch, TypeOK
<1>7. CASE Hello
  BY <1>7 DEF Hello, Refused, Return, AttemptFails, InConversation, Inboxes, Line,
     RepliesMatch, TypeOK
<1>8. CASE Proof
  BY <1>8 DEF Proof, Refused, Return, AttemptFails, Verifies, InConversation, Inboxes, Line,
     RepliesMatch, TypeOK
<1>9. CASE Sleep
  BY <1>9 DEF Sleep, InConversation, Inboxes, Line, RepliesMatch, TypeOK
<1>10. CASE RequestTooLong
  BY <1>10 DEF RequestTooLong, Return, InConversation, Inboxes, Line, RepliesMatch, TypeOK
<1>11. CASE Send
  BY <1>11 DEF Send, InConversation, Inboxes, Line, RepliesMatch, TypeOK
<1>12. CASE ReceiveLine
  BY <1>12 DEF ReceiveLine, Return, InConversation, Inboxes, Line, RepliesMatch, TypeOK
<1>13. CASE ReceiveTooLong
  BY <1>13 DEF ReceiveTooLong, Return, InConversation, Inboxes, Line, RepliesMatch, TypeOK
<1>14. CASE ReceiveTorn
  BY <1>14 DEF ReceiveTorn, Return, InConversation, Inboxes, Line, RepliesMatch, TypeOK
<1>15. CASE ConnectionLost
  BY <1>15 DEF ConnectionLost, Return, InConversation, Inboxes, Line, RepliesMatch, TypeOK
<1>16. CASE Execute
  BY <1>16 DEF Execute, InConversation, Inboxes, Line, RepliesMatch, TypeOK
<1>17. CASE Reply
  <2>1. inbox = << >>
    BY <1>17 DEF Reply, InConversation
  <2>2. inbox' \in {<<Line(l)>> : l \in {"whole", "long", "torn"}}
    BY <1>17, <2>1 DEF Reply
  <2>3. inbox' \in Inboxes' /\ inbox' # << >>
    BY <1>17, <2>2 DEF Reply, callVars, Inboxes, Line
  <2> QED BY <1>17, <2>3 DEF Reply, InConversation, RepliesMatch, TypeOK
<1>18. CASE Crash
  <2>1. work = "executed" => inbox = << >>
    BY DEF InConversation
  <2>2. work = "executed" => Append(inbox, Line("torn")) = <<Line("torn")>>
    BY <2>1
  <2>3. inbox' = inbox \/ (inbox' = <<Line("torn")>> /\ work = "executed")
    BY <1>18, <2>2 DEF Crash
  <2>4. inbox' \in Inboxes'
    BY <1>18, <2>3 DEF Crash, InConversation, Inboxes, Line
  <2> QED BY <1>18, <2>3, <2>4 DEF Crash, InConversation, RepliesMatch, TypeOK
<1>19. CASE Restart
  BY <1>19 DEF Restart, InConversation, Inboxes, Line, RepliesMatch, TypeOK
<1>20. CASE TokenSpoilt
  BY <1>20 DEF TokenSpoilt, InConversation, Inboxes, Line, RepliesMatch, TypeOK
<1> QED BY <1>1, <1>2, <1>3, <1>4, <1>5, <1>6, <1>7, <1>8, <1>9, <1>10, <1>11, <1>12,
           <1>13, <1>14, <1>15, <1>16, <1>17, <1>18, <1>19, <1>20 DEF Next,
           ClientStep

(* A mutating verb is sent once per call, since losing its connection ends *)
(* it.                                                                     *)
LEMMA ExecutedStep ==
    ASSUME IInv, Next PROVE ExecutedOnce'
<1> USE DEF IInv, daemonVars, authVars, callVars, counts
<1>1. ASSUME NEW v \in {"retry", "once"}, Begin(v) PROVE ExecutedOnce'
  BY <1>1 DEF Begin, ExecutedOnce, InConversation, TypeOK
<1>2. CASE EnsureConnected
  BY <1>2 DEF EnsureConnected, Return, ExecutedOnce, InConversation, TypeOK
<1>3. CASE Connect
  BY <1>3 DEF Connect, ExecutedOnce, InConversation, TypeOK
<1>4. CASE ConnectFails
  BY <1>4 DEF ConnectFails, AttemptFails, Return, ExecutedOnce, InConversation, TypeOK
<1>5. CASE ReadToken
  BY <1>5 DEF ReadToken, Refused, Return, ExecutedOnce, InConversation, TypeOK
<1>6. CASE AskStatus
  BY <1>6 DEF AskStatus, Refused, Return, AttemptFails, ExecutedOnce, InConversation, TypeOK
<1>7. CASE Hello
  BY <1>7 DEF Hello, Refused, Return, AttemptFails, ExecutedOnce, InConversation, TypeOK
<1>8. CASE Proof
  BY <1>8 DEF Proof, Refused, Return, AttemptFails, Verifies, ExecutedOnce, InConversation,
     TypeOK
<1>9. CASE Sleep
  BY <1>9 DEF Sleep, ExecutedOnce, InConversation, TypeOK
<1>10. CASE RequestTooLong
  BY <1>10 DEF RequestTooLong, Return, ExecutedOnce, InConversation, TypeOK
<1>11. CASE Send
  BY <1>11 DEF Send, ExecutedOnce, InConversation, TypeOK
<1>12. CASE ReceiveLine
  BY <1>12 DEF ReceiveLine, Return, ExecutedOnce, InConversation, TypeOK
<1>13. CASE ReceiveTooLong
  BY <1>13 DEF ReceiveTooLong, Return, ExecutedOnce, InConversation, TypeOK
<1>14. CASE ReceiveTorn
  BY <1>14 DEF ReceiveTorn, Return, ExecutedOnce, InConversation, TypeOK
<1>15. CASE ConnectionLost
  BY <1>15 DEF ConnectionLost, Return, ExecutedOnce, InConversation, TypeOK
<1>16. CASE Execute
  BY <1>16 DEF Execute, ExecutedOnce, InConversation, TypeOK
<1>17. CASE Reply
  BY <1>17 DEF Reply, Line, ExecutedOnce, InConversation, TypeOK
<1>18. CASE Crash
  BY <1>18 DEF Crash, Line, ExecutedOnce, InConversation, TypeOK
<1>19. CASE Restart
  BY <1>19 DEF Restart, ExecutedOnce, InConversation, TypeOK
<1>20. CASE TokenSpoilt
  BY <1>20 DEF TokenSpoilt, ExecutedOnce, InConversation, TypeOK
<1> QED BY <1>1, <1>2, <1>3, <1>4, <1>5, <1>6, <1>7, <1>8, <1>9, <1>10, <1>11, <1>12,
           <1>13, <1>14, <1>15, <1>16, <1>17, <1>18, <1>19, <1>20 DEF Next,
           ClientStep

(* Only a lost connection starts another loop, and no loop goes beyond the *)
(* budget.                                                                 *)
LEMMA AttemptsStep ==
    ASSUME IInv, Next PROVE Attempts'
<1> USE DEF IInv, daemonVars, authVars, callVars, counts
<1>0. /\ Budget \in Nat /\ InLoops(0) = 0 /\ InLoops(1) = Budget + 1
      /\ InLoops(losses) \in Nat /\ InLoops(losses + 1) = InLoops(losses) + Budget + 1
      /\ InLoops(losses + 1 + 1) = InLoops(losses + 1) + Budget + 1
  <2>1. losses \in Nat /\ losses + 1 \in Nat
    BY DEF TypeOK
  <2> QED BY <2>1, ReconnectAssumption, FirstLoops, LoopsAdd
<1>1. ASSUME NEW v \in {"retry", "once"}, Begin(v) PROVE Attempts'
  BY <1>0, <1>1 DEF Begin, Attempts, TypeOK
<1>2. CASE EnsureConnected
  <2>1. CASE pc' # "connect"
    BY <1>0, <1>2, <2>1 DEF EnsureConnected, Return, Attempts, TypeOK
  <2>2. CASE pc' = "connect"
    <3>1. elapsed' = 0 /\ attempts' = attempts /\ losses' = losses
      BY <1>2, <2>2 DEF EnsureConnected, Return
    <3> QED BY <1>0, <1>2, <2>2, <3>1 DEF EnsureConnected, Attempts, TypeOK
  <2> QED BY <2>1, <2>2
<1>3. CASE Connect
  BY <1>0, <1>3 DEF Connect, Attempts, TypeOK
<1>4. CASE ConnectFails
  BY <1>0, <1>4, SMTT(30) DEF ConnectFails, AttemptFails, Return, Attempts, TypeOK
<1>5. CASE ReadToken
  BY <1>0, <1>5 DEF ReadToken, Refused, Return, Attempts, TypeOK
<1>6. CASE AskStatus
  BY <1>0, <1>6 DEF AskStatus, Refused, Return, AttemptFails, Attempts, TypeOK
<1>7. CASE Hello
  BY <1>0, <1>7 DEF Hello, Refused, Return, AttemptFails, Attempts, TypeOK
<1>8. CASE Proof
  BY <1>0, <1>8 DEF Proof, Refused, Return, AttemptFails, Verifies, Attempts, TypeOK
<1>9. CASE Sleep
  BY <1>0, <1>9 DEF Sleep, Attempts, TypeOK
<1>10. CASE RequestTooLong
  BY <1>0, <1>10 DEF RequestTooLong, Return, Attempts, TypeOK
<1>11. CASE Send
  BY <1>0, <1>11 DEF Send, Attempts, TypeOK
<1>12. CASE ReceiveLine
  BY <1>0, <1>12 DEF ReceiveLine, Return, Attempts, TypeOK
<1>13. CASE ReceiveTooLong
  BY <1>0, <1>13 DEF ReceiveTooLong, Return, Attempts, TypeOK
<1>14. CASE ReceiveTorn
  BY <1>0, <1>14 DEF ReceiveTorn, Return, Attempts, TypeOK
<1>15. CASE ConnectionLost
  BY <1>0, <1>15 DEF ConnectionLost, Return, Attempts, TypeOK
<1>16. CASE Execute
  BY <1>0, <1>16 DEF Execute, Attempts, TypeOK
<1>17. CASE Reply
  BY <1>0, <1>17 DEF Reply, Line, Attempts, TypeOK
<1>18. CASE Crash
  BY <1>0, <1>18 DEF Crash, Line, Attempts, TypeOK
<1>19. CASE Restart
  BY <1>0, <1>19 DEF Restart, Attempts, TypeOK
<1>20. CASE TokenSpoilt
  BY <1>0, <1>20 DEF TokenSpoilt, Attempts, TypeOK
<1> QED BY <1>1, <1>2, <1>3, <1>4, <1>5, <1>6, <1>7, <1>8, <1>9, <1>10, <1>11, <1>12,
           <1>13, <1>14, <1>15, <1>16, <1>17, <1>18, <1>19, <1>20 DEF Next,
           ClientStep

(* A mutating verb that loses its connection returns, so it has one loop.  *)
LEMMA AttemptsOnceStep ==
    ASSUME IInv, Next PROVE AttemptsOnce'
<1> USE DEF IInv, daemonVars, authVars, callVars, counts
<1>0. /\ Budget \in Nat /\ InLoops(0) = 0 /\ InLoops(1) = Budget + 1
      /\ InLoops(losses) \in Nat /\ InLoops(losses + 1) = InLoops(losses) + Budget + 1
      /\ InLoops(losses + 1 + 1) = InLoops(losses + 1) + Budget + 1
  <2>1. losses \in Nat /\ losses + 1 \in Nat
    BY DEF TypeOK
  <2> QED BY <2>1, ReconnectAssumption, FirstLoops, LoopsAdd
<1>1. ASSUME NEW v \in {"retry", "once"}, Begin(v) PROVE AttemptsOnce'
  BY <1>0, <1>1 DEF Begin, AttemptsOnce, Attempts, TypeOK
<1>2. CASE EnsureConnected
  BY <1>0, <1>2 DEF EnsureConnected, Return, AttemptsOnce, Attempts, TypeOK
<1>3. CASE Connect
  BY <1>0, <1>3 DEF Connect, AttemptsOnce, Attempts, TypeOK
<1>4. CASE ConnectFails
  BY <1>0, <1>4 DEF ConnectFails, AttemptFails, Return, AttemptsOnce, Attempts, TypeOK
<1>5. CASE ReadToken
  BY <1>0, <1>5 DEF ReadToken, Refused, Return, AttemptsOnce, Attempts, TypeOK
<1>6. CASE AskStatus
  BY <1>0, <1>6 DEF AskStatus, Refused, Return, AttemptFails, AttemptsOnce, Attempts, TypeOK
<1>7. CASE Hello
  BY <1>0, <1>7 DEF Hello, Refused, Return, AttemptFails, AttemptsOnce, Attempts, TypeOK
<1>8. CASE Proof
  BY <1>0, <1>8 DEF Proof, Refused, Return, AttemptFails, Verifies, AttemptsOnce, Attempts,
     TypeOK
<1>9. CASE Sleep
  BY <1>0, <1>9 DEF Sleep, AttemptsOnce, Attempts, TypeOK
<1>10. CASE RequestTooLong
  BY <1>0, <1>10 DEF RequestTooLong, Return, AttemptsOnce, Attempts, TypeOK
<1>11. CASE Send
  BY <1>0, <1>11 DEF Send, AttemptsOnce, Attempts, TypeOK
<1>12. CASE ReceiveLine
  BY <1>0, <1>12 DEF ReceiveLine, Return, AttemptsOnce, Attempts, TypeOK
<1>13. CASE ReceiveTooLong
  BY <1>0, <1>13 DEF ReceiveTooLong, Return, AttemptsOnce, Attempts, TypeOK
<1>14. CASE ReceiveTorn
  BY <1>0, <1>14 DEF ReceiveTorn, Return, AttemptsOnce, Attempts, TypeOK
<1>15. CASE ConnectionLost
  BY <1>0, <1>15 DEF ConnectionLost, Return, AttemptsOnce, Attempts, TypeOK
<1>16. CASE Execute
  BY <1>0, <1>16 DEF Execute, AttemptsOnce, Attempts, TypeOK
<1>17. CASE Reply
  BY <1>0, <1>17 DEF Reply, Line, AttemptsOnce, Attempts, TypeOK
<1>18. CASE Crash
  BY <1>0, <1>18 DEF Crash, Line, AttemptsOnce, Attempts, TypeOK
<1>19. CASE Restart
  BY <1>0, <1>19 DEF Restart, AttemptsOnce, Attempts, TypeOK
<1>20. CASE TokenSpoilt
  BY <1>0, <1>20 DEF TokenSpoilt, AttemptsOnce, Attempts, TypeOK
<1> QED BY <1>1, <1>2, <1>3, <1>4, <1>5, <1>6, <1>7, <1>8, <1>9, <1>10, <1>11, <1>12,
           <1>13, <1>14, <1>15, <1>16, <1>17, <1>18, <1>19, <1>20 DEF Next,
           ClientStep

(* A daemon restarts only after its connections are dead, so a live one    *)
(* has the token of the daemon at its other end.                           *)
LEMMA TokenStep ==
    ASSUME IInv, Next PROVE TokenInStep'
<1> USE DEF IInv, daemonVars, authVars, callVars, counts
<1>1. ASSUME NEW v \in {"retry", "once"}, Begin(v) PROVE TokenInStep'
  BY <1>1 DEF Begin, TokenInStep, Fits, InConversation, TypeOK
<1>2. CASE EnsureConnected
  BY <1>2 DEF EnsureConnected, Return, TokenInStep, Fits, InConversation, TypeOK
<1>3. CASE Connect
  BY <1>3 DEF Connect, TokenInStep, Fits, InConversation, TypeOK
<1>4. CASE ConnectFails
  BY <1>4 DEF ConnectFails, AttemptFails, Return, TokenInStep, Fits, InConversation, TypeOK
<1>5. CASE ReadToken
  BY <1>5 DEF ReadToken, Refused, Return, TokenInStep, Fits, InConversation, TypeOK
<1>6. CASE AskStatus
  BY <1>6 DEF AskStatus, Refused, Return, AttemptFails, TokenInStep, Fits, InConversation,
     TypeOK
<1>7. CASE Hello
  BY <1>7 DEF Hello, Refused, Return, AttemptFails, TokenInStep, Fits, InConversation, TypeOK
<1>8. CASE Proof
  BY <1>8 DEF Proof, Refused, Return, AttemptFails, Verifies, TokenInStep, Fits,
     InConversation, TypeOK
<1>9. CASE Sleep
  BY <1>9 DEF Sleep, TokenInStep, Fits, InConversation, TypeOK
<1>10. CASE RequestTooLong
  BY <1>10 DEF RequestTooLong, Return, TokenInStep, Fits, InConversation, TypeOK
<1>11. CASE Send
  BY <1>11 DEF Send, TokenInStep, Fits, InConversation, TypeOK
<1>12. CASE ReceiveLine
  BY <1>12 DEF ReceiveLine, Return, TokenInStep, Fits, InConversation, TypeOK
<1>13. CASE ReceiveTooLong
  BY <1>13 DEF ReceiveTooLong, Return, TokenInStep, Fits, InConversation, TypeOK
<1>14. CASE ReceiveTorn
  BY <1>14 DEF ReceiveTorn, Return, TokenInStep, Fits, InConversation, TypeOK
<1>15. CASE ConnectionLost
  BY <1>15 DEF ConnectionLost, Return, TokenInStep, Fits, InConversation, TypeOK
<1>16. CASE Execute
  BY <1>16 DEF Execute, TokenInStep, Fits, InConversation, TypeOK
<1>17. CASE Reply
  BY <1>17 DEF Reply, Line, TokenInStep, Fits, InConversation, TypeOK
<1>18. CASE Crash
  BY <1>18 DEF Crash, Line, TokenInStep, Fits, InConversation, TypeOK
<1>19. CASE Restart
  <2>1. inner # "live" /\ inner' = inner /\ pc' = pc /\ proof' = proof
    BY <1>19 DEF Restart, InConversation
  <2>2. key' \in Nat /\ key' >= 1
    BY <1>19 DEF Restart, TokenInStep, TypeOK
  <2>3. ~misfit' => Fits(token', protocol', key')
    BY <1>19 DEF Restart
  <2> QED BY <2>1, <2>2, <2>3 DEF TokenInStep
<1>20. CASE TokenSpoilt
  BY <1>20 DEF TokenSpoilt, TokenInStep, Fits, InConversation, TypeOK
<1> QED BY <1>1, <1>2, <1>3, <1>4, <1>5, <1>6, <1>7, <1>8, <1>9, <1>10, <1>11, <1>12,
           <1>13, <1>14, <1>15, <1>16, <1>17, <1>18, <1>19, <1>20 DEF Next,
           ClientStep

(* A refusal is recorded when the token and the daemon do not fit, and is  *)
(* never taken back.                                                       *)
LEMMA RefusalStep ==
    ASSUME IInv, Next PROVE RefusalKept'
<1> USE DEF IInv, daemonVars, authVars, callVars, counts
<1>1. ASSUME NEW v \in {"retry", "once"}, Begin(v) PROVE RefusalKept'
  BY <1>1 DEF Begin, RefusalKept, TokenInStep, Fits, TypeOK
<1>2. CASE EnsureConnected
  BY <1>2 DEF EnsureConnected, Return, RefusalKept, TokenInStep, Fits, TypeOK
<1>3. CASE Connect
  BY <1>3 DEF Connect, RefusalKept, TokenInStep, Fits, TypeOK
<1>4. CASE ConnectFails
  BY <1>4 DEF ConnectFails, AttemptFails, Return, RefusalKept, TokenInStep, Fits, TypeOK
<1>5. CASE ReadToken
  BY <1>5 DEF ReadToken, Refused, Return, Absent, Invalid, RefusalKept, TokenInStep, Fits,
     TypeOK
<1>6. CASE AskStatus
  BY <1>6 DEF AskStatus, Refused, Return, AttemptFails, Absent, RefusalKept, TokenInStep,
     Fits, TypeOK
<1>7. CASE Hello
  BY <1>7 DEF Hello, Refused, Return, AttemptFails, RefusalKept, TokenInStep, Fits, TypeOK
<1>8. CASE Proof
  BY <1>8 DEF Proof, Refused, Return, AttemptFails, Verifies, RefusalKept, TokenInStep, Fits,
     TypeOK
<1>9. CASE Sleep
  BY <1>9 DEF Sleep, RefusalKept, TokenInStep, Fits, TypeOK
<1>10. CASE RequestTooLong
  BY <1>10 DEF RequestTooLong, Return, RefusalKept, TokenInStep, Fits, TypeOK
<1>11. CASE Send
  BY <1>11 DEF Send, RefusalKept, TokenInStep, Fits, TypeOK
<1>12. CASE ReceiveLine
  BY <1>12 DEF ReceiveLine, Return, RefusalKept, TokenInStep, Fits, TypeOK
<1>13. CASE ReceiveTooLong
  BY <1>13 DEF ReceiveTooLong, Return, RefusalKept, TokenInStep, Fits, TypeOK
<1>14. CASE ReceiveTorn
  BY <1>14 DEF ReceiveTorn, Return, RefusalKept, TokenInStep, Fits, TypeOK
<1>15. CASE ConnectionLost
  BY <1>15 DEF ConnectionLost, Return, RefusalKept, TokenInStep, Fits, TypeOK
<1>16. CASE Execute
  BY <1>16 DEF Execute, RefusalKept, TokenInStep, Fits, TypeOK
<1>17. CASE Reply
  BY <1>17 DEF Reply, Line, RefusalKept, TokenInStep, Fits, TypeOK
<1>18. CASE Crash
  BY <1>18 DEF Crash, Line, RefusalKept, TokenInStep, Fits, TypeOK
<1>19. CASE Restart
  BY <1>19 DEF Restart, RefusalKept, TokenInStep, Fits, TypeOK
<1>20. CASE TokenSpoilt
  BY <1>20 DEF TokenSpoilt, RefusalKept, TokenInStep, Fits, TypeOK
<1> QED BY <1>1, <1>2, <1>3, <1>4, <1>5, <1>6, <1>7, <1>8, <1>9, <1>10, <1>11, <1>12,
           <1>13, <1>14, <1>15, <1>16, <1>17, <1>18, <1>19, <1>20 DEF Next,
           ClientStep

LEMMA InitIInv == Init => IInv
<1> SUFFICES ASSUME Init PROVE IInv
  OBVIOUS
<1>1. TypeOK
  <2>1. token \in Nat /\ proof \in Nat
    BY DEF Init, Absent
  <2>2. inbox \in Seq([call : Nat, line : {"whole", "long", "torn"}])
    BY DEF Init
  <2>3. misfit \in BOOLEAN /\ auth_failure \in BOOLEAN
    BY Zenon DEF Init
  <2>4. elapsed \in 0..Budget
    BY ReconnectAssumption DEF Init
  <2> QED BY <2>1, <2>2, <2>3, <2>4 DEF Init, TypeOK
<1>2. InConversation /\ ExecutedOnce
  BY DEF Init, InConversation, Inboxes, RepliesMatch, ExecutedOnce
<1>3. Attempts /\ AttemptsOnce
  BY ReconnectAssumption, FirstLoops DEF Init, Attempts, AttemptsOnce
<1>4. TokenInStep /\ RefusalKept
  BY DEF Init, TokenInStep, RefusalKept, Fits, Absent
<1> QED BY <1>1, <1>2, <1>3, <1>4 DEF IInv

LEMMA StepIInv == IInv /\ [Next]_vars => IInv'
<1>1. ASSUME IInv, Next PROVE IInv'
  BY <1>1, TypeStep, ConversationStep, ExecutedStep, AttemptsStep, AttemptsOnceStep,
     TokenStep, RefusalStep DEF IInv
<1>2. ASSUME IInv, UNCHANGED vars PROVE IInv'
  BY <1>2 DEF vars, IInv, TypeOK, InConversation, Inboxes, Line, RepliesMatch, ExecutedOnce,
     Attempts, AttemptsOnce, TokenInStep, RefusalKept
<1> QED BY <1>1, <1>2

LEMMA Invariance == Spec => []IInv
BY InitIInv, StepIInv, PTL DEF Spec

------------------------------------------------------------------------------
(* The types of the client, of its connection and of the daemon it talks   *)
(* to; the sleeps of a connect loop never go beyond the budget.            *)
THEOREM TypeCorrect == Spec => []TypeOK
BY Invariance, PTL DEF IInv

(* no_retry_on_io!: a mutating verb is executed at most once, wherever the *)
(* connection breaks and however often the daemon crashes.                 *)
THEOREM ExecutedAtMostOnce == Spec => []AtMostOnce
<1>1. IInv => AtMostOnce
  BY DEF IInv, ExecutedOnce, AtMostOnce
<1> QED BY <1>1, Invariance, PTL

(* round_trip: a reply that a call returns is the reply of that call.      *)
THEOREM RepliesAreOwn == Spec => []RepliesMatch
<1>1. IInv => RepliesMatch
  BY DEF IInv, InConversation
<1> QED BY <1>1, Invariance, PTL

(* ensure_connected: what a call costs is bounded by the budget and by how *)
(* often it loses its connection.                                          *)
THEOREM LoopsAreBounded == Spec => []LoopsBounded
<1>1. IInv => LoopsBounded
  BY DEF IInv, Attempts, AttemptsOnce, InLoops, LoopsBounded
<1> QED BY <1>1, Invariance, PTL

(* connect_auth reads the token after the socket is connected, so that no  *)
(* restart of the daemon makes the client record a refusal.                *)
THEOREM RestartsRefuseNobody == Spec => []NoFalseRefusal
<1>1. IInv => NoFalseRefusal
  BY DEF IInv, RefusalKept, NoFalseRefusal
<1> QED BY <1>1, Invariance, PTL

(* handshake: no verb is sent on a connection that its daemon would not    *)
(* have accepted.                                                          *)
THEOREM OnlyProvenUsed == Spec => []ProvenInUse
<1>1. IInv => ProvenInUse
  BY DEF IInv, TokenInStep, ProvenInUse
<1> QED BY <1>1, Invariance, PTL

(* auth_failure is never cleared: after one refusal no call succeeds.      *)
THEOREM RefusalsAreFinal == Spec => RefusalIsFinal
<1>1. IInv => (result = "auth" => auth_failure)
  BY DEF IInv, RefusalKept
<1>2. IInv => (auth_failure => result \in {"none", "auth"})
  BY DEF IInv, RefusalKept
<1>3. IInv /\ auth_failure /\ [Next]_vars => auth_failure'
  <2> SUFFICES ASSUME IInv, auth_failure, Next PROVE auth_failure'
    BY DEF vars
  <2>1. pc \in {"idle", "ensure"} /\ inbox = << >> /\ work = "none"
    BY DEF IInv, RefusalKept, InConversation
  <2> QED
    BY <2>1 DEF Next, ClientStep, Begin, EnsureConnected, Connect, ConnectFails, ReadToken,
       AskStatus, Hello, Proof, Sleep, RequestTooLong, Send, ReceiveLine, ReceiveTooLong,
       ReceiveTorn, ConnectionLost, Execute, Reply, Crash, Restart, TokenSpoilt
<1> QED BY <1>1, <1>2, <1>3, Invariance, PTL DEF Spec, RefusalIsFinal
==============================================================================
