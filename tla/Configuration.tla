---------------------------- MODULE Configuration ---------------------------
(***************************************************************************)
(* How a Client comes to its settings, and what it says of itself with     *)
(* every request.  An option is the part of the config it overwrites; New  *)
(* applies the options in their order, and its defaults to what is still   *)
(* unset.  A setting that is absent is the empty string or zero, as in the *)
(* code, so an option that sets the zero value sets nothing.               *)
(***************************************************************************)
EXTENDS Integers, Sequences

ProductionURL == "api.wise.com"
SandboxURL == "api.wise-sandbox.com"
NoToken == 0

WithSandbox == [baseURL |-> SandboxURL]
WithBaseURL(url) == [baseURL |-> url]
WithCorrelationID(id) == [correlationID |-> id]
WithRetry(maxRetries) == [maxRetries |-> maxRetries]
WithSCAApprovalToken(token) == [scaApprovalToken |-> token]

DefaultConfig ==
  [baseURL |-> "", correlationID |-> "", scaApprovalToken |-> NoToken, maxRetries |-> 0]

Apply(config, option) ==
  [s \in DOMAIN config |-> IF s \in DOMAIN option THEN option[s] ELSE config[s]]

\* The config as each of the options leaves it.
After(options) ==
  LET after[n \in 0..Len(options)] ==
        IF n = 0 THEN DefaultConfig ELSE Apply(after[n - 1], options[n])
  IN  after

New(options) ==
  LET config == After(options)[Len(options)] IN
    [baseURL          |-> IF config.baseURL = "" THEN ProductionURL ELSE config.baseURL,
     correlationID    |-> config.correlationID,
     scaApprovalToken |-> config.scaApprovalToken,
     maxAttempts      |-> (IF config.maxRetries > 0 THEN config.maxRetries ELSE 3) + 1]

\* Mutant: the client-wide correlation ID goes first.
SetHeadersClientFirst(client, requestID) ==
  [baseURL       |-> client.baseURL,
   correlationID |-> IF client.correlationID = "" THEN requestID ELSE client.correlationID,
   approval      |-> client.scaApprovalToken]

\* Where a request goes and what it carries: the correlation ID of the context,
\* else the client's; the approval token on every request of the client.
SetHeaders(client, requestID) ==
  [baseURL       |-> client.baseURL,
   correlationID |-> IF requestID = "" THEN client.correlationID ELSE requestID,
   approval      |-> client.scaApprovalToken]
=============================================================================
