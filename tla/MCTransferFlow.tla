--------------------------- MODULE MCTransferFlow ---------------------------
EXTENDS TransferFlow

\* A sandbox client with a correlation ID of its own, one whose host is unset again,
\* and one whose host is set twice and whose ladder is short.
MCOptionLists ==
  {<<WithSandbox, WithCorrelationID("service")>>,
   <<WithSandbox, WithBaseURL("")>>,
   <<WithBaseURL("proxy"), WithSandbox, WithBaseURL("mock"), WithRetry(1)>>}
=============================================================================
