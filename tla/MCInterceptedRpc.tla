-------------------------- MODULE MCInterceptedRpc --------------------------
EXTENDS InterceptedRpc

\* Two owned interceptors with hooks of both directions, and a raw one that a
\* chain may hold twice.
MCCapabilities ==
    [i \in Interceptors |->
        CASE i = "auth" -> {"Start", "Cancel", "Finished"}
          [] i = "meta" -> {"InitialMetadata", "TrailingMetadata", "WritesDone", "Cancel"}
          [] i = "log"  -> {"Start", "WriteMessage", "MessageReceived", "Finished"}]
=============================================================================
