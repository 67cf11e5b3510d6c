--------------------------- MODULE MCDeferredTools ---------------------------
(***************************************************************************)
(* TLC instances of DeferredTools: one visible tool, two tools of one      *)
(* deferred namespace around one of another, tool_search amid them, and a  *)
(* query for each namespace.                                               *)
(***************************************************************************)
EXTENDS DeferredTools

MCDefinitions ==
    <<"memory_write", "mail_send", "artifact_read", "tool_search", "memory_search">>
MCDeferredNames == {"memory_write", "memory_search", "artifact_read"}
MCNamespaceOf ==
    [t \in {MCDefinitions[i] : i \in DOMAIN MCDefinitions} |->
        CASE t \in {"memory_write", "memory_search"} -> "memory"
          [] t = "artifact_read" -> "artifact"
          [] t = "mail_send"     -> "mail"
          [] t = "tool_search"   -> "tool"]
MCQueries == {"recall", "file", "nonsense"}
MCHits ==
    [q \in MCQueries |->
        CASE q = "recall"   -> {"memory_search"}
          [] q = "file"     -> {"artifact_read", "mail_send"}
          [] q = "nonsense" -> {}]

=============================================================================
