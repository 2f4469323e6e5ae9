---------------------------- MODULE MCReactLoop ----------------------------
(* Small instances of ReactLoop.                                           *)
EXTENDS ReactLoop

Call(type, args, policy) == [type |-> type, args |-> args, policy |-> policy]

(* Two searches, a database query, and one call of each other verdict.     *)
MCActions ==
  { Call("rag_search", "a", "allow"), Call("rag_search", "b", "allow"),
    Call("db_query", "a", "allow"), Call("other", "b", "deny"),
    Call("db_query", "c", "needs_approval"), Call("rag_search", "c", "needs_clarification") }

MCSearch == { Call("rag_search", "a", "allow") }

=============================================================================
