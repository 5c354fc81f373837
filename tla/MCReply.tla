------------------------------ MODULE MCReply -------------------------------
(* A small instance of Reply for TLC: two providers, two user rules.       *)
EXTENDS Reply

MCRules     == <<[globs |-> <<Word("ls"), Word("ls")>>, action |-> "ask"],
                 [globs |-> <<Word("ls"), Any>>, action |-> "auto"]>>
MCDenyTable == {<<Word("sudo")>>}
MCReadOnly  == {<<"ls">>}
MCMutating  == [p \in {<<"ls">>} |-> {}]
MCQuoteOf   == [t \in {"escaped double quote"} |-> "double quote"]
MCChain     == <<"openai", "anthropic">>

=============================================================================
