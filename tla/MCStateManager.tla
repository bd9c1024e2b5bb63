--------------------------- MODULE MCStateManager ---------------------------
(* StateManager on small instances. *)
EXTENDS StateManager, TLC

MCLetters == {"f", "o"}
MCNames == {<<"f">>, <<"f", "o">>}

MCInfos ==
  {[type |-> "STORE_CHANGE", paths |-> {<<Slash>>}],
   [type |-> "STORE_CHANGE", paths |-> {BucketPath(<<"f">>), StreamsetPath(<<"f", "o">>, <<"f">>)}],
   [type |-> "ENVELOPE", paths |-> {StreamPath(<<"f">>, <<"f">>, <<"f", "o">>)}]}

MCFiles == {StreamPath(<<"f">>, <<"f">>, <<"f", "o", Extension>>)}

=============================================================================
