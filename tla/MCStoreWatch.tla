---------------------------- MODULE MCStoreWatch ----------------------------
(* StoreWatch with one bucket, one stream set and one stream in it. *)
EXTENDS StoreWatch

MCNames == {"b", "s", "f"}
MCDirs == {<<"b">>, <<"b", "s">>}
MCFiles == {<<"b", "s", "f">>}

=============================================================================
