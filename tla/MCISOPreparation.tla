-------------------------- MODULE MCISOPreparation --------------------------
(* ISOPreparation on small instances.                                      *)
EXTENDS ISOPreparation, TLC

CONSTANTS u1, u2    \* the URLs

Hashed(url) == [type |-> "url", url |-> url, named |-> FALSE]

\* Two URLs with paths of their own, one of them with a chosen name, no URL,
\* and an ISO in the datastore.
SomeSpecs == {Hashed(u1), Hashed(u2), [Hashed(u1) EXCEPT !.named = TRUE],
              Hashed(NoUrl), [Hashed(NoUrl) EXCEPT !.type = "datastore"]}

AllKinds == {"list", "search", "download", "cut", "create", "statusWrite", "crash",
             "edit", "other", "loseFiles", "loseVM"}
=============================================================================
