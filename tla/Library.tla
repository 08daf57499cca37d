---------------------------- MODULE Library ----------------------------
(***************************************************************************)
(* What the knowledge base promises its readers about the versions of a     *)
(* document: a version is published once, publishing it makes it the        *)
(* current version of one document, and nothing else changes what is        *)
(* current, so a version that was replaced never comes back.  How uploads   *)
(* run, and what they leave in PostgreSQL and Milvus, is module Ingestion.  *)
(***************************************************************************)
CONSTANTS
  Documents,
  Versions,
  NoVersion,   \* the current version of a document not published yet
  Seeds        \* versions published before the behaviour starts, each the
               \* first version of the document of the same name

VARIABLES
  current,     \* current[d]: the current version of document d
  published    \* the versions published so far

Init ==
  /\ published = Seeds
  /\ current = [d \in Documents |-> IF d \in Seeds THEN d ELSE NoVersion]

Publish(d, v) ==
  /\ v \notin published
  /\ published' = published \cup {v}
  /\ current' = [current EXCEPT ![d] = v]

Next == \E d \in Documents, v \in Versions : Publish(d, v)

Spec == Init /\ [][Next]_<<current, published>>
=============================================================================
