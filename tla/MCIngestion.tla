-------------------------- MODULE MCIngestion --------------------------
(* Ingestion with one article in the library and three uploads: enough for   *)
(* two uploads to race for a code or a document while a third one fails.     *)
EXTENDS Ingestion

CONSTANTS a, u1, u2, u3, k1, k2

MCUploads  == {a, u1, u2, u3}
MCArticles == {a}
MCFaulty   == {u1}
MCCodes    == {k1, k2}
=============================================================================
