---------------------------- MODULE MCIngestJob ----------------------------
(* The instance of IngestJob that TLC checks: two coins that are accepted and *)
(* one that is not, pages of two entries, and prices that stay, fall, are     *)
(* zero and are missing.                                                      *)
EXTENDS IngestJob, TLC

CONSTANTS a, b, x

MCFeeds == {<<a, x, b>>}
MCQuotes == {(a :> 4) @@ (b :> Null), (a :> 0) @@ (b :> Null)}
MCReplies == {Failed, Unreadable, [largest |-> 0, total |-> 0],
              [largest |-> 3, total |-> 4]}
=============================================================================
