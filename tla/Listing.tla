------------------------------ MODULE Listing ------------------------------
(***************************************************************************)
(* One reading of the coin listing: iter_coins_pages                       *)
(* (clients/pump_api.py) as ingest_latest_coins (ingestion/service.py)     *)
(* drives it.  The server lists coins by last trade, newest first, and     *)
(* pages are addressed by their offset, while coins go on being traded,    *)
(* launched and delisted between two requests.  The retries of a request   *)
(* repeat the same offset: they are one request here.                      *)
(***************************************************************************)
EXTENDS Integers, Sequences

CONSTANTS
  Coins,        \* entries the server may list
  Nameless,     \* those whose "mint" is missing or empty
  PageSize,     \* settings.ingest_page_size
  MaxPages      \* settings.ingest_max_pages

ASSUME ListingAssumption ==
  /\ Nameless \subseteq Coins
  /\ PageSize \in Nat \ {0}
  /\ MaxPages \in Nat \ {0}

VARIABLES
  feed,         \* the server's listing, newest trade first
  steady,       \* history: coins listed since the reading began that have not
                \* moved towards the front
  fpc,          \* where the reading is
  offset,       \* iter_coins_pages' offset
  pages,        \* iter_coins_pages' pages
  raw,          \* the keys of raw_coins
  whole         \* history: the reading ended because the listing did

server == <<feed, steady>>
client == <<fpc, offset, pages, raw, whole>>
listVars == <<feed, steady, fpc, offset, pages, raw, whole>>

ReadingPhases == {"idle", "price", "page", "fetched", "failed"}

Behind(i) == {feed[j] : j \in i .. Len(feed)}
Smaller(a, b) == IF a < b THEN a ELSE b

ListInit ==
  /\ feed = <<>>
  /\ steady = {}
  /\ fpc = "idle"
  /\ offset = 0
  /\ pages = 0
  /\ raw = {}
  /\ whole = FALSE

-----------------------------------------------------------------------------
(* The server, between two requests *)

\* A trade brings the i-th coin to the front; the ones before it move back.
Trade(i) ==
  /\ fpc = "page"
  /\ i \in 2 .. Len(feed)
  /\ feed' = [j \in 1 .. Len(feed) |->
       IF j = 1 THEN feed[i] ELSE IF j <= i THEN feed[j - 1] ELSE feed[j]]
  /\ steady' = steady \ {feed[i]}
  /\ UNCHANGED client

\* A new coin appears at the front.
Launch(c) ==
  /\ fpc = "page"
  /\ \A j \in 1 .. Len(feed) : feed[j] # c
  /\ feed' = [j \in 1 .. Len(feed) + 1 |-> IF j = 1 THEN c ELSE feed[j - 1]]
  /\ UNCHANGED steady /\ UNCHANGED client

\* A coin is delisted; the ones behind it move up.
Delist(i) ==
  /\ fpc = "page"
  /\ i \in 1 .. Len(feed)
  /\ feed' = [j \in 1 .. Len(feed) - 1 |->
       IF j < i THEN feed[j] ELSE feed[j + 1]]
  /\ steady' = steady \ Behind(i)
  /\ UNCHANGED client

ServerMoves ==
  \/ \E i \in DOMAIN feed : Trade(i) \/ Delist(i)
  \/ \E c \in Coins : Launch(c)

-----------------------------------------------------------------------------
(* The client *)

\* A job opens a client; whatever the server lists then is what it may miss.
BeginReading(listed) ==
  /\ fpc = "idle"
  /\ fpc' = "price"
  /\ feed' = listed
  /\ steady' = {listed[i] : i \in 1 .. Len(listed)}
  /\ offset' = 0 /\ pages' = 0 /\ raw' = {} /\ whole' = FALSE

\* get_sol_price comes first; without a price the job fails.
SolPrice ==
  /\ fpc = "price"
  /\ fpc' = "page"
  /\ UNCHANGED <<offset, pages, raw, whole>> /\ UNCHANGED server

\* The entries at the offset: a full page, the rest, or nothing.
BatchSize == IF offset < Len(feed) THEN Smaller(PageSize, Len(feed) - offset)
             ELSE 0
Batch == {feed[j] : j \in offset + 1 .. offset + BatchSize}

\* Slip: the offset of the next page is one too far.
PageOffByOne ==
  /\ fpc = "page"
  /\ raw' = raw \cup (Batch \ Nameless)
  /\ pages' = IF BatchSize = 0 THEN pages ELSE pages + 1
  /\ offset' = offset + BatchSize + 1
  /\ whole' = (BatchSize < PageSize)
  /\ fpc' = IF BatchSize < PageSize \/ pages' = MaxPages THEN "fetched"
            ELSE "page"
  /\ UNCHANGED server

\* One page.  An empty or a short one is the end of the listing; ingest_max_pages
\* is where the client stops asking.
Page ==
  /\ fpc = "page"
  /\ raw' = raw \cup (Batch \ Nameless)
  /\ pages' = IF BatchSize = 0 THEN pages ELSE pages + 1
  /\ offset' = offset + BatchSize
  /\ whole' = (BatchSize < PageSize)
  /\ fpc' = IF BatchSize < PageSize \/ pages' = MaxPages THEN "fetched"
            ELSE "page"
  /\ UNCHANGED server

\* A 404, or a body that is no list, ends the iteration like an empty page.
StopsEarly ==
  /\ fpc = "page"
  /\ fpc' = "fetched"
  /\ UNCHANGED <<offset, pages, raw, whole>> /\ UNCHANGED server

\* Any other status after the last retry, a transport error, or no price raises.
ReadingFails ==
  /\ fpc \in {"price", "page"}
  /\ fpc' = "failed"
  /\ UNCHANGED <<offset, pages, raw, whole>> /\ UNCHANGED server

ClientSteps == SolPrice \/ Page \/ StopsEarly \/ ReadingFails

\* The client is closed; its job uses what was read, or drops it.
EndReading ==
  /\ fpc \in {"fetched", "failed"}
  /\ fpc' = "idle"
  /\ feed' = <<>> /\ steady' = {} /\ raw' = {}
  /\ offset' = 0 /\ pages' = 0 /\ whole' = FALSE

ListNext ==
  \/ \E listed \in Seq(Coins) : BeginReading(listed)
  \/ ServerMoves
  \/ ClientSteps
  \/ EndReading

ListSpec == ListInit /\ [][ListNext]_listVars

-----------------------------------------------------------------------------
(* Properties *)

\* A reading that reaches the end of the listing misses no coin that stayed
\* where it was or fell back: trades and launches between two pages push coins
\* onto a later page, where they are seen again and collapse into one entry of
\* raw_coins; only a coin that moves towards the front (traded, or behind a
\* delisted one) can slip past the offset (iter_coins_pages, line 112).
OnlyMoversAreMissed ==
  fpc = "fetched" /\ whole => steady \subseteq raw \cup Nameless
=============================================================================
