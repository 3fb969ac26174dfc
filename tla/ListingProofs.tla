--------------------------- MODULE ListingProofs ---------------------------
(***************************************************************************)
(* Theorems about Listing: a reading that reaches the end of the listing   *)
(* has every coin that did not move towards the front, for any coins, page *)
(* size and number of pages, and whatever the server does between pages.   *)
(***************************************************************************)
EXTENDS Listing, TLAPS

\* A function on 1 .. n is a sequence of length n: how the feed after a move is
\* given (Trade, Launch, Delist).
LEMMA FunctionIsSequence ==
  ASSUME NEW S, NEW n \in Nat, NEW f \in [1 .. n -> S]
  PROVE  f \in Seq(S) /\ Len(f) = n
  OBVIOUS

LEMMA EmptyIsSequence == ASSUME NEW S PROVE <<>> \in Seq(S)
  OBVIOUS

\* What is known of a steady coin: it is listed, and if the offset has passed it
\* then it has been collected, unless it has no name (iter_coins_pages).
Passed(c) ==
  \E j \in 1 .. Len(feed) : /\ feed[j] = c
                            /\ j <= offset => c \in raw \cup Nameless

Shape ==
  /\ feed \in Seq(Coins)
  /\ steady \subseteq Coins
  /\ fpc \in ReadingPhases
  /\ offset \in Nat
  /\ pages \in Nat
  /\ raw \subseteq Coins \ Nameless
  /\ whole \in BOOLEAN

Inv ==
  /\ Shape
  /\ fpc \in {"price", "page"} => whole = FALSE
  /\ fpc \in {"price", "page"} => \A c \in steady : Passed(c)
  /\ OnlyMoversAreMissed

\* Before the first request nothing is behind the offset.
LEMMA InitHolds == ListInit => Inv
<1> SUFFICES ASSUME ListInit PROVE Inv
  OBVIOUS
<1>1. feed \in Seq(Coins)
  BY EmptyIsSequence DEF ListInit
<1>2. Shape
  BY <1>1 DEF ListInit, Shape, ReadingPhases
<1> QED
  BY <1>2 DEF ListInit, Inv, OnlyMoversAreMissed

LEMMA BeginKeeps ==
  ASSUME Inv, NEW listing \in Seq(Coins), BeginReading(listing)
  PROVE  Inv'
<1>1. Shape'
  <2>1. listing \in [1 .. Len(listing) -> Coins]
    OBVIOUS
  <2>2. steady' \subseteq Coins
    BY <2>1 DEF BeginReading
  <2> QED
    BY <2>2 DEF Shape, BeginReading, ReadingPhases
<1>2. \A c \in steady' : Passed(c)'
  BY DEF BeginReading, Passed
<1> QED
  BY <1>1, <1>2 DEF Inv, BeginReading, OnlyMoversAreMissed

\* A trade moves every coin before the traded one back by one place.
LEMMA TradeKeeps ==
  ASSUME Inv, NEW i \in DOMAIN feed, Trade(i)
  PROVE  Inv'
<1> DEFINE n == Len(feed)
<1>1. /\ n \in Nat /\ feed \in [1 .. n -> Coins] /\ i \in 2 .. n
  BY DEF Inv, Shape, Trade
<1>2. feed' \in [1 .. n -> Coins]
  BY <1>1 DEF Trade
<1>3. feed' \in Seq(Coins) /\ Len(feed') = n
  BY <1>1, <1>2, FunctionIsSequence
<1>4. Shape'
  BY <1>3 DEF Inv, Shape, Trade, client
<1>5. ASSUME NEW c \in steady' PROVE Passed(c)'
  <2>1. c \in steady /\ c # feed[i]
    BY <1>5 DEF Trade
  <2>2. PICK j \in 1 .. n : feed[j] = c /\ (j <= offset => c \in raw \cup Nameless)
    BY <2>1 DEF Inv, Trade, Passed
  <2>3. j # i
    BY <2>1, <2>2
  <2> DEFINE k == IF j < i THEN j + 1 ELSE j
  <2>4. k \in 1 .. n /\ j <= k
    BY <1>1, <2>3
  <2>5. feed'[k] = c
    BY <1>1, <2>2, <2>3, <2>4 DEF Trade
  <2>6. k <= offset' => c \in raw' \cup Nameless
    BY <1>1, <2>2, <2>4 DEF Trade, client, Inv, Shape
  <2> QED
    BY <1>3, <2>4, <2>5, <2>6 DEF Passed
<1> QED
  BY <1>4, <1>5 DEF Inv, Trade, client, OnlyMoversAreMissed

LEMMA LaunchKeeps ==
  ASSUME Inv, NEW x \in Coins, Launch(x)
  PROVE  Inv'
<1> DEFINE n == Len(feed)
<1>1. n \in Nat /\ feed \in [1 .. n -> Coins]
  BY DEF Inv, Shape
<1>2. feed' \in [1 .. n + 1 -> Coins]
  BY <1>1 DEF Launch
<1>3. feed' \in Seq(Coins) /\ Len(feed') = n + 1
  BY <1>1, <1>2, FunctionIsSequence
<1>4. Shape'
  BY <1>3 DEF Inv, Shape, Launch, client
<1>5. ASSUME NEW c \in steady' PROVE Passed(c)'
  <2>1. PICK j \in 1 .. n : feed[j] = c /\ (j <= offset => c \in raw \cup Nameless)
    BY <1>5 DEF Inv, Launch, Passed
  <2>2. j + 1 \in 1 .. n + 1 /\ feed'[j + 1] = c
    BY <1>1, <2>1 DEF Launch
  <2>3. j + 1 <= offset' => c \in raw' \cup Nameless
    BY <1>1, <2>1 DEF Launch, client, Inv, Shape
  <2> QED
    BY <1>3, <2>2, <2>3 DEF Passed
<1> QED
  BY <1>4, <1>5 DEF Inv, Launch, client, OnlyMoversAreMissed

\* A delisting moves only coins that are no longer steady.
LEMMA DelistKeeps ==
  ASSUME Inv, NEW i \in DOMAIN feed, Delist(i)
  PROVE  Inv'
<1> DEFINE n == Len(feed)
<1>1. n \in Nat /\ feed \in [1 .. n -> Coins] /\ i \in 1 .. n
  BY DEF Inv, Shape, Delist
<1>2. n - 1 \in Nat /\ feed' \in [1 .. n - 1 -> Coins]
  BY <1>1 DEF Delist
<1>3. feed' \in Seq(Coins) /\ Len(feed') = n - 1
  BY <1>1, <1>2, FunctionIsSequence
<1>4. Shape'
  BY <1>3 DEF Inv, Shape, Delist, client
<1>5. ASSUME NEW c \in steady' PROVE Passed(c)'
  <2>1. c \in steady /\ c \notin Behind(i)
    BY <1>5 DEF Delist
  <2>2. PICK j \in 1 .. n : feed[j] = c /\ (j <= offset => c \in raw \cup Nameless)
    BY <2>1 DEF Inv, Delist, Passed
  <2>3. j < i
    BY <1>1, <2>1, <2>2 DEF Behind
  <2>4. j \in 1 .. n - 1 /\ feed'[j] = c
    BY <1>1, <2>2, <2>3 DEF Delist
  <2>5. j <= offset' => c \in raw' \cup Nameless
    BY <2>2 DEF Delist, client
  <2> QED
    BY <1>3, <2>4, <2>5 DEF Passed
<1> QED
  BY <1>4, <1>5 DEF Inv, Delist, client, OnlyMoversAreMissed

\* A page collects what the offset passes; a short page passes everything.
LEMMA PageKeeps ==
  ASSUME Inv, Page
  PROVE  Inv'
<1> DEFINE n == Len(feed)
<1>1. n \in Nat /\ feed \in [1 .. n -> Coins] /\ offset \in Nat
  BY DEF Inv, Shape
<1>2. BatchSize \in Nat /\ (offset < n => offset + BatchSize <= n)
  BY <1>1, ListingAssumption DEF BatchSize, Smaller
<1>3. Batch \subseteq Coins
  <2>1. ASSUME NEW j \in offset + 1 .. offset + BatchSize
        PROVE  j \in 1 .. n
    BY <1>1, <1>2, <2>1 DEF BatchSize
  <2> QED
    BY <1>1, <2>1 DEF Batch
<1>4. Shape'
  BY <1>1, <1>2, <1>3 DEF Inv, Shape, Page, server, ReadingPhases
<1>5. ASSUME NEW c \in steady PROVE Passed(c)'
  <2>1. PICK j \in 1 .. n : feed[j] = c /\ (j <= offset => c \in raw \cup Nameless)
    BY <1>5 DEF Inv, Page, Passed
  <2>2. ASSUME j <= offset' PROVE c \in raw' \cup Nameless
    <3>1. CASE j <= offset
      BY <2>1, <3>1 DEF Page
    <3>2. CASE j > offset
      <4>1. j \in offset + 1 .. offset + BatchSize
        BY <1>1, <1>2, <2>2, <3>2 DEF Page
      <4>2. c \in Batch
        BY <2>1, <4>1 DEF Batch
      <4> QED
        BY <4>2 DEF Page
    <3> QED
      BY <1>1, <3>1, <3>2
  <2> QED
    BY <2>1, <2>2 DEF Passed, Page, server
<1>6. ASSUME whole', NEW c \in steady PROVE c \in raw' \cup Nameless
  <2>1. BatchSize < PageSize
    BY <1>6 DEF Page
  <2>2. offset + BatchSize >= n
    BY <1>1, <2>1, ListingAssumption DEF BatchSize, Smaller
  <2>3. offset' >= n
    BY <2>2 DEF Page
  <2>4. PICK j \in 1 .. n : j <= offset' => c \in raw' \cup Nameless
    BY <1>5 DEF Passed, Page, server
  <2>5. j <= offset'
    BY <1>1, <1>2, <2>3, <2>4 DEF Page
  <2> QED
    BY <2>4, <2>5
<1>7. fpc' # "fetched" => ~whole'
  BY DEF Page
<1>8. fpc' # "fetched" => whole' = FALSE
  BY <1>4, <1>7, Zenon DEF Shape
<1> QED
  BY <1>4, <1>5, <1>6, <1>8 DEF Inv, Page, server, OnlyMoversAreMissed, Shape

LEMMA OthersKeep ==
  ASSUME Inv, SolPrice \/ StopsEarly \/ ReadingFails \/ EndReading
  PROVE  Inv'
<1>1. CASE SolPrice
  BY <1>1 DEF Inv, Shape, Passed, SolPrice, server, ReadingPhases,
             OnlyMoversAreMissed
<1>2. CASE StopsEarly
  BY <1>2 DEF Inv, Shape, Passed, StopsEarly, server, ReadingPhases,
             OnlyMoversAreMissed
<1>3. CASE ReadingFails
  BY <1>3 DEF Inv, Shape, Passed, ReadingFails, server, ReadingPhases,
             OnlyMoversAreMissed
<1>4. CASE EndReading
  <2>1. feed' \in Seq(Coins)
    BY <1>4, EmptyIsSequence DEF EndReading
  <2>2. Shape'
    BY <1>4, <2>1 DEF Inv, Shape, EndReading, ReadingPhases
  <2> QED
    BY <1>4, <2>2 DEF Inv, EndReading, OnlyMoversAreMissed
<1> QED
  BY <1>1, <1>2, <1>3, <1>4

LEMMA NextKeeps == Inv /\ [ListNext]_listVars => Inv'
<1> SUFFICES ASSUME Inv, [ListNext]_listVars PROVE Inv'
  OBVIOUS
<1>1. CASE \E listing \in Seq(Coins) : BeginReading(listing)
  BY <1>1, BeginKeeps
<1>2. CASE ServerMoves
  BY <1>2, TradeKeeps, LaunchKeeps, DelistKeeps DEF ServerMoves
<1>3. CASE ClientSteps
  BY <1>3, PageKeeps, OthersKeep DEF ClientSteps
<1>4. CASE EndReading
  BY <1>4, OthersKeep
<1>5. CASE UNCHANGED listVars
  BY <1>5 DEF Inv, Shape, Passed, OnlyMoversAreMissed, listVars
<1> QED
  BY <1>1, <1>2, <1>3, <1>4, <1>5 DEF ListNext

\* Every complete reading has all the coins that did not move towards the front,
\* whatever is traded, launched or delisted while it goes on (iter_coins_pages).
THEOREM SteadyCoinsAreRead == ListSpec => []OnlyMoversAreMissed
<1>1. Inv => OnlyMoversAreMissed
  BY DEF Inv
<1> QED
  BY <1>1, InitHolds, NextKeeps, PTL DEF ListSpec
=============================================================================
