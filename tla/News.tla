-------------------------------- MODULE News --------------------------------
(***************************************************************************)
(* The news aggregator, keryxflow/oracle/feeds.py: signal generators ask   *)
(* it for the news of a coin, it fetches an RSS feed and CryptoPanic at    *)
(* once, and keeps one digest for a while.  It does not remember whose     *)
(* news that was, and a fetch that began earlier may end, and be kept,     *)
(* later than another.                                                     *)
(*                                                                         *)
(* Texts are left out; a story has a source, coins, a mood, and a date     *)
(* that can be read or not: an RSS story without one is dated when it is   *)
(* parsed, so that it is taken in however old it is.  The RSS feeds are    *)
(* one, whose oldest story wanted is settled when the fetch begins, while  *)
(* CryptoPanic's is when it answers.  The HTTP clients' timeouts are for   *)
(* each operation, and bound no fetch.                                     *)
(***************************************************************************)
EXTENDS Integers, FiniteSets, FiniteSetsExt

CONSTANTS
    Stories,    \* the stories, [source, coins, mood, dated]
    Readers,    \* coroutines that ask for news
    Coins,
    Lookback,   \* news_lookback_hours
    Ttl,        \* _cache_ttl
    Day,        \* 24 hours
    LastHour    \* bound on the clock

ASSUME NewsAssumption ==
    /\ \A s \in Stories : s.coins \subseteq Coins /\ (s.source = "cryptopanic" => s.dated)
    /\ Lookback \in Nat /\ Ttl \in Nat /\ Day \in Nat \ {0} /\ LastHour \in Nat

VARIABLES
    hour,       \* the clock
    printed,    \* story -> when it was published, or Unprinted
    reader,     \* reader -> the fetch it is in
    digest      \* _cache and _cache_time, and when its fetch began

newsVars == <<hour, printed, reader, digest>>

Unprinted == -1
Sources == {"rss", "cryptopanic"}
Idle == [busy |-> FALSE, coin |-> "none", since |-> 0, waits |-> {}, got |-> {}]
NoDigest == [items |-> {}, since |-> 0, at |-> -1]

NewsInit ==
    /\ hour = 0 /\ digest = NoDigest
    /\ printed = [s \in Stories |-> Unprinted] /\ reader = [r \in Readers |-> Idle]

-----------------------------------------------------------------------------
Item(s) == [story |-> s, date |-> IF s.dated THEN printed[s] ELSE hour]
StoriesOfAnyAge(source, from) ==                                \* with a bug
    {Item(s) : s \in {s \in Stories : s.source = source /\ printed[s] # Unprinted}}
StoriesOf(source, from) ==
    {i \in {Item(s) : s \in {s \in Stories : s.source = source /\ printed[s] # Unprinted}} :
        i.date >= from}

(* _is_cache_valid(): within the time to live of the end of its fetch.      *)
Cached == digest # NoDigest /\ hour - digest.at < Ttl

ServeCached(r, c) ==
    /\ ~reader[r].busy /\ Cached
    /\ reader' = [reader EXCEPT ![r] = [Idle EXCEPT !.coin = c, !.got = digest.items,
                                                    !.since = digest.since]]
    /\ UNCHANGED <<hour, printed, digest>>

BeginFetch(r, c) ==
    /\ ~reader[r].busy /\ ~Cached
    /\ reader' = [reader EXCEPT ![r] = [Idle EXCEPT !.busy = TRUE, !.coin = c, !.since = hour,
                                                    !.waits = Sources]]
    /\ UNCHANGED <<hour, printed, digest>>

(* A source that fails or gives up has no stories.                          *)
Answered(r, source, stories) ==
    /\ source \in reader[r].waits
    /\ \E got \in {stories, {}} :
          reader' = [reader EXCEPT ![r].waits = @ \ {source}, ![r].got = @ \cup got]
    /\ UNCHANGED <<hour, printed, digest>>

RssAnswers(r) == Answered(r, "rss", StoriesOf("rss", reader[r].since - Lookback))

PanicAnswers(r) ==
    Answered(r, "cryptopanic",
             {i \in StoriesOf("cryptopanic", hour - Lookback) : reader[r].coin \in i.story.coins})

About(items, c) == {i \in items : i.story.coins = {} \/ c \in i.story.coins}

EndFetch(r) ==
    /\ reader[r].busy /\ reader[r].waits = {}
    /\ LET items == About(reader[r].got, reader[r].coin)
       IN /\ digest' = [items |-> items, since |-> reader[r].since, at |-> hour]
          /\ reader' = [reader EXCEPT ![r].busy = FALSE, ![r].got = items]
    /\ UNCHANGED <<hour, printed>>

Publish(s) ==
    /\ printed[s] = Unprinted
    /\ printed' = [printed EXCEPT ![s] = hour]
    /\ UNCHANGED <<hour, reader, digest>>

HourPasses ==
    /\ hour < LastHour
    /\ hour' = hour + 1
    /\ UNCHANGED <<printed, reader, digest>>

NewsNext ==
    \/ \E r \in Readers : RssAnswers(r) \/ PanicAnswers(r) \/ EndFetch(r)
    \/ \E r \in Readers, c \in Coins : ServeCached(r, c) \/ BeginFetch(r, c)
    \/ \E s \in Stories : Publish(s)
    \/ HourPasses

NewsSpec == NewsInit /\ [][NewsNext]_newsVars

-----------------------------------------------------------------------------
(* What votes and a digest say: a fresh story weighs up to twice an old     *)
(* one, and one without an opinion half.                                    *)
VotesMood(positive, negative) ==
    CASE positive > 2 * negative -> "bullish"
      [] negative > 2 * positive -> "bearish"
      [] positive + negative > 0 -> "neutral"
      [] OTHER -> "unknown"

Weight(age) == Max({Day, 2 * (Day - age)})
DigestMood(items) ==
    LET weigh(mood) == MapThenSumSet(LAMBDA i : Weight(hour - i.date), {i \in items : i.story.mood = mood})
        up == 2 * weigh("bullish")
        down == 2 * weigh("bearish")
        all == up + down + weigh("neutral") + weigh("unknown")
    IN CASE 5 * (up - down) > all -> "bullish"
         [] 5 * (down - up) > all -> "bearish"
         [] OTHER -> "neutral"

-----------------------------------------------------------------------------
Digests == SUBSET [story : Stories, date : Int]
NewsTypeOK ==
    /\ hour \in 0 .. LastHour
    /\ printed \in [Stories -> Int]
    /\ digest.items \in Digests /\ digest.since \in Nat /\ digest.at \in -1 .. hour
    /\ DOMAIN reader = Readers
    /\ \A r \in Readers : /\ reader[r].busy \in BOOLEAN /\ reader[r].coin \in Coins \cup {"none"}
                          /\ reader[r].since \in 0 .. hour /\ reader[r].waits \subseteq Sources
                          /\ reader[r].got \in Digests

(* What is served is what one fetch brought, be it the reader's own or that *)
(* of the digest it found: of the stories that have a date, none is older   *)
(* than the lookback before that fetch began, however fetches overlap and   *)
(* overwrite the digest.  Nothing of the kind holds of the others           *)
(* (feeds.py:126, 183, 271, 416, 433).                                      *)
ServedIsRecent ==
    \A r \in Readers : ~reader[r].busy =>
        \A i \in reader[r].got : i.story.dated =>
            printed[i.story] # Unprinted /\ printed[i.story] >= reader[r].since - Lookback
=============================================================================
